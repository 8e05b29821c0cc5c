---------------------------- MODULE ProcessProofs ----------------------------
(* Proofs about a process and what the kernel keeps for it: its start and end  *)
(* with module Startup, for every number of arguments, every environment and   *)
(* auxiliary vector, every address and random word of the guard and any lengths *)
(* of the three arrays; the time it sleeps with module Sleep, for all widths of *)
(* int and time_t, all numbers of units in a second and any number of signals; *)
(* the break and the offset of a file with module Break, for every kernel that *)
(* moves the break between two bounds, every size of off_t and every file;     *)
(* clocks and timers with module Clocks, for every width of time_t and all     *)
(* times of the program and of the kernel; descriptors and the pointers made   *)
(* of them with module Files, for any number of descriptors and any names and  *)
(* modes; children with module Wait, for any exit codes, any signals that kill *)
(* and any sets of options.                                                  *)
EXTENDS Startup, Sleep, Break, Clocks, Files, Wait, Arithmetic, SequenceTheorems, TLAPS

-----------------------------------------------------------------------------
(* The guard.                                                              *)

\* Two words that differ do not cancel each other.
LEMMA GuardNotZero ==
  ASSUME NEW random \in SUBSET Bit
  PROVE  Guard(random) \in SUBSET Bit /\ Guard(random) # {}
  <1>1. GuardAddress \in SUBSET Bit /\ GuardAddress # {}
    BY StartupAssumption
  <1>2. CASE random = GuardAddress
    BY <1>1, <1>2 DEF Guard
  <1>3. CASE random # GuardAddress
    <2>1. Guard(random) = (random \ GuardAddress) \cup (GuardAddress \ random)
      BY <1>3 DEF Guard, Xor
    <2>2. QED
      BY <1>1, <1>3, <2>1
  <1>4. QED
    BY <1>2, <1>3

-----------------------------------------------------------------------------
(* The words on the stack.                                                 *)

Word == {"num", "arg", "env"} \X Int

\* Where the vectors are on the stack of the kernel.
Laid(s, n, e, a) ==
  /\ Len(s) = n + Len(e) + 2 * Len(a) + 5
  /\ s[1] = Num(n)
  /\ \A i \in 1 .. n : s[1 + i] = ArgPtr(i)
  /\ s[n + 2] = Num(0)
  /\ \A i \in 1 .. Len(e) : s[n + 2 + i] = EnvPtr(i)
  /\ s[n + 3 + Len(e)] = Num(0)
  /\ \A i \in 1 .. Len(a) : /\ s[n + 2 + Len(e) + 2 * i] = Num(a[i][1])
                            /\ s[n + 3 + Len(e) + 2 * i] = Num(a[i][2])
  /\ s[n + 4 + Len(e) + 2 * Len(a)] = Num(0)
  /\ s[n + 5 + Len(e) + 2 * Len(a)] = Num(0)

\* Two sequences in a row: the first, and behind its length the other.
IsRow(u, s, t) ==
  /\ Len(u) = Len(s) + Len(t)
  /\ \A i \in 1 .. Len(s) : u[i] = s[i]
  /\ \A i \in 1 .. Len(t) : u[Len(s) + i] = t[i]

LEMMA InARow ==
  ASSUME NEW S, NEW s \in Seq(S), NEW t \in Seq(S)
  PROVE  s \o t \in Seq(S) /\ IsRow(s \o t, s, t)
  <1> DEFINE u == s \o t
  <1>1. Len(s) \in Nat /\ Len(t) \in Nat
    BY LenProperties
  <1>2. /\ u \in Seq(S) /\ Len(u) = Len(s) + Len(t)
        /\ \A i \in 1 .. Len(s) + Len(t) : u[i] = IF i <= Len(s) THEN s[i] ELSE t[i - Len(s)]
    BY ConcatProperties
  <1> HIDE DEF u
  <1>3. ASSUME NEW i \in 1 .. Len(s) PROVE u[i] = s[i]
    <2>1. i \in 1 .. Len(s) + Len(t) /\ i <= Len(s)
      BY <1>1, SMT
    <2>2. QED
      BY <1>2, <2>1
  <1>4. ASSUME NEW i \in 1 .. Len(t) PROVE u[Len(s) + i] = t[i]
    <2>1. /\ Len(s) + i \in 1 .. Len(s) + Len(t) /\ ~(Len(s) + i <= Len(s))
          /\ (Len(s) + i) - Len(s) = i
      BY <1>1, SMT
    <2>2. QED
      BY <1>2, <2>1
  <1>5. QED
    BY <1>2, <1>3, <1>4 DEF u, IsRow

LEMMA KernelStackLaid ==
  ASSUME NEW n \in Nat, NEW e, NEW a \in Seq(Nat \X Nat), Len(e) \in Nat
  PROVE  Laid(KernelStack(n, e, a), n, e, a)
  <1> DEFINE p1 == <<Num(n)>>
             p2 == [i \in 1 .. n |-> ArgPtr(i)]
             p3 == <<Num(0)>>
             p4 == [i \in 1 .. Len(e) |-> EnvPtr(i)]
             p5 == [i \in 1 .. (2 * Len(a)) |-> Num(a[(i + 1) \div 2][2 - (i % 2)])]
             p6 == <<Num(0), Num(0)>>
  <1>1. Len(a) \in Nat /\ \A i \in 1 .. Len(a) : a[i][1] \in Nat /\ a[i][2] \in Nat
    <2>1. Len(a) \in Nat /\ a \in [1 .. Len(a) -> Nat \X Nat]
      BY LenProperties
    <2>2. QED
      BY <2>1
  <1>2. p1 \in Seq(Word) /\ Len(p1) = 1 /\ p1[1] = Num(n)
    BY SMT DEF Num, Word
  <1>3. p2 \in Seq(Word) /\ Len(p2) = n /\ \A i \in 1 .. n : p2[i] = ArgPtr(i)
    BY SMT DEF ArgPtr, Word
  <1>4. p3 \in Seq(Word) /\ Len(p3) = 1 /\ p3[1] = Num(0)
    BY SMT DEF Num, Word
  <1>5. p4 \in Seq(Word) /\ Len(p4) = Len(e) /\ \A i \in 1 .. Len(e) : p4[i] = EnvPtr(i)
    <2>1. ASSUME NEW k \in Nat
          PROVE  LET q == [i \in 1 .. k |-> EnvPtr(i)]
                 IN  q \in Seq(Word) /\ Len(q) = k /\ \A i \in 1 .. k : q[i] = EnvPtr(i)
      BY SMT DEF EnvPtr, Word
    <2>2. QED
      BY <2>1
  <1>6. /\ p5 \in Seq(Word) /\ Len(p5) = 2 * Len(a)
        /\ \A i \in 1 .. Len(a) : p5[2 * i - 1] = Num(a[i][1]) /\ p5[2 * i] = Num(a[i][2])
    <2>1. ASSUME NEW i \in 1 .. (2 * Len(a))
          PROVE  Num(a[(i + 1) \div 2][2 - (i % 2)]) \in Word
      <3>1. (i + 1) \div 2 \in 1 .. Len(a) /\ 2 - (i % 2) \in {1, 2}
        BY <1>1, SMT
      <3>2. a[(i + 1) \div 2][2 - (i % 2)] \in Nat
        BY <1>1, <3>1
      <3>3. QED
        BY <3>2, SMT DEF Num, Word
    <2>2. p5 \in Seq(Word) /\ Len(p5) = 2 * Len(a)
      <3>1. 2 * Len(a) \in Nat
        BY <1>1, SMT
      <3>2. QED
        BY <2>1, <3>1, SMT
    <2>3. ASSUME NEW i \in 1 .. Len(a)
          PROVE  p5[2 * i - 1] = Num(a[i][1]) /\ p5[2 * i] = Num(a[i][2])
      <3>1. /\ 2 * i - 1 \in 1 .. (2 * Len(a)) /\ 2 * i \in 1 .. (2 * Len(a))
            /\ ((2 * i - 1) + 1) \div 2 = i /\ 2 - ((2 * i - 1) % 2) = 1
            /\ (2 * i + 1) \div 2 = i /\ 2 - ((2 * i) % 2) = 2
        BY <1>1, SMT
      <3>2. QED
        BY <3>1
    <2>4. QED
      BY <2>2, <2>3
  <1>7. p6 \in Seq(Word) /\ Len(p6) = 2 /\ p6[1] = Num(0) /\ p6[2] = Num(0)
    BY SMT DEF Num, Word
  <1> HIDE DEF p1, p2, p3, p4, p5, p6
  <1> DEFINE s2 == p1 \o p2
             s3 == s2 \o p3
             s4 == s3 \o p4
             s5 == s4 \o p3
             s6 == s5 \o p5
             s7 == s6 \o p6
  <1>8. KernelStack(n, e, a) = s7
    BY DEF KernelStack, p1, p2, p3, p4, p5, p6
  <1>9. /\ s2 \in Seq(Word) /\ Len(s2) = n + 1 /\ s2[1] = Num(n)
        /\ \A i \in 1 .. n : s2[1 + i] = ArgPtr(i)
    <2>0. s2 \in Seq(Word) /\ IsRow(s2, p1, p2)
      BY <1>2, <1>3, InARow
    <2> HIDE DEF s2
    <2>1. /\ s2 \in Seq(Word) /\ Len(s2) = 1 + n
          /\ \A i \in 1 .. 1 : s2[i] = p1[i]
          /\ \A i \in 1 .. n : s2[1 + i] = p2[i]
      BY <1>2, <1>3, <2>0 DEF IsRow
    <2>2. 1 + n = n + 1 /\ 1 \in 1 .. 1
      BY SMT
    <2>3. QED
      BY <1>2, <1>3, <2>1, <2>2
  <1> HIDE DEF s2
  <1>10. /\ s3 \in Seq(Word) /\ Len(s3) = n + 2
         /\ \A i \in 1 .. n + 1 : s3[i] = s2[i]
         /\ s3[n + 2] = Num(0)
    <2>0. s3 \in Seq(Word) /\ IsRow(s3, s2, p3)
      BY <1>4, <1>9, InARow
    <2> HIDE DEF s3
    <2>1. /\ s3 \in Seq(Word) /\ Len(s3) = (n + 1) + 1
          /\ \A i \in 1 .. n + 1 : s3[i] = s2[i]
          /\ \A i \in 1 .. 1 : s3[(n + 1) + i] = p3[i]
      BY <1>4, <1>9, <2>0 DEF IsRow
    <2>2. (n + 1) + 1 = n + 2 /\ 1 \in 1 .. 1
      BY SMT
    <2>3. QED
      BY <1>4, <2>1, <2>2
  <1> HIDE DEF s3
  <1>11. /\ s4 \in Seq(Word) /\ Len(s4) = n + 2 + Len(e)
         /\ \A i \in 1 .. n + 2 : s4[i] = s3[i]
         /\ \A i \in 1 .. Len(e) : s4[n + 2 + i] = EnvPtr(i)
    <2>0. s4 \in Seq(Word) /\ IsRow(s4, s3, p4)
      BY <1>5, <1>10, InARow
    <2> HIDE DEF s4
    <2>1. /\ s4 \in Seq(Word) /\ Len(s4) = n + 2 + Len(e)
          /\ \A i \in 1 .. n + 2 : s4[i] = s3[i]
          /\ \A i \in 1 .. Len(e) : s4[n + 2 + i] = p4[i]
      BY <1>5, <1>10, <2>0 DEF IsRow
    <2>2. QED
      BY <1>5, <2>1
  <1> HIDE DEF s4
  <1>12. /\ s5 \in Seq(Word) /\ Len(s5) = n + 3 + Len(e)
         /\ \A i \in 1 .. n + 2 + Len(e) : s5[i] = s4[i]
         /\ s5[n + 3 + Len(e)] = Num(0)
    <2>0. s5 \in Seq(Word) /\ IsRow(s5, s4, p3)
      BY <1>4, <1>11, InARow
    <2> HIDE DEF s5
    <2>1. /\ s5 \in Seq(Word) /\ Len(s5) = (n + 2 + Len(e)) + 1
          /\ \A i \in 1 .. n + 2 + Len(e) : s5[i] = s4[i]
          /\ \A i \in 1 .. 1 : s5[(n + 2 + Len(e)) + i] = p3[i]
      BY <1>4, <1>11, <2>0 DEF IsRow
    <2>2. (n + 2 + Len(e)) + 1 = n + 3 + Len(e) /\ 1 \in 1 .. 1
      BY SMT
    <2>3. QED
      BY <1>4, <2>1, <2>2
  <1> HIDE DEF s5
  <1>13. /\ s6 \in Seq(Word) /\ Len(s6) = n + 3 + Len(e) + 2 * Len(a)
         /\ \A i \in 1 .. n + 3 + Len(e) : s6[i] = s5[i]
         /\ \A i \in 1 .. Len(a) : /\ s6[n + 2 + Len(e) + 2 * i] = Num(a[i][1])
                                   /\ s6[n + 3 + Len(e) + 2 * i] = Num(a[i][2])
    <2>0. s6 \in Seq(Word) /\ IsRow(s6, s5, p5)
      BY <1>6, <1>12, InARow
    <2> HIDE DEF s6
    <2>1. /\ s6 \in Seq(Word) /\ Len(s6) = n + 3 + Len(e) + 2 * Len(a)
          /\ \A i \in 1 .. n + 3 + Len(e) : s6[i] = s5[i]
          /\ \A i \in 1 .. 2 * Len(a) : s6[n + 3 + Len(e) + i] = p5[i]
      BY <1>6, <1>12, <2>0 DEF IsRow
    <2>2. ASSUME NEW i \in 1 .. Len(a)
          PROVE  /\ s6[n + 2 + Len(e) + 2 * i] = Num(a[i][1])
                 /\ s6[n + 3 + Len(e) + 2 * i] = Num(a[i][2])
      <3>1. /\ 2 * i - 1 \in 1 .. 2 * Len(a) /\ 2 * i \in 1 .. 2 * Len(a)
            /\ n + 3 + Len(e) + (2 * i - 1) = n + 2 + Len(e) + 2 * i
        BY <1>1, SMT
      <3>2. s6[n + 3 + Len(e) + (2 * i - 1)] = p5[2 * i - 1] /\ s6[n + 3 + Len(e) + 2 * i] = p5[2 * i]
        BY <2>1, <3>1
      <3>3. QED
        BY <1>6, <3>1, <3>2
    <2>3. QED
      BY <2>1, <2>2
  <1> HIDE DEF s6
  <1>14. /\ Len(s7) = n + Len(e) + 2 * Len(a) + 5
         /\ \A i \in 1 .. n + 3 + Len(e) + 2 * Len(a) : s7[i] = s6[i]
         /\ s7[n + 4 + Len(e) + 2 * Len(a)] = Num(0)
         /\ s7[n + 5 + Len(e) + 2 * Len(a)] = Num(0)
    <2>0. s7 \in Seq(Word) /\ IsRow(s7, s6, p6)
      BY <1>7, <1>13, InARow
    <2> HIDE DEF s7
    <2>1. /\ Len(s7) = n + 3 + Len(e) + 2 * Len(a) + 2
          /\ \A i \in 1 .. n + 3 + Len(e) + 2 * Len(a) : s7[i] = s6[i]
          /\ \A i \in 1 .. 2 : s7[n + 3 + Len(e) + 2 * Len(a) + i] = p6[i]
      BY <1>7, <1>13, <2>0 DEF IsRow
    <2>2. /\ n + 3 + Len(e) + 2 * Len(a) + 2 = n + Len(e) + 2 * Len(a) + 5
          /\ n + 3 + Len(e) + 2 * Len(a) + 1 = n + 4 + Len(e) + 2 * Len(a)
          /\ n + 3 + Len(e) + 2 * Len(a) + 2 = n + 5 + Len(e) + 2 * Len(a)
          /\ 1 \in 1 .. 2 /\ 2 \in 1 .. 2
      BY <1>1, SMT
    <2>3. QED
      BY <1>7, <2>1, <2>2
  <1> HIDE DEF s7
  <1>15. ASSUME NEW i \in 1 .. n + 3 + Len(e) PROVE s7[i] = s5[i]
    <2>1. i \in 1 .. n + 3 + Len(e) + 2 * Len(a)
      BY <1>1, SMT
    <2>2. QED
      BY <1>13, <1>14, <2>1
  <1>16. ASSUME NEW i \in 1 .. n + 2 + Len(e) PROVE s7[i] = s4[i]
    <2>1. i \in 1 .. n + 3 + Len(e)
      BY SMT
    <2>2. QED
      BY <1>12, <1>15, <2>1
  <1>17. ASSUME NEW i \in 1 .. n + 2 PROVE s7[i] = s3[i]
    <2>1. i \in 1 .. n + 2 + Len(e)
      BY SMT
    <2>2. QED
      BY <1>11, <1>16, <2>1
  <1>18. /\ s7[1] = Num(n) /\ s7[n + 2] = Num(0)
         /\ \A i \in 1 .. n : s7[1 + i] = ArgPtr(i)
    <2>1. /\ 1 \in 1 .. n + 2 /\ n + 2 \in 1 .. n + 2 /\ 1 \in 1 .. n + 1
          /\ \A i \in 1 .. n : 1 + i \in 1 .. n + 2 /\ 1 + i \in 1 .. n + 1
      BY SMT
    <2>2. QED
      BY <1>9, <1>10, <1>17, <2>1
  <1>19. /\ \A i \in 1 .. Len(e) : s7[n + 2 + i] = EnvPtr(i)
         /\ s7[n + 3 + Len(e)] = Num(0)
    <2>1. /\ \A i \in 1 .. Len(e) : n + 2 + i \in 1 .. n + 2 + Len(e)
          /\ n + 3 + Len(e) \in 1 .. n + 3 + Len(e)
      BY SMT
    <2>2. QED
      BY <1>11, <1>12, <1>15, <1>16, <2>1
  <1>20. \A i \in 1 .. Len(a) : /\ s7[n + 2 + Len(e) + 2 * i] = Num(a[i][1])
                                /\ s7[n + 3 + Len(e) + 2 * i] = Num(a[i][2])
    <2> SUFFICES ASSUME NEW i \in 1 .. Len(a)
                 PROVE  /\ s7[n + 2 + Len(e) + 2 * i] = Num(a[i][1])
                        /\ s7[n + 3 + Len(e) + 2 * i] = Num(a[i][2])
      OBVIOUS
    <2>1. /\ n + 2 + Len(e) + 2 * i \in 1 .. n + 3 + Len(e) + 2 * Len(a)
          /\ n + 3 + Len(e) + 2 * i \in 1 .. n + 3 + Len(e) + 2 * Len(a)
      BY <1>1, SMT
    <2>2. QED
      BY <1>13, <1>14, <2>1
  <1>21. QED
    BY <1>8, <1>14, <1>18, <1>19, <1>20 DEF Laid

\* The first zero behind the environment is the one at its end.
LEMMA BehindEnvironment ==
  ASSUME NEW n \in Nat, NEW e, NEW a, Len(e) \in Nat, Len(a) \in Nat, Laid(stack, n, e, a)
  PROVE  BehindNull(n + 3) = n + 4 + Len(e)
  <1> DEFINE Is(k) == stack[k] = Num(0) /\ \A j \in (n + 3) .. (k - 1) : stack[j] # Num(0)
             end   == n + 3 + Len(e)
  <1>1. Len(stack) = n + Len(e) + 2 * Len(a) + 5 /\ end \in (n + 3) .. Len(stack)
    <2>1. Len(stack) = n + Len(e) + 2 * Len(a) + 5
      BY DEF Laid
    <2>2. QED
      BY <2>1, SMT
  <1>2. ASSUME NEW j \in (n + 3) .. (end - 1) PROVE stack[j] # Num(0)
    <2>1. j - (n + 2) \in 1 .. Len(e) /\ n + 2 + (j - (n + 2)) = j
      BY SMT
    <2>2. stack[j] = EnvPtr(j - (n + 2))
      BY <2>1 DEF Laid
    <2>3. QED
      BY <2>2 DEF EnvPtr, Num
  <1>3. Is(end)
    BY <1>2 DEF Laid
  <1>4. ASSUME NEW k \in (n + 3) .. Len(stack), Is(k) PROVE k = end
    <2>1. ~(k < end)
      <3>1. k < end => k \in (n + 3) .. (end - 1)
        BY SMT
      <3>2. QED
        BY <1>2, <1>4, <3>1
    <2>2. ~(end < k)
      <3>1. end < k => end \in (n + 3) .. (k - 1)
        BY <1>1, SMT
      <3>2. QED
        BY <1>3, <1>4, <3>1
    <2>3. QED
      BY <1>1, <2>1, <2>2, SMT
  <1> HIDE DEF Is
  <1>5. (CHOOSE k \in (n + 3) .. Len(stack) : Is(k)) = end
    BY <1>1, <1>3, <1>4
  <1>6. BehindNull(n + 3) = 1 + end
    BY <1>5 DEF BehindNull, Is
  <1>7. QED
    BY <1>6, SMT

-----------------------------------------------------------------------------
(* The walk.                                                               *)

Walked == phase \notin {"enter", "walk"}

\* Behind the walk every vector is where the kernel has put it.
WalkInv ==
  /\ env \in EnvV /\ aux \in AuxV
  /\ found.kind \in {"none", "env", "aux"}
  /\ \E n \in Argc : stack = KernelStack(n, env, aux)
  /\ ~Walked => ~running /\ argc = 0 /\ argv = NULL /\ environ = NULL /\ auxv = NULL
  /\ Walked => /\ argc \in Argc /\ stack = KernelStack(argc, env, aux)
               /\ argv = 2 /\ environ \in {NULL, argc + 3} /\ auxv = argc + 4 + Len(env)

LEMMA InputFacts ==
  ASSUME NEW e \in EnvV, NEW a \in AuxV
  PROVE  Len(e) \in Nat /\ a \in Seq(Nat \X Nat) /\ Len(a) \in Nat
  <1>1. e \in Seq(Seq(STRING)) /\ a \in Seq(Nat \X Nat)
    BY StartupAssumption
  <1>2. QED
    BY <1>1, LenProperties

LEMMA StackLaid ==
  ASSUME NEW n \in Argc, env \in EnvV, aux \in AuxV, stack = KernelStack(n, env, aux)
  PROVE  n \in Nat /\ Len(env) \in Nat /\ Len(aux) \in Nat /\ Laid(stack, n, env, aux)
  <1>1. n \in Nat
    BY StartupAssumption
  <1>2. Len(env) \in Nat /\ aux \in Seq(Nat \X Nat) /\ Len(aux) \in Nat
    BY InputFacts
  <1>3. QED
    BY <1>1, <1>2, KernelStackLaid

LEMMA WalkInvInit == StartupInit => WalkInv
  BY DEF StartupInit, WalkInv, Walked, Found

LEMMA WalkInvNext == WalkInv /\ [StartupNext]_startupVars => WalkInv'
  <1> SUFFICES ASSUME WalkInv, [StartupNext]_startupVars PROVE WalkInv'
    OBVIOUS
  <1>1. CASE __stack_chk_init
    BY <1>1 DEF __stack_chk_init, WalkInv, Walked
  <1>2. CASE Walk
    <2>1. PICK n \in Argc : stack = KernelStack(n, env, aux)
      BY DEF WalkInv
    <2>2. n \in Nat /\ Len(env) \in Nat /\ Len(aux) \in Nat /\ Laid(stack, n, env, aux)
      BY <2>1, StackLaid DEF WalkInv
    <2>3. /\ argc' = stack[1][2] /\ argv' = 1 + 1 /\ environ' = argv' + argc' + 1
          /\ auxv' = BehindNull(environ') /\ phase' = "preinit"
          /\ UNCHANGED <<env, aux, stack, found>>
      BY <1>2 DEF Walk, sp
    <2>4. argc' = n
      BY <2>2, <2>3 DEF Laid, Num
    <2>5. argv' = 2 /\ environ' = n + 3
      BY <2>2, <2>3, <2>4, SMT
    <2>6. auxv' = n + 4 + Len(env)
      BY <2>2, <2>3, <2>5, BehindEnvironment
    <2>7. QED
      BY <2>1, <2>3, <2>4, <2>5, <2>6 DEF WalkInv, Walked
  <1>3. CASE Constructor
    BY <1>3 DEF Constructor, Calls, NextPhase, WalkInv, Walked
  <1>4. CASE Main
    BY <1>4 DEF Main, Calls, WalkInv, Walked
  <1>5. CASE Destructor
    BY <1>5 DEF Destructor, Calls, WalkInv, Walked
  <1>6. CASE \E code \in ExitCode : Return(code)
    BY <1>6 DEF Return, WalkInv, Walked
  <1>7. CASE LastExit
    BY <1>7 DEF LastExit, Exit, WalkInv, Walked
  <1>8. CASE ProgramExits
    BY <1>8 DEF ProgramExits, Exit, WalkInv, Walked
  <1>9. CASE Abort
    BY <1>9 DEF Abort, WalkInv, Walked
  <1>10. CASE Lookup
    BY <1>10 DEF Lookup, Found, WalkInv, Walked
  <1>11. CASE ClearEnviron
    BY <1>11 DEF ClearEnviron, Found, WalkInv, Walked
  <1>12. CASE UNCHANGED startupVars
    BY <1>12 DEF startupVars, WalkInv, Walked
  <1>13. QED
    BY <1>1, <1>2, <1>3, <1>4, <1>5, <1>6, <1>7, <1>8, <1>9, <1>10, <1>11, <1>12 DEF StartupNext

RunningFindsVectors == running => VectorsFound

LEMMA WalkInvFinds == WalkInv => RunningFindsVectors
  <1> SUFFICES ASSUME WalkInv, running PROVE VectorsFound
    BY DEF RunningFindsVectors
  <1>1. /\ argc \in Nat /\ Len(env) \in Nat /\ Len(aux) \in Nat /\ Laid(stack, argc, env, aux)
        /\ argv = 2 /\ environ \in {NULL, argc + 3} /\ auxv = argc + 4 + Len(env)
    BY StackLaid DEF WalkInv
  <1>2. stack[argv + argc] = Num(0)
    <2>1. argv + argc = argc + 2
      BY <1>1, SMT
    <2>2. QED
      BY <1>1, <2>1 DEF Laid
  <1>3. ASSUME NEW i \in 1 .. argc PROVE stack[argv + i - 1] = ArgPtr(i)
    <2>1. argv + i - 1 = 1 + i
      BY <1>1, SMT
    <2>2. QED
      BY <1>1, <2>1 DEF Laid
  <1>4. ASSUME environ # NULL PROVE stack[environ + Len(env)] = Num(0)
    <2>1. environ + Len(env) = argc + 3 + Len(env)
      BY <1>1, <1>4, SMT
    <2>2. QED
      BY <1>1, <2>1 DEF Laid
  <1>5. ASSUME environ # NULL, NEW i \in 1 .. Len(env) PROVE stack[environ + i - 1] = EnvPtr(i)
    <2>1. environ + i - 1 = argc + 2 + i
      BY <1>1, <1>5, SMT
    <2>2. QED
      BY <1>1, <2>1 DEF Laid
  <1>6. ASSUME NEW i \in 1 .. Len(aux)
        PROVE  /\ stack[auxv + 2 * i - 2] = Num(aux[i][1])
               /\ stack[auxv + 2 * i - 1] = Num(aux[i][2])
    <2>1. /\ auxv + 2 * i - 2 = argc + 2 + Len(env) + 2 * i
          /\ auxv + 2 * i - 1 = argc + 3 + Len(env) + 2 * i
      BY <1>1, SMT
    <2>2. QED
      BY <1>1, <2>1 DEF Laid
  <1>7. QED
    BY <1>2, <1>3, <1>4, <1>5, <1>6 DEF VectorsFound

\* For any number of arguments, any environment and any auxiliary vector, the walk of
\* _start_c() over the words of the stack finds all of argv, environ and _auxv before
\* the first function of the program runs, and they stay what they are.
THEOREM WalkFindsVectors == StartupSpec => []RunningFindsVectors
  BY WalkInvInit, WalkInvNext, WalkInvFinds, PTL DEF StartupSpec

-----------------------------------------------------------------------------
(* Lookups.                                                                *)

\* The first of a set of places.
LEMMA FirstPlace ==
  ASSUME NEW S \in SUBSET Nat, NEW f \in S, \A i \in S : f <= i
  PROVE  (CHOOSE i \in S : \A j \in S : i <= j) = f
  <1>1. \A i \in S : (\A j \in S : i <= j) => i = f
    <2>1. \A i \in S : i \in Nat /\ f \in Nat
      OBVIOUS
    <2>2. QED
      BY <2>1, SMT
  <1>2. QED
    BY <1>1

\* A string starts with a name and = follows, if and only if this is the part before its
\* first =, and there is one.
LEMMA MatchIsName ==
  ASSUME NEW name \in Seq(STRING), \A i \in DOMAIN name : name[i] # "=",
         NEW string \in Seq(STRING)
  PROVE  Matches(name, string) <=> NameOf(string) = name /\ Len(name) < Len(string)
  <1> DEFINE n  == Len(name)
             l  == Len(string)
             eq == {i \in DOMAIN string : string[i] = "="}
             first == CHOOSE i \in eq : \A j \in eq : i <= j
             head(k) == SubSeq(string, 1, k)
  <1>1. /\ n \in Nat /\ name \in [1 .. n -> STRING] /\ DOMAIN name = 1 .. n
        /\ l \in Nat /\ string \in [1 .. l -> STRING] /\ DOMAIN string = 1 .. l
    BY LenProperties
  <1>2. eq \in SUBSET Nat /\ \A i \in eq : i \in 1 .. l /\ string[i] = "="
    BY <1>1, SMT
  <1>3. \A k \in 0 .. l : /\ head(k) \in Seq(STRING) /\ Len(head(k)) = k
                          /\ \A i \in 1 .. k : head(k)[i] = string[i]
    <2> SUFFICES ASSUME NEW k \in 0 .. l
                 PROVE  /\ head(k) \in Seq(STRING) /\ Len(head(k)) = k
                        /\ \A i \in 1 .. k : head(k)[i] = string[i]
      OBVIOUS
    <2>1. \A i \in 1 .. k : string[i] \in STRING
      BY <1>1, SMT
    <2>2. /\ head(k) \in Seq(STRING) /\ Len(head(k)) = (IF 1 <= k THEN k - 1 + 1 ELSE 0)
          /\ \A i \in 1 .. k - 1 + 1 : head(k)[i] = string[1 + i - 1]
      BY <2>1, SubSeqProperties
    <2> HIDE DEF head
    <2>3. Len(head(k)) = k /\ \A i \in 1 .. k : i \in 1 .. k - 1 + 1 /\ 1 + i - 1 = i
      BY <2>2, SMT
    <2>4. QED
      BY <2>2, <2>3
  <1>4. NameOf(string) = IF eq = {} THEN string ELSE head(first - 1)
    BY DEF NameOf
  <1>5. Matches(name, string) <=> n < l /\ head(n) = name /\ string[n + 1] = "="
    BY DEF Matches
  <1> HIDE DEF n, l, eq, first, head
  <1>6. ASSUME n < l, head(n) = name, string[n + 1] = "=" PROVE NameOf(string) = name
    <2>1. n + 1 \in 1 .. l
      BY <1>1, <1>6, SMT
    <2>2. n + 1 \in eq
      BY <1>1, <1>6, <2>1 DEF eq
    <2>3. ASSUME NEW i \in eq PROVE n + 1 <= i
      <3>1. i \in 1 .. l /\ string[i] = "="
        BY <1>2
      <3>2. n + 1 <= i \/ i \in 1 .. n
        BY <1>1, <3>1, SMT
      <3>3. ASSUME i \in 1 .. n PROVE FALSE
        <4>1. n \in 0 .. l
          BY <1>1, <1>6, SMT
        <4>2. name[i] = string[i]
          BY <1>3, <1>6, <3>3, <4>1
        <4>3. name[i] # "="
          BY <1>1, <3>3
        <4>4. QED
          BY <3>1, <4>2, <4>3
      <3>4. QED
        BY <3>2, <3>3
    <2>4. first = n + 1
      BY <1>2, <2>2, <2>3, FirstPlace DEF first
    <2>5. first - 1 = n
      BY <1>1, <2>4, SMT
    <2>6. QED
      BY <1>4, <1>6, <2>2, <2>5
  <1>7. ASSUME NameOf(string) = name, n < l PROVE head(n) = name /\ string[n + 1] = "="
    <2>1. eq # {}
      <3>1. eq = {} => name = string
        BY <1>4, <1>7
      <3>2. name # string
        BY <1>1, <1>7, SMT DEF n, l
      <3>3. QED
        BY <3>1, <3>2
    <2>2. PICK f \in eq : \A i \in eq : f <= i
      BY <1>2, <2>1, LowestNatural
    <2>3. first = f
      BY <1>2, <2>2, FirstPlace DEF first
    <2>4. f \in 1 .. l /\ string[f] = "="
      BY <1>2, <2>2
    <2>5. name = head(f - 1)
      BY <1>4, <1>7, <2>1, <2>3
    <2>6. f - 1 \in 0 .. l
      BY <1>1, <2>4, SMT
    <2>7. n = f - 1
      BY <1>3, <2>5, <2>6 DEF n
    <2>8. n + 1 = f
      BY <1>1, <2>4, <2>7, SMT
    <2>9. QED
      BY <2>4, <2>5, <2>7, <2>8
  <1>8. QED
    BY <1>5, <1>6, <1>7 DEF n, l

\* For every name getenv() gives the variable of that name.
LEMMA GetenvIsVariable ==
  ASSUME NEW name \in Name, env \in EnvV, aux \in AuxV, argc \in Argc,
         stack = KernelStack(argc, env, aux), environ \in {NULL, argc + 3}
  PROVE  getenv(name) = Variable(name)
  <1> DEFINE of    == {i \in DOMAIN env : NameOf(env[i]) = name /\ Len(name) < Len(env[i])}
             first == CHOOSE i \in of : \A j \in of : i <= j
             match == {i \in environ .. (BehindNull(environ) - 1 - 1) :
                         Matches(name, env[stack[i][2]])}
             found1 == CHOOSE i \in match : \A j \in match : i <= j
             string == env[stack[found1][2]]
  <1>1. Variable(name) = IF of = {} \/ environ = NULL THEN Nothing ELSE ValueOf(env[first])
    BY DEF Variable
  <1>2. getenv(name) = IF environ = NULL THEN Nothing ELSE IF match = {} THEN Nothing
                       ELSE SubSeq(string, Len(name) + 2, Len(string))
    BY DEF getenv
  <1>3. /\ argc \in Nat /\ Len(env) \in Nat /\ Len(aux) \in Nat /\ Laid(stack, argc, env, aux)
        /\ name \in Seq(STRING) /\ \A i \in DOMAIN name : name[i] # "="
    BY StackLaid, StartupAssumption
  <1>4. DOMAIN env = 1 .. Len(env) /\ \A i \in DOMAIN env : env[i] \in Seq(STRING)
    <2>1. env \in Seq(Seq(STRING))
      BY StartupAssumption
    <2>2. QED
      BY <2>1, LenProperties, ElementOfSeq
  <1>5. CASE environ = NULL
    BY <1>1, <1>2, <1>5
  <1>6. CASE environ = argc + 3
    <2>1. BehindNull(environ) = argc + 4 + Len(env)
      BY <1>3, <1>6, BehindEnvironment
    <2> DEFINE lo == argc + 2
    <2>2. ASSUME NEW i PROVE i \in match <=> i \in Nat /\ i - lo \in of /\ i > lo
      <3> DEFINE dom == environ .. (BehindNull(environ) - 1 - 1)
      <3>1. i \in dom <=> i \in Nat /\ i - lo \in 1 .. Len(env) /\ i > lo
        BY <1>3, <1>6, <2>1, SMT
      <3>2. ASSUME i \in dom PROVE stack[i][2] = i - lo
        <4>1. i - lo \in 1 .. Len(env) /\ lo + (i - lo) = i
          BY <1>3, <3>1, <3>2, SMT
        <4>2. stack[i] = EnvPtr(i - lo)
          BY <1>3, <4>1 DEF Laid
        <4>3. QED
          BY <4>2 DEF EnvPtr
      <3>3. i \in match <=> i \in dom /\ Matches(name, env[stack[i][2]])
        OBVIOUS
      <3> HIDE DEF dom, match
      <3>4. ASSUME i \in dom PROVE Matches(name, env[stack[i][2]]) <=> i - lo \in of
        <4>1. i - lo \in DOMAIN env
          BY <1>4, <3>1, <3>4
        <4>2. Matches(name, env[i - lo]) <=> NameOf(env[i - lo]) = name /\ Len(name) < Len(env[i - lo])
          BY <1>3, <1>4, <4>1, MatchIsName
        <4>3. QED
          BY <3>2, <3>4, <4>1, <4>2
      <3>5. i - lo \in of => i - lo \in 1 .. Len(env)
        BY <1>4
      <3>6. QED
        BY <3>1, <3>3, <3>4, <3>5
    <2>3. of \in SUBSET Nat /\ \A i \in of : i \in 1 .. Len(env)
      BY <1>4, SMT
    <2>4. match \in SUBSET Nat
      BY <2>2
    <2>5. ASSUME NEW i \in of PROVE i + lo \in match /\ (i + lo) - lo = i
      <3>1. (i + lo) - lo = i /\ i + lo \in Nat /\ i + lo > lo
        BY <1>3, <2>3, SMT
      <3>2. QED
        BY <2>2, <3>1
    <2>6. CASE of = {}
      <3>1. match = {}
        BY <2>2, <2>6
      <3>2. QED
        BY <1>1, <1>2, <2>6, <3>1
    <2>7. CASE of # {}
      <3>1. PICK f \in of : \A i \in of : f <= i
        BY <2>3, <2>7, LowestNatural
      <3>2. first = f
        BY <2>3, <3>1, FirstPlace
      <3>3. f + lo \in match /\ f \in Nat
        BY <2>3, <2>5, <3>1
      <3>4. ASSUME NEW i \in match PROVE f + lo <= i
        <4>1. i \in Nat /\ i - lo \in of
          BY <2>2
        <4>2. f <= i - lo
          BY <3>1, <4>1
        <4>3. QED
          BY <1>3, <3>3, <4>1, <4>2, SMT
      <3>5. found1 = f + lo
        BY <2>4, <3>3, <3>4, FirstPlace
      <3>6. stack[f + lo][2] = f
        <4>1. f \in 1 .. Len(env) /\ f + lo = argc + 2 + f
          BY <1>3, <2>3, <3>1, SMT
        <4>2. stack[f + lo] = EnvPtr(f)
          BY <1>3, <4>1 DEF Laid
        <4>3. QED
          BY <4>2 DEF EnvPtr
      <3>7. string = env[f]
        BY <3>5, <3>6
      <3>8. environ # NULL /\ match # {}
        BY <1>3, <1>6, <3>3, SMT DEF NULL
      <3>9. NameOf(env[f]) = name
        BY <3>1
      <3> HIDE DEF of, match, first, found1, string
      <3>10. getenv(name) = SubSeq(env[f], Len(name) + 2, Len(env[f]))
        BY <1>2, <3>7, <3>8
      <3>11. Variable(name) = ValueOf(env[f])
        BY <1>1, <2>7, <3>2, <3>8
      <3>12. QED
        BY <3>9, <3>10, <3>11 DEF ValueOf
    <2>8. QED
      BY <2>6, <2>7
  <1>7. QED
    BY <1>5, <1>6

\* For every type getauxval() gives the value of that type.
LEMMA GetauxvalIsAuxiliary ==
  ASSUME NEW type, env \in EnvV, aux \in AuxV, argc \in Argc,
         stack = KernelStack(argc, env, aux), auxv = argc + 4 + Len(env)
  PROVE  getauxval(type) = Auxiliary(type)
  <1> DEFINE Pair(k) == auxv + 2 * k
             Stops(k) == IsLast(Pair(k)) \/ stack[Pair(k)] = Num(type)
             Goes(k)  == ~IsLast(Pair(k)) /\ stack[Pair(k)] # Num(type)
             stop  == CHOOSE k \in 0 .. Len(stack) : Stops(k) /\ \A j \in 0 .. (k - 1) : Goes(j)
             of    == {i \in DOMAIN aux : aux[i][1] = type}
             first == CHOOSE i \in of : \A j \in of : i <= j
  <1>1. Auxiliary(type) = IF of = {} THEN Num(0) ELSE Num(aux[first][2])
    BY DEF Auxiliary
  <1>2. getauxval(type) = IF auxv = NULL \/ IsLast(Pair(stop)) THEN Num(0) ELSE stack[Pair(stop) + 1]
    BY DEF getauxval
  <1>3. /\ argc \in Nat /\ Len(env) \in Nat /\ Len(aux) \in Nat /\ Laid(stack, argc, env, aux)
        /\ DOMAIN aux = 1 .. Len(aux) /\ \A i \in 1 .. Len(aux) : aux[i][1] # 0
    <2>1. /\ argc \in Nat /\ Len(env) \in Nat /\ Len(aux) \in Nat /\ Laid(stack, argc, env, aux)
      BY StackLaid
    <2>2. aux \in Seq(Nat \X Nat) /\ \A i \in DOMAIN aux : aux[i][1] # 0
      BY StartupAssumption
    <2>3. DOMAIN aux = 1 .. Len(aux)
      BY <2>2, LenProperties
    <2>4. QED
      BY <2>1, <2>2, <2>3
  <1>4. auxv # NULL /\ Len(aux) \in 0 .. Len(stack) /\ \A i \in 1 .. Len(aux) : i - 1 \in 0 .. Len(stack)
    <2>1. Len(stack) = argc + Len(env) + 2 * Len(aux) + 5
      BY <1>3 DEF Laid
    <2>2. QED
      BY <1>3, <2>1, SMT DEF NULL
  <1>5. ASSUME NEW i \in 1 .. Len(aux)
        PROVE  /\ stack[Pair(i - 1)] = Num(aux[i][1]) /\ stack[Pair(i - 1) + 1] = Num(aux[i][2])
               /\ ~IsLast(Pair(i - 1))
    <2>1. /\ Pair(i - 1) = argc + 2 + Len(env) + 2 * i
          /\ Pair(i - 1) + 1 = argc + 3 + Len(env) + 2 * i
      BY <1>3, SMT
    <2>2. stack[Pair(i - 1)] = Num(aux[i][1]) /\ stack[Pair(i - 1) + 1] = Num(aux[i][2])
      BY <1>3, <2>1 DEF Laid
    <2>3. stack[Pair(i - 1)] # Num(0)
      BY <1>3, <2>2 DEF Num
    <2>4. QED
      BY <2>2, <2>3 DEF IsLast
  <1>6. IsLast(Pair(Len(aux)))
    <2>1. /\ Pair(Len(aux)) = argc + 4 + Len(env) + 2 * Len(aux)
          /\ Pair(Len(aux)) + 1 = argc + 5 + Len(env) + 2 * Len(aux)
      BY <1>3, SMT
    <2>2. QED
      BY <1>3, <2>1 DEF Laid, IsLast
  <1>7. \A k : Goes(k) <=> ~Stops(k)
    OBVIOUS
  <1>8. ASSUME NEW i \in 1 .. Len(aux) PROVE Stops(i - 1) <=> i \in of
    <2>1. Stops(i - 1) <=> Num(aux[i][1]) = Num(type)
      BY <1>5
    <2>2. QED
      BY <1>3, <2>1 DEF Num
  <1> HIDE DEF Pair, Stops, Goes, of, first
  <1>9. ASSUME NEW m \in 0 .. Len(stack), Stops(m), \A j \in 0 .. (m - 1) : ~Stops(j)
        PROVE  stop = m
    <2>1. ASSUME NEW k \in 0 .. Len(stack), Stops(k), \A j \in 0 .. (k - 1) : Goes(j)
          PROVE  k = m
      <3>1. k \in 0 .. (m - 1) \/ m \in 0 .. (k - 1) \/ k = m
        BY SMT
      <3>2. QED
        BY <1>7, <1>9, <2>1, <3>1
    <2>2. QED
      BY <1>7, <1>9, <2>1
  <1> HIDE DEF stop
  <1>10. CASE of = {}
    <2>1. \A j \in 0 .. (Len(aux) - 1) : ~Stops(j)
      <3>1. ASSUME NEW j \in 0 .. (Len(aux) - 1) PROVE ~Stops(j)
        <4>1. j + 1 \in 1 .. Len(aux) /\ (j + 1) - 1 = j
          BY <1>3, SMT
        <4>2. Stops((j + 1) - 1) <=> j + 1 \in of
          BY <1>8, <4>1
        <4>3. QED
          BY <1>10, <4>1, <4>2
      <3>2. QED
        BY <3>1
    <2>2. Stops(Len(aux))
      BY <1>6 DEF Stops
    <2>3. stop = Len(aux)
      BY <1>4, <1>9, <2>1, <2>2
    <2>4. QED
      BY <1>1, <1>2, <1>6, <1>10, <2>3
  <1>11. CASE of # {}
    <2>1. of \in SUBSET Nat /\ \A i \in of : i \in 1 .. Len(aux)
      BY <1>3, SMT DEF of
    <2>2. PICK f \in of : \A i \in of : f <= i
      BY <1>11, <2>1, LowestNatural
    <2>3. first = f
      BY <2>1, <2>2, FirstPlace DEF first
    <2>4. f \in 1 .. Len(aux)
      BY <2>1, <2>2
    <2>5. Stops(f - 1)
      BY <1>8, <2>2, <2>4
    <2>6. ASSUME NEW j \in 0 .. ((f - 1) - 1) PROVE ~Stops(j)
      <3>1. j + 1 \in 1 .. Len(aux) /\ (j + 1) - 1 = j /\ ~(f <= j + 1)
        BY <1>3, <2>4, SMT
      <3>2. Stops((j + 1) - 1) <=> j + 1 \in of
        BY <1>8, <3>1
      <3>3. QED
        BY <2>2, <3>1, <3>2
    <2>7. stop = f - 1
      BY <1>4, <1>9, <2>4, <2>5, <2>6
    <2>8. QED
      BY <1>1, <1>2, <1>4, <1>5, <1>11, <2>3, <2>4, <2>7
  <1>12. QED
    BY <1>10, <1>11

-----------------------------------------------------------------------------

\* What a lookup gave is what the kernel has passed, for as long as the program does not
\* clear environ.
LookupInv ==
  /\ WalkInv
  /\ ~Walked => found.kind = "none"
  /\ found.kind = "env" => found.result = Variable(found.key)
  /\ found.kind = "aux" => found.result = Auxiliary(found.key)

LEMMA LookupInvNext == LookupInv /\ [StartupNext]_startupVars => LookupInv'
  <1> SUFFICES ASSUME LookupInv, [StartupNext]_startupVars PROVE LookupInv'
    OBVIOUS
  <1>1. WalkInv /\ WalkInv'
    BY WalkInvNext DEF LookupInv
  <1>2. UNCHANGED <<env, aux>>
    BY DEF StartupNext, __stack_chk_init, Walk, Constructor, Calls, NextPhase, Main, Destructor,
           Return, LastExit, ProgramExits, Exit, Abort, Lookup, ClearEnviron, startupVars
  <1>3. Walked => Walked'
    BY DEF StartupNext, __stack_chk_init, Walk, Constructor, Calls, NextPhase, Main, Destructor,
           Return, LastExit, ProgramExits, Exit, Abort, Lookup, ClearEnviron, startupVars, Walked
  <1>4. running => Walked
    BY <1>1 DEF WalkInv
  <1>5. CASE UNCHANGED <<environ, found>>
    <2>1. Variable(found.key)' = Variable(found.key) /\ Auxiliary(found.key)' = Auxiliary(found.key)
      BY <1>2, <1>5 DEF Variable, Auxiliary
    <2>2. QED
      BY <1>1, <1>3, <1>5, <2>1 DEF LookupInv
  <1>6. CASE Walk
    <2>1. found'.kind = "none" /\ Walked'
      BY <1>6 DEF Walk, LookupInv, Walked
    <2>2. QED
      BY <1>1, <2>1 DEF LookupInv
  <1>7. CASE Lookup
    <2>1. running /\ UNCHANGED <<env, aux, environ>>
      BY <1>7 DEF Lookup
    <2>2. /\ env \in EnvV /\ aux \in AuxV /\ argc \in Argc /\ stack = KernelStack(argc, env, aux)
          /\ environ \in {NULL, argc + 3} /\ auxv = argc + 4 + Len(env)
      BY <1>1, <2>1 DEF WalkInv
    <2>3. CASE \E name \in Name : found' = Found("env", name, getenv(name))
      <3>1. PICK name \in Name : found' = Found("env", name, getenv(name))
        BY <2>3
      <3>2. getenv(name) = Variable(name)
        BY <2>2, GetenvIsVariable
      <3>3. found'.kind = "env" /\ found'.key = name /\ found'.result = Variable(name)
        BY <3>1, <3>2 DEF Found
      <3>4. Variable(found.key)' = Variable(name)
        BY <2>1, <3>3 DEF Variable
      <3>5. QED
        BY <1>1, <1>3, <1>4, <2>1, <3>3, <3>4 DEF LookupInv
    <2>4. CASE \E type \in AuxType : found' = Found("aux", type, getauxval(type))
      <3>1. PICK type \in AuxType : found' = Found("aux", type, getauxval(type))
        BY <2>4
      <3>2. getauxval(type) = Auxiliary(type)
        BY <2>2, GetauxvalIsAuxiliary
      <3>3. found'.kind = "aux" /\ found'.key = type /\ found'.result = Auxiliary(type)
        BY <3>1, <3>2 DEF Found
      <3>4. Auxiliary(found.key)' = Auxiliary(type)
        BY <2>1, <3>3 DEF Auxiliary
      <3>5. QED
        BY <1>1, <1>3, <1>4, <2>1, <3>3, <3>4 DEF LookupInv
    <2>5. QED
      BY <1>7, <2>3, <2>4 DEF Lookup
  <1>8. CASE ClearEnviron
    <2>1. found'.kind = "none" /\ Walked'
      BY <1>3, <1>4, <1>8 DEF ClearEnviron, Found
    <2>2. QED
      BY <1>1, <2>1 DEF LookupInv
  <1>9. QED
    BY <1>5, <1>6, <1>7, <1>8
       DEF StartupNext, __stack_chk_init, Constructor, Calls, NextPhase, Main, Destructor,
           Return, LastExit, ProgramExits, Exit, Abort, startupVars

\* For every environment and auxiliary vector: in every function, the first constructor
\* too, getenv() and getauxval() give what the kernel has passed under that name or type,
\* and nothing for one that it has not passed.
THEOREM LookupsFindWhatWasPassed == StartupSpec => []LookupsFind
  <1>1. StartupInit => LookupInv
    <2>1. StartupInit => found.kind = "none"
      BY DEF StartupInit, Found
    <2>2. QED
      BY <2>1, WalkInvInit DEF LookupInv
  <1>2. LookupInv => LookupsFind
    BY WalkInvFinds DEF LookupInv, LookupsFind, RunningFindsVectors
  <1>3. QED
    BY <1>1, <1>2, LookupInvNext, PTL DEF StartupSpec

-----------------------------------------------------------------------------
(* The order of the functions.                                             *)

Function == {"preinit", "init", "main", "fini"} \X Int

\* What Order has at its places: the arrays in a row.
LEMMA OrderLaid ==
  /\ Order \in Seq(Function) /\ Len(Order) = Preinits + Inits + 1 + Finis
  /\ \A i \in 1 .. Preinits : Order[i] = <<"preinit", i>>
  /\ \A i \in 1 .. Inits : Order[Preinits + i] = <<"init", i>>
  /\ Order[Preinits + Inits + 1] = <<"main", 1>>
  /\ \A i \in 1 .. Finis : Order[Preinits + Inits + 1 + i] = <<"fini", Finis + 1 - i>>
  <1> DEFINE p1 == [i \in 1 .. Preinits |-> <<"preinit", i>>]
             p2 == [i \in 1 .. Inits |-> <<"init", i>>]
             p3 == <<<<"main", 1>>>>
             p4 == [i \in 1 .. Finis |-> <<"fini", Finis + 1 - i>>]
  <1>1. Preinits \in Nat /\ Inits \in Nat /\ Finis \in Nat
    BY StartupAssumption
  <1>2. p1 \in Seq(Function) /\ Len(p1) = Preinits /\ \A i \in 1 .. Preinits : p1[i] = <<"preinit", i>>
    BY <1>1, SMT DEF Function
  <1>3. p2 \in Seq(Function) /\ Len(p2) = Inits /\ \A i \in 1 .. Inits : p2[i] = <<"init", i>>
    BY <1>1, SMT DEF Function
  <1>4. p3 \in Seq(Function) /\ Len(p3) = 1 /\ p3[1] = <<"main", 1>>
    BY SMT DEF Function
  <1>5. p4 \in Seq(Function) /\ Len(p4) = Finis /\ \A i \in 1 .. Finis : p4[i] = <<"fini", Finis + 1 - i>>
    <2>1. \A i \in 1 .. Finis : <<"fini", Finis + 1 - i>> \in Function
      BY <1>1, SMT DEF Function
    <2>2. QED
      BY <1>1, <2>1, SMT
  <1> HIDE DEF p1, p2, p3, p4
  <1> DEFINE s2 == p1 \o p2
             s3 == s2 \o p3
             s4 == s3 \o p4
  <1>6. Order = s4
    BY DEF Order, p1, p2, p3, p4
  <1>7. s2 \in Seq(Function) /\ IsRow(s2, p1, p2)
    BY <1>2, <1>3, InARow
  <1> HIDE DEF s2
  <1>8. s3 \in Seq(Function) /\ IsRow(s3, s2, p3)
    BY <1>4, <1>7, InARow
  <1> HIDE DEF s3
  <1>9. s4 \in Seq(Function) /\ IsRow(s4, s3, p4)
    BY <1>5, <1>8, InARow
  <1> HIDE DEF s4
  <1>10. /\ Len(s2) = Preinits + Inits
         /\ \A i \in 1 .. Preinits : s2[i] = p1[i]
         /\ \A i \in 1 .. Inits : s2[Preinits + i] = p2[i]
    BY <1>2, <1>3, <1>7 DEF IsRow
  <1>11. /\ Len(s3) = Preinits + Inits + 1
         /\ \A i \in 1 .. Preinits + Inits : s3[i] = s2[i]
         /\ \A i \in 1 .. 1 : s3[Preinits + Inits + i] = p3[i]
    BY <1>4, <1>8, <1>10 DEF IsRow
  <1>12. /\ Len(s4) = Preinits + Inits + 1 + Finis
         /\ \A i \in 1 .. Preinits + Inits + 1 : s4[i] = s3[i]
         /\ \A i \in 1 .. Finis : s4[Preinits + Inits + 1 + i] = p4[i]
    BY <1>5, <1>9, <1>11 DEF IsRow
  <1>13. /\ \A i \in 1 .. Preinits : i \in 1 .. Preinits + Inits /\ i \in 1 .. Preinits + Inits + 1
         /\ \A i \in 1 .. Inits : /\ Preinits + i \in 1 .. Preinits + Inits
                                  /\ Preinits + i \in 1 .. Preinits + Inits + 1
         /\ Preinits + Inits + 1 \in 1 .. Preinits + Inits + 1 /\ 1 \in 1 .. 1
    BY <1>1, SMT
  <1>14. \A i \in 1 .. Preinits : s4[i] = <<"preinit", i>>
    BY <1>2, <1>10, <1>11, <1>12, <1>13
  <1>15. \A i \in 1 .. Inits : s4[Preinits + i] = <<"init", i>>
    BY <1>3, <1>10, <1>11, <1>12, <1>13
  <1>16. s4[Preinits + Inits + 1] = <<"main", 1>>
    BY <1>4, <1>11, <1>12, <1>13
  <1>17. QED
    BY <1>5, <1>6, <1>9, <1>12, <1>14, <1>15, <1>16

\* As many functions have run as the loop that is running says.
Progress ==
  /\ phase \in {"enter", "walk"} => func = 1 /\ Len(ran) = 0 /\ ~running
  /\ phase = "preinit" => func \in 1 .. Preinits + 1 /\ Len(ran) = func - 1
  /\ phase = "init" => func \in 1 .. Inits + 1 /\ Len(ran) = Preinits + func - 1
  /\ phase = "main" => /\ running => Len(ran) = Preinits + Inits + 1
                       /\ ~running => Len(ran) = Preinits + Inits
  /\ phase = "fini" => /\ func \in 1 .. Finis + 1
                       /\ Len(ran) = Preinits + Inits + 1 + Finis + 1 - func

\* Those that have run are the beginning of Order.
Beginning ==
  /\ ran \in Seq(Function) /\ Len(ran) <= Len(Order)
  /\ \A i \in 1 .. Len(ran) : ran[i] = Order[i]

GuardAndStatus ==
  /\ guard \in SUBSET Bit
  /\ phase # "enter" => guard # {}
  /\ running \in BOOLEAN /\ (running => ~Ended)
  /\ phase \in {"enter", "walk", "preinit", "init", "main", "fini", "exited", "aborted", "spins"}
  /\ status \in Int
  /\ phase = "exited" => status \in 0 .. 255

OrderInv == Progress /\ Beginning /\ GuardAndStatus

LEMMA OrderInvInit == StartupInit => OrderInv
  <1> SUFFICES ASSUME StartupInit PROVE OrderInv
    OBVIOUS
  <1>1. /\ phase = "enter" /\ func = 1 /\ running = FALSE /\ ran = <<>> /\ guard = {} /\ status = 0
    BY DEF StartupInit
  <1>2. ran \in Seq(Function) /\ Len(ran) = 0
    BY <1>1, EmptySeq
  <1>3. Len(Order) \in Nat
    BY OrderLaid, LenProperties
  <1>4. Progress
    BY <1>1, <1>2 DEF Progress
  <1>5. Beginning
    BY <1>2, <1>3, SMT DEF Beginning
  <1>6. GuardAndStatus
    <2>1. status \in Int /\ {} \in SUBSET Bit
      BY <1>1
    <2>2. QED
      BY <1>1, <2>1 DEF GuardAndStatus, Ended
  <1>7. QED
    BY <1>4, <1>5, <1>6 DEF OrderInv

\* A call of the function whose turn it is.
LEMMA NextInOrder ==
  ASSUME Beginning, NEW f \in Function, Len(ran) < Len(Order), f = Order[Len(ran) + 1],
         ran' = Append(ran, f)
  PROVE  Beginning' /\ Len(ran') = Len(ran) + 1
  <1>1. /\ ran' \in Seq(Function) /\ Len(ran') = Len(ran) + 1
        /\ \A i \in 1 .. Len(ran) : ran'[i] = ran[i]
        /\ ran'[Len(ran) + 1] = f
    BY AppendProperties DEF Beginning
  <1>2. Len(ran) \in Nat /\ Len(Order) \in Nat
    BY OrderLaid, LenProperties DEF Beginning
  <1>3. Len(ran') <= Len(Order)
    BY <1>1, <1>2, SMT
  <1>4. ASSUME NEW i \in 1 .. Len(ran') PROVE ran'[i] = Order[i]
    <2>1. i \in 1 .. Len(ran) \/ i = Len(ran) + 1
      BY <1>1, <1>2, SMT
    <2>2. QED
      BY <1>1, <2>1 DEF Beginning
  <1>5. Order' = Order
    BY DEF Order
  <1>6. QED
    BY <1>1, <1>3, <1>4, <1>5 DEF Beginning

LEMMA OrderInvNext == OrderInv /\ [StartupNext]_startupVars => OrderInv'
  <1> SUFFICES ASSUME OrderInv, [StartupNext]_startupVars PROVE OrderInv'
    OBVIOUS
  <1>0. Preinits \in Nat /\ Inits \in Nat /\ Finis \in Nat /\ ExitCode \subseteq Int
    BY StartupAssumption
  <1>a. Order' = Order
    BY DEF Order
  <1>b. Len(ran) \in Nat /\ Len(Order) = Preinits + Inits + 1 + Finis
    BY OrderLaid, LenProperties DEF OrderInv, Beginning
  <1>c. ASSUME UNCHANGED ran PROVE Beginning'
    BY <1>c, <1>a DEF OrderInv, Beginning
  <1>1. CASE __stack_chk_init
    <2>1. PICK random \in SUBSET Bit : guard' = Guard(random)
      BY <1>1 DEF __stack_chk_init
    <2>2. guard' \in SUBSET Bit /\ guard' # {}
      BY <2>1, GuardNotZero
    <2>3. /\ phase = "enter" /\ phase' = "walk" /\ UNCHANGED <<func, running, ran, status>>
      BY <1>1 DEF __stack_chk_init
    <2>4. Beginning'
      BY <1>c, <2>3
    <2>5. Progress'
      BY <2>3 DEF OrderInv, Progress
    <2>6. GuardAndStatus'
      BY <2>2, <2>3 DEF OrderInv, GuardAndStatus, Ended, Progress
    <2>7. QED
      BY <2>4, <2>5, <2>6 DEF OrderInv
  <1>2. CASE Walk
    <2>1. phase = "walk" /\ phase' = "preinit" /\ func' = 1 /\ UNCHANGED <<guard, running, ran, status>>
      BY <1>2 DEF Walk
    <2>2. Progress'
      BY <1>0, <2>1, SMT DEF OrderInv, Progress
    <2>3. GuardAndStatus'
      BY <2>1 DEF OrderInv, GuardAndStatus, Ended, Progress
    <2>4. QED
      BY <1>c, <2>1, <2>2, <2>3 DEF OrderInv
  <1>3. CASE Constructor
    <2>1. CASE phase = "preinit" /\ func <= Preinits /\ Calls(<<"preinit", func>>) /\ func' = func + 1
      <3>1. /\ running' = TRUE /\ ran' = Append(ran, <<"preinit", func>>)
            /\ UNCHANGED <<guard, phase, status>>
        BY <2>1 DEF Calls
      <3>2. func \in 1 .. Preinits /\ Len(ran) = func - 1 /\ Len(ran) + 1 = func
        BY <1>0, <2>1, SMT DEF OrderInv, Progress
      <3>3. <<"preinit", func>> \in Function /\ <<"preinit", func>> = Order[Len(ran) + 1]
        BY <3>2, OrderLaid DEF Function
      <3>4. Len(ran) < Len(Order)
        BY <1>0, <1>b, <3>2, SMT
      <3>5. Beginning' /\ Len(ran') = Len(ran) + 1
        BY <3>1, <3>3, <3>4, NextInOrder DEF OrderInv
      <3>6. Progress'
        BY <1>0, <2>1, <3>1, <3>2, <3>5, SMT DEF Progress
      <3>7. GuardAndStatus'
        BY <2>1, <3>1 DEF OrderInv, GuardAndStatus, Ended
      <3>8. QED
        BY <3>5, <3>6, <3>7 DEF OrderInv
    <2>2. CASE phase = "preinit" /\ func > Preinits /\ NextPhase("init", 1) /\ ~running
      <3>1. phase' = "init" /\ func' = 1 /\ UNCHANGED <<guard, running, ran, status>>
        BY <2>2 DEF NextPhase
      <3>2. func = Preinits + 1 /\ Len(ran) = func - 1
        BY <1>0, <2>2, SMT DEF OrderInv, Progress
      <3>3. Progress'
        BY <1>0, <3>1, <3>2, SMT DEF Progress
      <3>4. GuardAndStatus'
        BY <2>2, <3>1 DEF OrderInv, GuardAndStatus, Ended
      <3>5. QED
        BY <1>c, <3>1, <3>3, <3>4 DEF OrderInv
    <2>3. CASE phase = "init" /\ func <= Inits /\ Calls(<<"init", func>>) /\ func' = func + 1
      <3>1. /\ running' = TRUE /\ ran' = Append(ran, <<"init", func>>)
            /\ UNCHANGED <<guard, phase, status>>
        BY <2>3 DEF Calls
      <3>2. func \in 1 .. Inits /\ Len(ran) = Preinits + func - 1 /\ Len(ran) + 1 = Preinits + func
        BY <1>0, <2>3, SMT DEF OrderInv, Progress
      <3>3. <<"init", func>> \in Function /\ <<"init", func>> = Order[Len(ran) + 1]
        BY <3>2, OrderLaid DEF Function
      <3>4. Len(ran) < Len(Order)
        BY <1>0, <1>b, <3>2, SMT
      <3>5. Beginning' /\ Len(ran') = Len(ran) + 1
        BY <3>1, <3>3, <3>4, NextInOrder DEF OrderInv
      <3>6. Progress'
        BY <1>0, <2>3, <3>1, <3>2, <3>5, SMT DEF Progress
      <3>7. GuardAndStatus'
        BY <2>3, <3>1 DEF OrderInv, GuardAndStatus, Ended
      <3>8. QED
        BY <3>5, <3>6, <3>7 DEF OrderInv
    <2>4. CASE phase = "init" /\ func > Inits /\ NextPhase("main", 1) /\ ~running
      <3>1. phase' = "main" /\ UNCHANGED <<guard, running, ran, status>>
        BY <2>4 DEF NextPhase
      <3>2. func = Inits + 1 /\ Len(ran) = Preinits + func - 1
        BY <1>0, <2>4, SMT DEF OrderInv, Progress
      <3>3. Progress'
        BY <1>0, <2>4, <3>1, <3>2, SMT DEF Progress
      <3>4. GuardAndStatus'
        BY <2>4, <3>1 DEF OrderInv, GuardAndStatus, Ended
      <3>5. QED
        BY <1>c, <3>1, <3>3, <3>4 DEF OrderInv
    <2>5. QED
      BY <1>3, <2>1, <2>2, <2>3, <2>4 DEF Constructor
  <1>4. CASE Main
    <2>1. /\ ~running /\ phase = "main" /\ running' = TRUE /\ ran' = Append(ran, <<"main", 1>>)
          /\ UNCHANGED <<guard, phase, status>>
      BY <1>4 DEF Main, Calls
    <2>2. Len(ran) = Preinits + Inits
      BY <2>1 DEF OrderInv, Progress
    <2>3. <<"main", 1>> \in Function /\ <<"main", 1>> = Order[Len(ran) + 1]
      BY <2>2, OrderLaid DEF Function
    <2>4. Len(ran) < Len(Order)
      BY <1>0, <1>b, <2>2, SMT
    <2>5. Beginning' /\ Len(ran') = Len(ran) + 1
      BY <2>1, <2>3, <2>4, NextInOrder DEF OrderInv
    <2>6. Progress'
      BY <1>0, <2>1, <2>2, <2>5, SMT DEF Progress
    <2>7. GuardAndStatus'
      BY <2>1 DEF OrderInv, GuardAndStatus, Ended
    <2>8. QED
      BY <2>5, <2>6, <2>7 DEF OrderInv
  <1>5. CASE Destructor
    <2>1. /\ phase = "fini" /\ func > 1 /\ func' = func - 1
          /\ running' = TRUE /\ ran' = Append(ran, <<"fini", func - 1>>)
          /\ UNCHANGED <<guard, phase, status>>
      BY <1>5 DEF Destructor, Calls, DestructorAt
    <2>2. func \in 2 .. Finis + 1 /\ Len(ran) = Preinits + Inits + 1 + Finis + 1 - func
      BY <1>0, <2>1, SMT DEF OrderInv, Progress
    <2> DEFINE i == Finis + 2 - func
    <2>3. /\ i \in 1 .. Finis /\ Len(ran) + 1 = Preinits + Inits + 1 + i /\ Finis + 1 - i = func - 1
          /\ func - 1 \in Int
      BY <1>0, <2>2, SMT
    <2>4. Order[Len(ran) + 1] = <<"fini", func - 1>>
      <3> HIDE DEF i
      <3>1. Order[Preinits + Inits + 1 + i] = <<"fini", Finis + 1 - i>>
        BY <2>3, OrderLaid
      <3>2. QED
        BY <2>3, <3>1
    <2>5. <<"fini", func - 1>> \in Function
      BY <2>3 DEF Function
    <2>6. Len(ran) < Len(Order)
      BY <1>0, <1>b, <2>2, SMT
    <2>7. Beginning' /\ Len(ran') = Len(ran) + 1
      BY <2>1, <2>4, <2>5, <2>6, NextInOrder DEF OrderInv
    <2>8. Progress'
      BY <1>0, <2>1, <2>2, <2>7, SMT DEF Progress
    <2>9. GuardAndStatus'
      BY <2>1 DEF OrderInv, GuardAndStatus, Ended
    <2>10. QED
      BY <2>7, <2>8, <2>9 DEF OrderInv
  <1>6. CASE \E code \in ExitCode : Return(code)
    <2>1. PICK code \in ExitCode : Return(code)
      BY <1>6
    <2>2. running /\ ~Ended /\ running' = FALSE /\ UNCHANGED <<guard, ran>>
      BY <2>1 DEF Return
    <2>3. CASE phase = "main"
      <3>1. phase' = "fini" /\ func' = Finis + 1 /\ status' = code
        BY <2>1, <2>3 DEF Return
      <3>2. Len(ran) = Preinits + Inits + 1
        BY <2>2, <2>3 DEF OrderInv, Progress
      <3>3. Progress'
        BY <1>0, <1>b, <2>2, <3>1, <3>2, SMT DEF Progress
      <3>4. GuardAndStatus'
        BY <1>0, <2>2, <2>3, <3>1 DEF OrderInv, GuardAndStatus, Ended
      <3>5. QED
        BY <1>c, <2>2, <3>3, <3>4 DEF OrderInv
    <2>4. CASE phase # "main"
      <3>1. UNCHANGED <<phase, func, status>>
        BY <2>1, <2>4 DEF Return
      <3>2. Progress'
        BY <2>2, <2>4, <3>1 DEF OrderInv, Progress
      <3>3. GuardAndStatus'
        BY <2>2, <3>1 DEF OrderInv, GuardAndStatus, Ended
      <3>4. QED
        BY <1>c, <2>2, <3>2, <3>3 DEF OrderInv
    <2>5. QED
      BY <2>3, <2>4
  <1>7. ASSUME NEW code \in Int, Exit(code), phase \notin {"enter", "walk"} PROVE OrderInv'
    <2>1. /\ phase' = "exited" /\ status' = code % 256 /\ running' = FALSE
          /\ UNCHANGED <<guard, ran>>
      BY <1>7 DEF Exit
    <2>2. status' \in 0 .. 255 /\ status' \in Int
      BY <2>1, SMT
    <2>3. Progress'
      BY <2>1 DEF Progress
    <2>4. GuardAndStatus'
      BY <1>7, <2>1, <2>2 DEF OrderInv, GuardAndStatus, Ended
    <2>5. QED
      BY <1>c, <2>1, <2>3, <2>4 DEF OrderInv
  <1>8. CASE LastExit
    BY <1>7, <1>8 DEF LastExit, OrderInv, GuardAndStatus
  <1>9. CASE ProgramExits
    <2>1. running /\ \E code \in ExitCode : Exit(code)
      BY <1>9 DEF ProgramExits
    <2>2. phase \notin {"enter", "walk"}
      BY <2>1 DEF OrderInv, Progress
    <2>3. QED
      BY <1>0, <1>7, <2>1, <2>2
  <1>10. CASE Abort
    <2>1. running /\ phase' \in {"aborted", "spins"} /\ running' = FALSE /\ UNCHANGED <<guard, ran, status>>
      BY <1>10 DEF Abort
    <2>2. phase # "enter"
      BY <2>1 DEF OrderInv, Progress
    <2>3. Progress'
      BY <2>1 DEF Progress
    <2>4. GuardAndStatus'
      BY <2>1, <2>2 DEF OrderInv, GuardAndStatus, Ended
    <2>5. QED
      BY <1>c, <2>1, <2>3, <2>4 DEF OrderInv
  <1>11. CASE Lookup \/ ClearEnviron \/ UNCHANGED startupVars
    <2>1. UNCHANGED <<guard, phase, func, running, ran, status>>
      BY <1>11 DEF Lookup, ClearEnviron, startupVars
    <2>2. Progress' /\ GuardAndStatus'
      BY <2>1 DEF OrderInv, Progress, GuardAndStatus, Ended
    <2>3. QED
      BY <1>c, <2>1, <2>2 DEF OrderInv
  <1>12. QED
    BY <1>1, <1>2, <1>3, <1>4, <1>5, <1>6, <1>8, <1>9, <1>10, <1>11 DEF StartupNext

LEMMA OrderInvTold == OrderInv => FunctionsInOrder
  <1> SUFFICES ASSUME OrderInv PROVE FunctionsInOrder
    OBVIOUS
  <1>0. Preinits \in Nat /\ Inits \in Nat /\ Finis \in Nat
    BY StartupAssumption
  <1>1. /\ ran \in Seq(Function) /\ Len(ran) \in Nat /\ Len(ran) <= Len(Order)
        /\ \A i \in 1 .. Len(ran) : ran[i] = Order[i]
    BY LenProperties DEF OrderInv, Beginning
  <1>2. Order \in Seq(Function) /\ Len(Order) \in Nat /\ Len(Order) = Preinits + Inits + 1 + Finis
    BY OrderLaid, LenProperties
  <1>3. ran = SubSeq(Order, 1, Len(ran))
    <2> DEFINE n == Len(ran)
               t == SubSeq(Order, 1, n)
    <2>1. \A i \in 1 .. n : i \in 1 .. Len(Order) /\ Order[i] \in Function
      <3>1. \A i \in 1 .. n : i \in 1 .. Len(Order)
        BY <1>1, <1>2, SMT
      <3>2. QED
        BY <1>2, <3>1, ElementOfSeq
    <2>2. /\ t \in Seq(Function) /\ Len(t) = IF 1 <= n THEN n - 1 + 1 ELSE 0
          /\ \A i \in 1 .. n - 1 + 1 : t[i] = Order[1 + i - 1]
      BY <1>1, <2>1, SubSeqProperties
    <2> HIDE DEF t
    <2>3. Len(t) = n
      BY <1>1, <2>2, SMT
    <2>4. \A i \in 1 .. n : i \in 1 .. n - 1 + 1 /\ 1 + i - 1 = i
      BY <1>1, SMT
    <2>5. \A i \in 1 .. n : t[i] = ran[i]
      BY <1>1, <2>2, <2>4
    <2>6. ran = t
      BY <1>1, <2>2, <2>3, <2>5, SeqEqual
    <2>7. QED
      BY <2>6 DEF t
  <1>4. ASSUME phase = "fini", func = 1 PROVE ran = Order
    <2>1. Len(ran) = Len(Order)
      BY <1>0, <1>2, <1>4, SMT DEF OrderInv, Progress
    <2>2. QED
      BY <1>1, <1>2, <2>1, SeqEqual
  <1>5. phase = "exited" => status \in 0 .. 255
    BY DEF OrderInv, GuardAndStatus
  <1>6. running => guard # {}
    BY DEF OrderInv, Progress, GuardAndStatus
  <1>7. QED
    BY <1>3, <1>4, <1>5, <1>6 DEF FunctionsInOrder

\* For any lengths of the three arrays, any word of getrandom() and any exit codes:
\* what _start_c() calls is the beginning of the constructors, main() and the
\* destructors in their order, all of them before it exits by itself, none with a
\* guard of 0 and the code within the eight bits that wait() tells.
THEOREM FunctionsRunInOrder == StartupSpec => []FunctionsInOrder
  BY OrderInvInit, OrderInvNext, OrderInvTold, PTL DEF StartupSpec

-----------------------------------------------------------------------------
(* The time that is left of a sleep.                                       *)

\* The functions that tell what is left.
TellsRest == {"sleep", "msleep"}

UintMax   == 2 * IntMax + 1
NapArg(f) == IF f = "poll" THEN -1 .. IntMax ELSE 0 .. UintMax
SleepRet  == (-(IntMax + 1) .. UintMax) \cup {-EINTR, -EINVAL}

LEMMA UnitFacts ==
  /\ UsPerMs \in Nat /\ UsPerMs >= 1 /\ MsPerSec \in Nat /\ MsPerSec >= 1
  /\ UsPerSec \in Nat /\ UsPerSec >= 1 /\ UsPerSec = MsPerSec * UsPerMs
  /\ IntMax \in Nat /\ UintMax \in Nat /\ UintMax = 2 * IntMax + 1
  <1>1. /\ UsPerMs \in Nat /\ UsPerMs >= 1 /\ MsPerSec \in Nat /\ MsPerSec >= 1
        /\ IntMax \in Nat
    BY SleepAssumption, WordsAssumption, SMT
  <1>2. \A a, b \in Nat : a >= 1 /\ b >= 1 => a * b \in Nat /\ a * b >= 1
    BY SMT
  <1>3. UsPerSec \in Nat /\ UsPerSec >= 1
    BY <1>1, <1>2 DEF UsPerSec
  <1>4. QED
    BY <1>1, <1>3, SMT DEF UsPerSec, UintMax

\* Units that are begun count.
LEMMA RoundedUpFacts ==
  ASSUME NEW n \in Nat, NEW d \in Nat, d >= 1
  PROVE  LET r == RoundedUp(n, d) IN r \in Nat /\ n <= d * r /\ d * r <= n + d - 1
  <1> DEFINE q == n \div d
             m == n % d
  <1>1. q \in Nat /\ m \in 0 .. (d - 1) /\ n = d * q + m
    <2>1. d > 0
      BY SMT
    <2>2. QED
      BY <2>1, DivisionFacts
  <1>2. RoundedUp(n, d) = q + (IF m = 0 THEN 0 ELSE 1)
    BY DEF RoundedUp
  <1> HIDE DEF q, m
  <1>3. d * (q + 1) = d * q + d
    BY <1>1, SMT
  <1>4. CASE m = 0
    BY <1>1, <1>2, <1>4, SMT
  <1>5. CASE m # 0
    <2>1. RoundedUp(n, d) = q + 1
      BY <1>2, <1>5
    <2>2. q + 1 \in Nat /\ n <= d * (q + 1) /\ d * (q + 1) <= n + d - 1
      BY <1>1, <1>3, <1>5, SMT
    <2>3. QED
      BY <2>1, <2>2
  <1>6. QED
    BY <1>4, <1>5

\* Less than a unit more is no unit more.
LEMMA NoUnitMore ==
  ASSUME NEW r \in Int, NEW arg \in Int, NEW u \in Nat, u >= 1, u * r <= u * arg + u - 1
  PROVE  r <= arg
  <1>1. r >= arg + 1 => u * r >= u * arg + u
    <2>1. r >= arg + 1 => u * (r - (arg + 1)) >= 0
      BY SMT
    <2>2. u * (r - (arg + 1)) = u * r - (u * arg + u)
      BY SMT
    <2>3. u * r \in Int /\ u * arg \in Int
      BY SMT
    <2>4. QED
      BY <2>1, <2>2, <2>3, SMT
  <1>2. u * r \in Int /\ u * arg \in Int
    BY SMT
  <1>3. QED
    BY <1>1, <1>2, SMT

LEMMA ToUintFacts ==
  ASSUME NEW n \in Int
  PROVE  /\ ToUint(n) \in 0 .. UintMax
         /\ n \in 0 .. UintMax => ToUint(n) = n
  <1>1. 2 * (IntMax + 1) \in Nat /\ 2 * (IntMax + 1) > 0 /\ UintMax = 2 * (IntMax + 1) - 1
    BY UnitFacts, SMT
  <1> DEFINE d == 2 * (IntMax + 1)
  <1>2. ToUint(n) = n % d
    BY DEF ToUint, Unsigned
  <1> HIDE DEF d
  <1>3. n % d \in 0 .. (d - 1)
    BY <1>1, SMT DEF d
  <1>4. n \in 0 .. (d - 1) => n % d = n
    BY <1>1, ModFacts, SMT DEF d
  <1>5. d - 1 = UintMax
    BY <1>1 DEF d
  <1>6. QED
    BY <1>2, <1>3, <1>4, <1>5

LEMMA ToIntFacts ==
  ASSUME NEW n \in 0 .. UintMax
  PROVE  /\ ToInt(n) \in -(IntMax + 1) .. IntMax
         /\ n <= IntMax => ToInt(n) = n
         /\ n > IntMax => ToInt(n) < 0
  <1> DEFINE d == 2 * (IntMax + 1)
             m == n + IntMax + 1
  <1>1. /\ d \in Nat /\ d > 0 /\ m \in Nat /\ IntMax \in Nat /\ n \in Nat
        /\ d = 2 * (IntMax + 1) /\ m = n + IntMax + 1 /\ n <= 2 * IntMax + 1
    BY UnitFacts, SMT
  <1>2. ToInt(n) = (m % d) - (IntMax + 1)
    BY DEF ToInt, Signed
  <1> HIDE DEF d, m
  <1>3. m < 2 * d
    BY <1>1, SMT
  <1>4. /\ m % d \in 0 .. (d - 1)
        /\ m < d => m % d = m
        /\ m >= d => m % d = m - d
    BY <1>1, <1>3, ModFacts
  <1>5. m % d \in Int
    BY <1>1, <1>4, SMT
  <1>6. QED
    BY <1>1, <1>2, <1>4, <1>5, SMT

\* A number of seconds that does not fit in a time_t is negative there, and is the number
\* again as an unsigned int.
LEMMA SecondsFacts ==
  ASSUME NEW n \in 0 .. UintMax
  PROVE  /\ ToTime(n) \in Int
         /\ ToTime(n) >= 0 => ToTime(n) = n
         /\ ToTime(n) < 0 => ToUint(ToTime(n)) = n
  <1> DEFINE i == IntMax + 1
             t == TimeMax + 1
             m == n + t
             d == 2 * t
             k == t \div i
  <1>1. i \in Nat /\ i > 0 /\ t \in Nat /\ t > 0 /\ t % i = 0 /\ n \in Nat /\ n <= 2 * i - 1
    BY UnitFacts, WordsAssumption, SMT
  <1>2. k \in Nat /\ t = i * k
    <2> HIDE DEF i, t
    <2>1. k \in Nat /\ t % i \in 0 .. (i - 1) /\ t = i * k + (t % i)
      BY <1>1, DivisionFacts
    <2> HIDE DEF k
    <2>2. QED
      BY <1>1, <2>1, SMT
  <1>3. ToTime(n) = (m % d) - t
    <2>1. m = n + TimeMax + 1
      BY <1>1, WordsAssumption, SMT
    <2>2. QED
      BY <2>1 DEF ToTime, Signed
  <1>4. ToUint(ToTime(n)) = ToTime(n) % (2 * i)
    BY DEF ToUint, Unsigned
  <1>5. t >= i
    <2> HIDE DEF i, t
    <2>1. t < i => t % i = t
      BY <1>1, ModFacts
    <2>2. QED
      BY <1>1, <2>1, SMT
  <1> HIDE DEF i, t, k
  <1>6. m \in Nat /\ d \in Nat /\ d > 0 /\ m < 2 * d /\ m = n + t /\ d = 2 * t
    BY <1>1, <1>5, SMT
  <1> HIDE DEF m, d
  <1>7. m % d = m \/ m % d = m - d
    <2>1. m < d \/ m >= d
      BY <1>6, SMT
    <2>2. QED
      BY <1>6, <2>1, ModFacts
  <1>8. ToTime(n) = n \/ ToTime(n) = n - 2 * t
    BY <1>1, <1>3, <1>6, <1>7, SMT
  <1>9. n - 2 * t < 0
    BY <1>1, <1>5, SMT
  <1>10. (n - 2 * t) % (2 * i) = n
    <2>1. 2 * i \in Nat /\ 2 * i > 0 /\ n \in 0 .. (2 * i - 1) /\ k \in Int
      BY <1>1, <1>2, SMT
    <2>2. (n - (2 * i) * k) % (2 * i) = n
      BY <2>1, ModShift
    <2>3. (2 * i) * k = 2 * t
      BY <1>1, <1>2, SMT
    <2>4. QED
      BY <2>2, <2>3
  <1>11. ToTime(n) \in Int /\ n >= 0 /\ (ToTime(n) >= 0 => ToTime(n) = n)
    BY <1>1, <1>8, <1>9, SMT
  <1>12. ToTime(n) < 0 => ToUint(ToTime(n)) = n
    <2>1. ASSUME ToTime(n) < 0 PROVE ToTime(n) = n - 2 * t
      BY <1>1, <1>8, <2>1, SMT
    <2>2. QED
      BY <1>4, <1>10, <2>1
  <1>13. QED
    BY <1>11, <1>12

\* The arguments of a call, as the kernel is given them.
LEMMA TimevalFacts ==
  ASSUME NEW f \in SleepFunction, NEW arg \in NapArg(f)
  PROVE  LET t == TimevalOf(f, arg)
         IN  /\ t.sec \in Int /\ t.usec \in 0 .. (UsPerSec - 1) /\ arg \in Int
             /\ t.sec >= 0 => arg >= 0 /\ Micros(t) = Meant(f, arg) /\ Meant(f, arg) >= 0
             /\ t.sec < 0 => \/ f = "poll" /\ t = Forever
                             \/ f = "sleep" /\ t.usec = 0 /\ ToUint(t.sec) = arg
  <1> SUFFICES ASSUME NEW t, t = TimevalOf(f, arg)
               PROVE  /\ t.sec \in Int /\ t.usec \in 0 .. (UsPerSec - 1) /\ arg \in Int
                      /\ t.sec >= 0 =>
                           arg >= 0 /\ Micros(t) = Meant(f, arg) /\ Meant(f, arg) >= 0
                      /\ t.sec < 0 => \/ f = "poll" /\ t = Forever
                                      \/ f = "sleep" /\ t.usec = 0 /\ ToUint(t.sec) = arg
    OBVIOUS
  <1>1. CASE f = "sleep"
    <2>1. arg \in 0 .. UintMax /\ t = Timeval(ToTime(arg), 0) /\ Meant(f, arg) = arg * UsPerSec
      BY <1>1 DEF NapArg, TimevalOf, Meant
    <2>2. t.sec = ToTime(arg) /\ t.usec = 0 /\ Micros(t) = ToTime(arg) * UsPerSec + 0
      BY <2>1 DEF Timeval, Micros
    <2>3. /\ ToTime(arg) \in Int
          /\ ToTime(arg) >= 0 => ToTime(arg) = arg
          /\ ToTime(arg) < 0 => ToUint(ToTime(arg)) = arg
      BY <2>1, SecondsFacts
    <2>4. arg \in Nat /\ 0 \in 0 .. (UsPerSec - 1)
      BY <2>1, UnitFacts, SMT
    <2>5. arg * UsPerSec \in Nat /\ arg * UsPerSec + 0 = arg * UsPerSec
      BY <2>4, UnitFacts, SMT
    <2>6. QED
      BY <1>1, <2>1, <2>2, <2>3, <2>4, <2>5, SMT
  <1>2. CASE f \in {"msleep", "poll"} /\ arg >= 0
    <2> DEFINE q == arg \div MsPerSec
               r == arg % MsPerSec
    <2>1. arg \in Nat /\ MsPerSec > 0
      BY <1>2, UnitFacts, SMT DEF NapArg
    <2>2. q \in Nat /\ r \in 0 .. (MsPerSec - 1) /\ arg = MsPerSec * q + r
      BY <2>1, UnitFacts, DivisionFacts
    <2>3. t = Timeval(q, r * UsPerMs) /\ Meant(f, arg) = arg * UsPerMs
      <3>1. ~(arg < 0)
        BY <2>1, SMT
      <3>2. QED
        BY <1>2, <3>1 DEF TimevalOf, Meant
    <2>4. t.sec = q /\ t.usec = r * UsPerMs /\ Micros(t) = q * UsPerSec + r * UsPerMs
      BY <2>3 DEF Timeval, Micros
    <2> HIDE DEF q, r
    <2>5. r * UsPerMs \in 0 .. (UsPerSec - 1)
      <3>1. r * UsPerMs \in Nat /\ (MsPerSec - 1) * UsPerMs = UsPerSec - UsPerMs
        BY <2>2, UnitFacts, SMT
      <3>2. ((MsPerSec - 1) - r) * UsPerMs >= 0
        BY <2>2, UnitFacts, SMT
      <3>3. ((MsPerSec - 1) - r) * UsPerMs = (MsPerSec - 1) * UsPerMs - r * UsPerMs
        BY <2>2, UnitFacts, SMT
      <3>4. QED
        BY <3>1, <3>2, <3>3, UnitFacts, SMT
    <2>6. q * UsPerSec + r * UsPerMs = arg * UsPerMs /\ arg * UsPerMs \in Nat
      BY <2>1, <2>2, UnitFacts, SMT
    <2>7. QED
      BY <2>1, <2>2, <2>3, <2>4, <2>5, <2>6, SMT
  <1>3. CASE f = "usleep"
    <2> DEFINE q == arg \div UsPerSec
               r == arg % UsPerSec
    <2>1. arg \in Nat /\ UsPerSec > 0
      BY <1>3, UnitFacts, SMT DEF NapArg
    <2>2. q \in Nat /\ r \in 0 .. (UsPerSec - 1) /\ arg = UsPerSec * q + r
      BY <2>1, UnitFacts, DivisionFacts
    <2>3. t = Timeval(q, r) /\ Meant(f, arg) = arg
      BY <1>3 DEF TimevalOf, Meant
    <2>4. t.sec = q /\ t.usec = r /\ Micros(t) = q * UsPerSec + r
      BY <2>3 DEF Timeval, Micros
    <2> HIDE DEF q, r
    <2>5. q * UsPerSec + r = arg
      BY <2>2, UnitFacts, SMT
    <2>6. QED
      BY <2>1, <2>2, <2>3, <2>4, <2>5, SMT
  <1>4. CASE f = "poll" /\ ~(arg >= 0)
    <2>1. arg \in Int /\ arg < 0
      BY <1>4, UnitFacts, SMT DEF NapArg
    <2>2. t = Forever
      BY <1>4, <2>1 DEF TimevalOf
    <2>3. Forever.sec = -1 /\ Forever.usec = 0
      BY DEF Forever, Timeval
    <2>4. 0 \in 0 .. (UsPerSec - 1) /\ ~(-1 >= 0)
      BY UnitFacts, SMT
    <2>5. QED
      BY <1>4, <2>1, <2>2, <2>3, <2>4
  <1>5. f = "msleep" => arg >= 0
    BY UnitFacts, SMT DEF NapArg
  <1>6. QED
    BY <1>1, <1>2, <1>3, <1>4, <1>5 DEF SleepFunction

\* What sleep() and msleep() say is left is not less than what is left, and less than a
\* unit more; msleep() cannot say so of more than an int holds.
LEMMA ResultFacts ==
  ASSUME NEW f \in TellsRest, NEW arg \in NapArg(f), NEW t, NEW error \in Int,
         t.sec \in Nat, t.usec \in 0 .. (UsPerSec - 1), Micros(t) <= Meant(f, arg)
  PROVE  LET r == Result(f, t, error)
         IN  /\ r \in SleepRet
             /\ (f = "msleep" => arg <= IntMax) \/ r > 0 =>
                  /\ r \in 0 .. UintMax
                  /\ Meant(f, r) >= Micros(t) /\ Meant(f, r) <= Micros(t) + (Meant(f, 1) - 1)
  <1> SUFFICES ASSUME NEW r, r = Result(f, t, error)
               PROVE  /\ r \in SleepRet
                      /\ (f = "msleep" => arg <= IntMax) \/ r > 0 =>
                           /\ r \in 0 .. UintMax
                           /\ Meant(f, r) >= Micros(t)
                           /\ Meant(f, r) <= Micros(t) + (Meant(f, 1) - 1)
    OBVIOUS
  <1>1. arg \in 0 .. UintMax /\ arg \in Nat
    BY UnitFacts, SMT DEF TellsRest, NapArg
  <1>2. t.usec \in Nat /\ UintMax \in Nat
    BY UnitFacts, SMT
  <1>3. 0 .. UintMax \subseteq SleepRet /\ -(IntMax + 1) .. IntMax \subseteq SleepRet
    BY UnitFacts, SMT DEF SleepRet
  <1>4. CASE f = "sleep"
    <2> DEFINE up == RoundedUp(t.usec, UsPerSec)
               n  == t.sec + up
    <2>1. up \in Nat /\ t.usec <= UsPerSec * up /\ UsPerSec * up <= t.usec + UsPerSec - 1
      BY <1>2, UnitFacts, RoundedUpFacts
    <2>2. r = ToUint(n)
      BY <1>4 DEF Result
    <2>3. /\ Micros(t) = t.sec * UsPerSec + t.usec /\ Meant(f, arg) = arg * UsPerSec
          /\ Meant(f, 1) = 1 * UsPerSec /\ \A k : Meant(f, k) = k * UsPerSec
      BY <1>4 DEF Micros, Meant
    <2> HIDE DEF up
    <2>4. n \in Nat /\ UsPerSec * n = t.sec * UsPerSec + UsPerSec * up
      BY <2>1, UnitFacts, SMT
    <2> HIDE DEF n
    <2>5. /\ UsPerSec * n >= Micros(t) /\ UsPerSec * n <= Micros(t) + (UsPerSec - 1)
          /\ UsPerSec * n <= UsPerSec * arg + UsPerSec - 1
      <3>1. /\ t.sec * UsPerSec \in Int /\ UsPerSec * up \in Int
            /\ arg * UsPerSec = UsPerSec * arg /\ UsPerSec * arg \in Int
        BY <1>1, <2>1, UnitFacts, SMT
      <3>2. QED
        BY <1>2, <2>1, <2>3, <2>4, <3>1, UnitFacts, SMT
    <2>6. n <= arg
      <3>1. n \in Int /\ arg \in Int
        BY <1>1, <2>4, SMT
      <3>2. QED
        BY <2>5, <3>1, UnitFacts, NoUnitMore
    <2>7. n \in 0 .. UintMax /\ n \in Int
      BY <1>1, <2>4, <2>6, UnitFacts, SMT
    <2>8. r = n
      BY <2>2, <2>7, ToUintFacts
    <2>9. Meant(f, n) = UsPerSec * n /\ Meant(f, 1) = UsPerSec
      BY <2>3, <2>4, UnitFacts, SMT
    <2>10. QED
      BY <1>3, <2>5, <2>7, <2>8, <2>9
  <1>5. CASE f = "msleep"
    <2> DEFINE up == RoundedUp(t.usec, UsPerMs)
               n  == t.sec * MsPerSec + up
    <2>1. up \in Nat /\ t.usec <= UsPerMs * up /\ UsPerMs * up <= t.usec + UsPerMs - 1
      BY <1>2, UnitFacts, RoundedUpFacts
    <2>2. r = ToInt(ToUint(n))
      BY <1>5 DEF Result
    <2>3. /\ Micros(t) = t.sec * UsPerSec + t.usec
          /\ \A k : Meant(f, k) = k * UsPerMs
      BY <1>5 DEF Micros, Meant
    <2> HIDE DEF up
    <2>4. n \in Nat /\ UsPerMs * n = t.sec * UsPerSec + UsPerMs * up
      <3>1. t.sec * MsPerSec \in Nat
        BY UnitFacts, SMT
      <3>2. UsPerMs * (t.sec * MsPerSec + up) = UsPerMs * (t.sec * MsPerSec) + UsPerMs * up
        BY <2>1, <3>1, UnitFacts, SMT
      <3>3. UsPerMs * (t.sec * MsPerSec) = t.sec * UsPerSec
        BY UnitFacts, SMT
      <3>4. QED
        BY <2>1, <3>1, <3>2, <3>3, SMT
    <2> HIDE DEF n
    <2>5. /\ UsPerMs * n >= Micros(t) /\ UsPerMs * n <= Micros(t) + (UsPerMs - 1)
          /\ UsPerMs * n <= UsPerMs * arg + UsPerMs - 1
      <3>1. /\ t.sec * UsPerSec \in Int /\ UsPerMs * up \in Int
            /\ arg * UsPerMs = UsPerMs * arg /\ UsPerMs * arg \in Int
        BY <1>1, <2>1, UnitFacts, SMT
      <3>2. QED
        BY <1>2, <2>1, <2>3, <2>4, <3>1, UnitFacts, SMT
    <2>6. n <= arg
      <3>1. n \in Int /\ arg \in Int
        BY <1>1, <2>4, SMT
      <3>2. QED
        BY <2>5, <3>1, UnitFacts, NoUnitMore
    <2>7. n \in 0 .. UintMax /\ n \in Int
      BY <1>1, <2>4, <2>6, UnitFacts, SMT
    <2>8. r = ToInt(n)
      BY <2>2, <2>7, ToUintFacts
    <2>9. /\ r \in -(IntMax + 1) .. IntMax
          /\ n <= IntMax => r = n
          /\ n > IntMax => r < 0
      BY <2>7, <2>8, ToIntFacts
    <2>10. Meant(f, n) = UsPerMs * n /\ Meant(f, 1) = UsPerMs
      BY <2>3, <2>4, UnitFacts, SMT
    <2>11. arg <= IntMax \/ r > 0 => r = n
      BY <1>1, <2>4, <2>6, <2>9, UnitFacts, SMT
    <2>12. QED
      BY <1>3, <1>5, <2>5, <2>7, <2>9, <2>10, <2>11
  <1>6. QED
    BY <1>4, <1>5 DEF TellsRest

\* What was slept and what is left, next to what was asked for.
Accounted(rest) ==
  /\ slept + rest >= asked
  /\ writesBack => slept + rest <= asked + signals * (Meant(nap.fn, 1) - 1)

\* A call in progress sleeps for the rest; one that has returned has told it.
Sleeping ==
  asleep =>
    /\ tv = TimevalOf(nap.fn, nap.arg)
    /\ IF nap.fn \in TellsRest THEN Accounted(Meant(nap.fn, nap.arg))
       ELSE slept + Meant(nap.fn, nap.arg) >= asked

Awake ==
  ~asleep =>
    /\ nap.fn \in TellsRest /\ (Fits \/ ret > 0) => ret \in 0 .. UintMax /\ Accounted(Meant(nap.fn, ret))
    /\ nap.fn \in {"usleep", "poll"} /\ ret = 0 =>
         slept >= asked /\ (nap.fn = "poll" => nap.arg >= 0)

SleepInv ==
  /\ SleepTypeOK /\ asked \in Int
  /\ \/ nap = NoNap /\ ~asleep
     \/ \E f \in SleepFunction : \E arg \in NapArg(f) : nap = Nap(f, arg)
  /\ Sleeping /\ Awake

LEMMA MeantInt ==
  ASSUME NEW f, NEW arg \in Int
  PROVE  Meant(f, arg) \in Int /\ Meant(f, 1) - 1 \in Nat /\ Meant(f, 0) = 0
  <1>1. \A u \in Nat : u >= 1 => arg * u \in Int /\ 1 * u - 1 \in Nat /\ 0 * u = 0
    BY SMT
  <1>2. 1 - 1 \in Nat
    BY SMT
  <1>3. QED
    BY <1>1, <1>2, UnitFacts DEF Meant

\* A call in progress, and its arguments.
LEMMA NapFacts ==
  ASSUME SleepInv, asleep
  PROVE  /\ nap.fn \in SleepFunction /\ nap.arg \in NapArg(nap.fn) /\ nap.arg \in Int
         /\ nap = Nap(nap.fn, nap.arg) /\ nap # NoNap
         /\ tv = TimevalOf(nap.fn, nap.arg)
         /\ tv.sec \in Int /\ tv.usec \in 0 .. (UsPerSec - 1)
         /\ tv.sec >= 0 => Micros(tv) = Meant(nap.fn, nap.arg) /\ nap.arg >= 0 /\ Micros(tv) >= 0
         /\ tv.sec < 0 => Endless \/ (nap.fn = "sleep" /\ tv.usec = 0 /\ ToUint(tv.sec) = nap.arg)
  <1>0. PICK f \in SleepFunction : \E arg \in NapArg(f) : nap = Nap(f, arg)
    BY DEF SleepInv
  <1>1. PICK arg \in NapArg(f) : nap = Nap(f, arg)
    BY <1>0
  <1>2. nap.fn = f /\ nap.arg = arg
    BY <1>1 DEF Nap
  <1>3. tv = TimevalOf(f, arg)
    BY <1>2 DEF SleepInv, Sleeping
  <1>4. nap # NoNap
    BY <1>1, <1>2 DEF NoNap, Nap, SleepFunction
  <1>5. /\ tv.sec \in Int /\ tv.usec \in 0 .. (UsPerSec - 1) /\ arg \in Int
        /\ tv.sec >= 0 => arg >= 0 /\ Micros(tv) = Meant(f, arg) /\ Meant(f, arg) >= 0
        /\ tv.sec < 0 => \/ f = "poll" /\ tv = Forever
                         \/ f = "sleep" /\ tv.usec = 0 /\ ToUint(tv.sec) = arg
    BY <1>3, TimevalFacts
  <1>6. nap.fn \in SleepFunction /\ nap.arg \in NapArg(nap.fn) /\ nap = Nap(nap.fn, nap.arg)
    BY <1>1, <1>2
  <1>7. tv.sec >= 0 => Micros(tv) = Meant(nap.fn, nap.arg) /\ nap.arg >= 0 /\ Micros(tv) >= 0
    BY <1>2, <1>5
  <1>8. ASSUME tv.sec < 0
        PROVE  Endless \/ (nap.fn = "sleep" /\ tv.usec = 0 /\ ToUint(tv.sec) = nap.arg)
    <2>1. CASE f = "poll" /\ tv = Forever
      BY <1>2, <2>1 DEF Endless
    <2>2. CASE f = "sleep" /\ tv.usec = 0 /\ ToUint(tv.sec) = arg
      BY <1>2, <2>2
    <2>3. QED
      BY <1>5, <1>8, <2>1, <2>2
  <1>9. tv = TimevalOf(nap.fn, nap.arg) /\ nap.arg \in Int
    BY <1>2, <1>3, <1>5
  <1>10. QED
    BY <1>4, <1>5, <1>6, <1>7, <1>8, <1>9

LEMMA SleepInvInit == SleepInit => SleepInv
  <1> SUFFICES ASSUME SleepInit PROVE SleepInv
    OBVIOUS
  <1>1. nap.fn = "none" /\ tv.sec = 0 /\ tv.usec = 0
    BY DEF SleepInit, NoNap, Nap, Timeval
  <1>2. 0 \in SleepRet /\ 0 \in 0 .. (UsPerSec - 1) /\ 0 \in 0 .. MaxSignals
    BY UnitFacts, SleepAssumption, SMT DEF SleepRet
  <1>3. SleepTypeOK
    <2>1. 0 \in Nat /\ 0 \in Int
      BY SMT
    <2>2. QED
      BY <1>1, <1>2, <2>1 DEF SleepInit, SleepTypeOK, SleepRet, UintMax
  <1>4. QED
    BY <1>1, <1>3, SMT DEF SleepInit, SleepInv, Sleeping, Awake, TellsRest

\* A call begins, with the rest accounted for.
LEMMA BeginsSleep ==
  ASSUME SleepInv, NEW f \in SleepFunction, NEW arg \in NapArg(f), CallsSelect(f, arg),
         slept' \in Nat, asked' \in Int, slept' + Meant(f, arg) >= asked',
         f \in TellsRest /\ writesBack =>
           slept' + Meant(f, arg) <= asked' + signals * (Meant(f, 1) - 1)
  PROVE  SleepInv'
  <1>1. /\ nap' = Nap(f, arg) /\ tv' = TimevalOf(f, arg) /\ asleep' = TRUE
        /\ UNCHANGED <<writesBack, ret, signals>>
    BY DEF CallsSelect
  <1>2. nap'.fn = f /\ nap'.arg = arg
    BY <1>1 DEF Nap
  <1>3. tv'.sec \in Int /\ tv'.usec \in 0 .. (UsPerSec - 1)
    BY <1>1, TimevalFacts
  <1>4. SleepTypeOK'
    BY <1>1, <1>2, <1>3 DEF SleepInv, SleepTypeOK, UsPerSec
  <1>5. Sleeping'
    BY <1>1, <1>2 DEF Sleeping, Accounted, TimevalOf, Meant, UsPerSec
  <1>6. QED
    BY <1>1, <1>4, <1>5 DEF SleepInv, Awake

LEMMA SleepInvBegin ==
  ASSUME SleepInv, NEW f \in SleepFunction, NEW arg \in SleepArg[f], Begin(f, arg)
  PROVE  SleepInv'
  <1>1. arg \in NapArg(f)
    BY SleepAssumption DEF NapArg, UintMax
  <1>2. arg \in Int
    BY <1>1, TimevalFacts
  <1>3. Meant(f, arg) \in Int /\ Meant(f, 1) - 1 \in Nat /\ signals \in Nat
    BY <1>2, MeantInt, SMT DEF SleepInv, SleepTypeOK
  <1>4. CallsSelect(f, arg) /\ slept' = 0 /\ asked' = Meant(f, arg)
    BY DEF Begin
  <1>5. \A m \in Int, k, s \in Nat : 0 + m >= m /\ 0 + m <= m + s * k
    BY SMT
  <1>6. 0 + Meant(f, arg) >= Meant(f, arg)
        /\ 0 + Meant(f, arg) <= Meant(f, arg) + signals * (Meant(f, 1) - 1)
    BY <1>3, <1>5
  <1>7. slept' \in Nat /\ asked' \in Int
    BY <1>3, <1>4
  <1>8. QED
    BY <1>1, <1>4, <1>6, <1>7, BeginsSleep

\* The call with the rest that the last one told.
LEMMA SleepInvAgain ==
  ASSUME SleepInv, Again
  PROVE  SleepInv'
  <1>1. /\ ~asleep /\ nap.fn \in TellsRest /\ ret > 0 /\ CallsSelect(nap.fn, ret)
        /\ slept' = slept /\ asked' = asked
    BY DEF Again, TellsRest
  <1>2. ret \in 0 .. UintMax /\ Accounted(Meant(nap.fn, ret)) /\ slept \in Nat /\ asked \in Int
    BY <1>1 DEF SleepInv, SleepTypeOK, Awake
  <1>3. nap.fn \in SleepFunction /\ ret \in NapArg(nap.fn)
    BY <1>1, <1>2 DEF TellsRest, SleepFunction, NapArg
  <1>4. QED
    BY <1>1, <1>2, <1>3, BeginsSleep DEF Accounted

\* A call returns.
LEMMA EndsSleep ==
  ASSUME SleepInv, asleep, asleep' = FALSE, nap' = nap, asked' = asked,
         writesBack' = writesBack, tv'.sec \in Int, tv'.usec \in 0 .. (UsPerSec - 1),
         slept' \in Nat, signals' \in 0 .. MaxSignals, ret' \in SleepRet, Awake'
  PROVE  SleepInv'
  <1>1. SleepTypeOK'
    BY DEF SleepInv, SleepTypeOK, SleepRet, UintMax, UsPerSec
  <1>2. QED
    BY <1>1, NapFacts DEF SleepInv, Sleeping

\* The kernel has refused the time: all of it is left.
LEMMA SleepInvRefused ==
  ASSUME SleepInv, Refused
  PROVE  SleepInv'
  <1>1. /\ asleep /\ ~Endless /\ tv.sec < 0
        /\ asleep' = FALSE /\ tv' = tv /\ nap' = nap /\ asked' = asked /\ slept' = slept
        /\ writesBack' = writesBack /\ signals' = signals
        /\ ret' = Result(nap.fn, tv, EINVAL)
    BY DEF Refused, Fails
  <1>2. nap.fn = "sleep" /\ tv.usec = 0 /\ ToUint(tv.sec) = nap.arg /\ nap.arg \in 0 .. UintMax
    BY <1>1, NapFacts DEF NapArg
  <1>3. RoundedUp(0, UsPerSec) = 0
    <2>1. RoundedUp(0, UsPerSec) \in Nat /\ UsPerSec * RoundedUp(0, UsPerSec) <= 0 + UsPerSec - 1
      BY UnitFacts, RoundedUpFacts
    <2> DEFINE r == RoundedUp(0, UsPerSec)
    <2>2. UsPerSec * r <= UsPerSec * 0 + UsPerSec - 1 /\ r \in Int
      BY <2>1, UnitFacts, SMT
    <2>3. r <= 0
      BY <2>2, UnitFacts, NoUnitMore
    <2>4. QED
      BY <2>1, <2>3, SMT
  <1>4. ret' = nap.arg
    <2>1. tv.sec + 0 = tv.sec
      BY <1>1, NapFacts, SMT
    <2>2. QED
      BY <1>1, <1>2, <1>3, <2>1 DEF Result
  <1>5. Accounted(Meant(nap.fn, nap.arg))
    BY <1>1, <1>2 DEF SleepInv, Sleeping, TellsRest
  <1>6. Awake'
    BY <1>1, <1>2, <1>4, <1>5 DEF Awake, Accounted, Meant, UsPerSec
  <1>7. ret' \in SleepRet
    BY <1>2, <1>4, UnitFacts, SMT DEF SleepRet
  <1>8. QED
    BY <1>1, <1>6, <1>7, NapFacts, EndsSleep DEF SleepInv, SleepTypeOK

\* The time is over: nothing is left.
LEMMA SleepInvTimesOut ==
  ASSUME SleepInv, TimesOut
  PROVE  SleepInv'
  <1>1. /\ asleep /\ tv.sec >= 0 /\ asleep' = FALSE /\ nap' = nap /\ asked' = asked
        /\ writesBack' = writesBack /\ signals' = signals
        /\ ret' = 0 /\ slept' = slept + Micros(tv)
        /\ tv' = IF writesBack THEN Timeval(0, 0) ELSE tv
    BY DEF TimesOut, Wakes
  <1>2. /\ Micros(tv) = Meant(nap.fn, nap.arg) /\ nap.arg >= 0 /\ Micros(tv) >= 0
        /\ Micros(tv) \in Int /\ slept \in Nat
    BY <1>1, NapFacts, MeantInt DEF SleepInv, SleepTypeOK
  <1>3. tv'.sec \in Int /\ tv'.usec \in 0 .. (UsPerSec - 1)
    <2>1. 0 \in 0 .. (UsPerSec - 1) /\ Timeval(0, 0).sec = 0 /\ Timeval(0, 0).usec = 0
      BY UnitFacts, SMT DEF Timeval
    <2>2. QED
      BY <1>1, <2>1, NapFacts
  <1>4. slept' \in Nat /\ slept' + 0 = slept + Micros(tv) /\ slept' = slept + Micros(tv)
    BY <1>1, <1>2, SMT
  <1>5. /\ nap.fn \in TellsRest => Accounted(Micros(tv))
        /\ nap.fn \notin TellsRest => slept + Micros(tv) >= asked
    BY <1>1, <1>2 DEF SleepInv, Sleeping
  <1>6. Awake'
    <2>1. Meant(nap.fn, 0)' = 0 /\ (Meant(nap.fn, 1) - 1)' = Meant(nap.fn, 1) - 1
      <3>1. Meant(nap.fn, 0)' = Meant(nap.fn, 0)
        BY <1>1 DEF Meant, UsPerSec
      <3>2. (Meant(nap.fn, 1) - 1)' = Meant(nap.fn, 1) - 1
        BY <1>1 DEF Meant, UsPerSec
      <3>3. Meant(nap.fn, 0) = 0
        BY <1>1, NapFacts, MeantInt
      <3>4. QED
        BY <3>1, <3>2, <3>3
    <2>2. ret' \in 0 .. UintMax
      BY <1>1, UnitFacts, SMT
    <2>3. nap.fn \in TellsRest => Accounted(Meant(nap.fn, ret))'
      BY <1>1, <1>4, <1>5, <2>1 DEF Accounted
    <2>4. nap.fn \in {"usleep", "poll"} => nap.fn \notin TellsRest
      BY DEF TellsRest
    <2>5. QED
      BY <1>1, <1>2, <1>4, <1>5, <2>2, <2>3, <2>4 DEF Awake
  <1>7. 0 \in SleepRet
    BY UnitFacts, SMT DEF SleepRet
  <1>8. QED
    BY <1>1, <1>3, <1>4, <1>6, <1>7, EndsSleep DEF SleepInv, SleepTypeOK

LEMMA SleepInvReady ==
  ASSUME SleepInv, Ready
  PROVE  SleepInv'
  <1>1. /\ asleep /\ nap.fn = "poll" /\ asleep' = FALSE /\ nap' = nap /\ asked' = asked
        /\ writesBack' = writesBack /\ signals' = signals
        /\ ret' = 1 /\ slept' = slept + 0 /\ tv' = tv
    BY DEF Ready, Wakes
  <1>2. slept' \in Nat /\ 1 # 0 /\ 1 \in SleepRet
    BY <1>1, UnitFacts, SMT DEF SleepRet, SleepInv, SleepTypeOK
  <1>3. Awake'
    BY <1>1, <1>2 DEF Awake, TellsRest
  <1>4. QED
    BY <1>1, <1>2, <1>3, NapFacts, EndsSleep DEF SleepInv, SleepTypeOK

\* What a signal leaves is what was left before it, less the time, and is a timeval.
LEMMA LeftInFacts ==
  ASSUME SleepInv, asleep, tv.sec >= 0, NEW time \in 0 .. Micros(tv)
  PROVE  LET t == LeftIn(tv, time)
         IN  /\ t.sec \in Nat /\ t.usec \in 0 .. (UsPerSec - 1) /\ Micros(t) \in Int
             /\ Micros(t) <= Micros(tv)
             /\ time + Micros(t) >= Micros(tv)
             /\ writesBack => time + Micros(t) = Micros(tv)
  <1>1. /\ Micros(tv) \in Int /\ Micros(tv) >= 0 /\ tv.sec \in Nat
        /\ tv.usec \in 0 .. (UsPerSec - 1)
    BY NapFacts, MeantInt, SMT
  <1>2. CASE ~writesBack
    <2>1. LeftIn(tv, time) = tv
      BY <1>2 DEF LeftIn
    <2>2. time + Micros(tv) >= Micros(tv) /\ Micros(tv) <= Micros(tv)
      BY <1>1, SMT
    <2>3. QED
      BY <1>1, <1>2, <2>1, <2>2
  <1>3. CASE writesBack
    <2> DEFINE m == Micros(tv) - time
               q == m \div UsPerSec
               r == m % UsPerSec
    <2>1. m \in Nat /\ UsPerSec > 0 /\ m <= Micros(tv) /\ time + m = Micros(tv)
      BY <1>1, UnitFacts, SMT
    <2>2. LeftIn(tv, time) = Timeval(q, r)
      BY <1>3 DEF LeftIn
    <2> HIDE DEF m
    <2>3. q \in Nat /\ r \in 0 .. (UsPerSec - 1) /\ m = UsPerSec * q + r
      BY <2>1, UnitFacts, DivisionFacts
    <2> HIDE DEF q, r
    <2>4. q * UsPerSec + r = m
      BY <2>3, UnitFacts, SMT
    <2>5. Micros(Timeval(q, r)) = m /\ Timeval(q, r).sec = q /\ Timeval(q, r).usec = r
      BY <2>4 DEF Micros, Timeval
    <2>6. m \in Int /\ time + m >= Micros(tv)
      BY <1>1, <2>1, SMT
    <2>7. QED
      BY <2>1, <2>2, <2>3, <2>5, <2>6
  <1>4. QED
    BY <1>2, <1>3

\* Numbers of a signal: less than a unit was added to what is left.
LEMMA OneSignalMore ==
  ASSUME NEW s \in Nat, NEW a \in Int, NEW n \in Nat, NEW k \in Nat, NEW u \in Nat,
         NEW left \in Int, NEW rest \in Int, NEW m \in Int,
         s + m <= a + n * k, u + left = m, rest <= left + k
  PROVE  (s + u) + rest <= a + (n + 1) * k
  <1>1. (n + 1) * k = n * k + k /\ n * k \in Nat
    BY SMT
  <1>2. QED
    BY <1>1, SMT

LEMMA SleepInvSignal ==
  ASSUME SleepInv, NEW time \in SignalTime, Signal(time)
  PROVE  SleepInv'
  <1> DEFINE t == IF nap.fn = "poll" THEN tv ELSE LeftIn(tv, time)
             r == Result(nap.fn, t, EINTR)
  <1>1. /\ asleep /\ signals < MaxSignals /\ (Endless \/ tv.sec >= 0)
        /\ signals' = signals + 1 /\ slept' = slept + time
        /\ asleep' = FALSE /\ tv' = t /\ nap' = nap /\ asked' = asked
        /\ writesBack' = writesBack /\ ret' = r
    BY DEF Signal, Fails
  <1>2. /\ slept \in Nat /\ signals \in Nat /\ asked \in Int /\ MaxSignals \in Nat
        /\ signals' \in 0 .. MaxSignals
    BY <1>1, SleepAssumption, SMT DEF SleepInv, SleepTypeOK
  <1>3. ~Endless => tv.sec >= 0 /\ time \in 0 .. Micros(tv)
    BY <1>1 DEF SignalTime
  <1>4. Micros(tv) \in Int
    <2>1. tv.sec \in Int /\ tv.usec \in Int
      BY <1>1, NapFacts, UnitFacts, SMT
    <2>2. QED
      BY <2>1, UnitFacts, SMT DEF Micros
  <1>5. time \in Nat
    BY <1>4, SMT DEF SignalTime
  <1>6. slept' \in Nat
    BY <1>1, <1>2, <1>5, SMT
  <1>7. CASE nap.fn \notin TellsRest
    <2>1. nap.fn \in {"poll", "usleep"}
      BY <1>1, <1>7, NapFacts DEF SleepFunction, TellsRest
    <2>2. r \in {-1, -EINTR}
      BY <2>1 DEF Result
    <2>3. r \in SleepRet /\ r # 0
      BY <2>2, UnitFacts, SMT DEF SleepRet, EINTR
    <2>4. t.sec \in Int /\ t.usec \in 0 .. (UsPerSec - 1)
      <3>1. CASE nap.fn = "poll"
        BY <1>1, <3>1, NapFacts
      <3>2. CASE nap.fn = "usleep"
        <4>1. t = LeftIn(tv, time) /\ ~Endless
          BY <3>2 DEF Endless
        <4>2. QED
          BY <1>1, <1>3, <4>1, LeftInFacts
      <3>3. QED
        BY <2>1, <3>1, <3>2
    <2> HIDE DEF t, r
    <2>5. Awake'
      BY <1>1, <1>7, <2>3 DEF Awake
    <2>6. QED
      BY <1>1, <1>2, <1>6, <2>3, <2>4, <2>5, EndsSleep
  <1>8. CASE nap.fn \in TellsRest
    <2>1. nap.fn # "poll" /\ ~Endless
      BY <1>8 DEF TellsRest, Endless
    <2>2. t = LeftIn(tv, time)
      BY <2>1
    <2>3. /\ t.sec \in Nat /\ t.usec \in 0 .. (UsPerSec - 1) /\ Micros(t) \in Int
          /\ Micros(t) <= Micros(tv)
          /\ time + Micros(t) >= Micros(tv)
          /\ writesBack => time + Micros(t) = Micros(tv)
      BY <1>1, <1>3, <2>1, <2>2, LeftInFacts
    <2>4. /\ Micros(tv) = Meant(nap.fn, nap.arg) /\ nap.arg \in NapArg(nap.fn)
      BY <1>1, <1>3, <2>1, NapFacts
    <2> HIDE DEF t
    <2>5. EINTR \in Int
      BY DEF EINTR
    <2>6. /\ r \in SleepRet
          /\ (nap.fn = "msleep" => nap.arg <= IntMax) \/ r > 0 =>
               /\ r \in 0 .. UintMax
               /\ Meant(nap.fn, r) >= Micros(t)
               /\ Meant(nap.fn, r) <= Micros(t) + (Meant(nap.fn, 1) - 1)
      BY <1>8, <2>3, <2>4, <2>5, ResultFacts
    <2> HIDE DEF r
    <2>7. Accounted(Micros(tv))
      BY <1>1, <1>8, <2>4 DEF SleepInv, Sleeping
    <2>8. ASSUME Fits' \/ r > 0
          PROVE  ret' \in 0 .. UintMax /\ Accounted(Meant(nap.fn, ret))'
      <3>1. Fits' => (nap.fn = "msleep" => nap.arg <= IntMax)
        BY <1>1 DEF Fits
      <3>2. /\ r \in 0 .. UintMax
            /\ Meant(nap.fn, r) >= Micros(t)
            /\ Meant(nap.fn, r) <= Micros(t) + (Meant(nap.fn, 1) - 1)
        BY <2>6, <2>8, <3>1
      <3>3. r \in Int
        BY <3>2, UnitFacts, SMT
      <3> DEFINE k    == Meant(nap.fn, 1) - 1
                 rest == Meant(nap.fn, r)
      <3>4. rest \in Int /\ k \in Nat
        BY <3>3, MeantInt
      <3>5. slept' = slept + time /\ signals' = signals + 1 /\ slept + Micros(tv) >= asked
        BY <1>1, <2>7 DEF Accounted
      <3>6. (Meant(nap.fn, ret))' = rest /\ (Meant(nap.fn, 1) - 1)' = k
        BY <1>1 DEF Meant, UsPerSec
      <3>7. writesBack => slept + Micros(tv) <= asked + signals * k
        BY <2>7 DEF Accounted
      <3>8. rest >= Micros(t) /\ rest <= Micros(t) + k
        BY <3>2
      <3> HIDE DEF k, rest
      <3>9. slept' + rest >= asked
        BY <1>2, <1>4, <1>5, <2>3, <3>4, <3>5, <3>8, SMT
      <3>10. writesBack => (slept + time) + rest <= asked + (signals + 1) * k
        BY <1>2, <1>4, <1>5, <2>3, <3>4, <3>7, <3>8, OneSignalMore
      <3>11. QED
        BY <1>1, <3>2, <3>5, <3>6, <3>9, <3>10 DEF Accounted
    <2>9. Awake'
      <3>1. nap.fn \notin {"usleep", "poll"}
        BY <1>8 DEF TellsRest
      <3>2. QED
        BY <1>1, <2>8, <3>1 DEF Awake
    <2>10. t.sec \in Int
      BY <2>3, SMT
    <2>11. QED
      BY <1>1, <1>2, <1>6, <2>3, <2>6, <2>9, <2>10, EndsSleep
  <1>9. QED
    BY <1>7, <1>8

LEMMA SleepInvNext == SleepInv /\ [SleepNext]_<<sleepVars, errno>> => SleepInv'
  <1> SUFFICES ASSUME SleepInv, [SleepNext]_<<sleepVars, errno>> PROVE SleepInv'
    OBVIOUS
  <1>1. ASSUME NEW f \in SleepFunction, NEW arg \in SleepArg[f], Begin(f, arg) PROVE SleepInv'
    BY <1>1, SleepInvBegin
  <1>2. CASE Again
    BY <1>2, SleepInvAgain
  <1>3. CASE Refused
    BY <1>3, SleepInvRefused
  <1>4. CASE TimesOut
    BY <1>4, SleepInvTimesOut
  <1>5. CASE Ready
    BY <1>5, SleepInvReady
  <1>6. ASSUME NEW time \in SignalTime, Signal(time) PROVE SleepInv'
    BY <1>6, SleepInvSignal
  <1>7. CASE UNCHANGED <<sleepVars, errno>>
    BY <1>7 DEF sleepVars, SleepInv, SleepTypeOK, Sleeping, Awake, Accounted, Fits, Meant,
                TimevalOf, UsPerSec
  <1>8. QED
    BY <1>1, <1>2, <1>3, <1>4, <1>5, <1>6, <1>7 DEF SleepNext

LEMMA SleepInvTold == SleepInv => SleepsAsAsked
  <1> SUFFICES ASSUME SleepInv, Fits, nap # NoNap PROVE SleepsAsAsked
    BY DEF SleepsAsAsked
  <1>1. nap.fn \in SleepFunction
    BY DEF SleepInv, Nap
  <1>2. CASE asleep
    <2>1. Rest = IF nap.fn \in TellsRest THEN Meant(nap.fn, nap.arg) ELSE Rest
      BY <1>2 DEF Rest, TellsRest
    <2>2. nap.fn \in TellsRest => Accounted(Rest)
      BY <1>2, <2>1 DEF SleepInv, Sleeping
    <2>3. QED
      BY <1>2, <2>2 DEF SleepsAsAsked, Accounted, TellsRest
  <1>3. CASE ~asleep
    <2>1. nap.fn \in TellsRest => Rest = Meant(nap.fn, ret) /\ Accounted(Rest)
      BY <1>3 DEF Rest, TellsRest, SleepInv, Awake
    <2>2. nap.fn \notin TellsRest => Rest = 0 /\ nap.fn \in {"usleep", "poll"}
      BY <1>1, <1>3 DEF Rest, TellsRest, SleepFunction
    <2>3. nap.fn \notin TellsRest /\ ret = 0 =>
            slept >= asked /\ (nap.fn = "poll" => nap.arg >= 0)
      BY <1>3, <2>2 DEF SleepInv, Awake
    <2>4. slept + 0 = slept
      BY SMT DEF SleepInv, SleepTypeOK
    <2>5. QED
      BY <1>3, <2>1, <2>2, <2>3, <2>4 DEF SleepsAsAsked, Accounted, TellsRest
  <1>4. QED
    BY <1>2, <1>3

\* A nap keeps its types: what a function returns is in the range of its type, and the
\* timeval has fewer microseconds than a second.
THEOREM SleepTypes == SleepSpec => []SleepTypeOK
  <1>1. SleepInv => SleepTypeOK
    BY DEF SleepInv
  <1>2. QED
    BY <1>1, SleepInvInit, SleepInvNext, PTL DEF SleepSpec

\* After any number of signals at any time, what was slept and what sleep() or msleep()
\* says is left make the time asked for, and less than a unit more for each signal where
\* the kernel writes the rest back; usleep() and poll() that return 0 have waited.
THEOREM SleepsAreAccounted == SleepSpec => []SleepsAsAsked
  <1>1. QED
    BY SleepInvTold, SleepInvInit, SleepInvNext, PTL DEF SleepSpec

-----------------------------------------------------------------------------
(* The break and the offset.                                               *)

BreakInv == BreakTypeOK /\ PositionsTold

-----------------------------------------------------------------------------

\* An address stays an address, and one that is in range stays what it is.
LEMMA WrapAddress ==
  ASSUME NEW n \in Int
  PROVE  Wrap(n) \in 0 .. AddressMax /\ (n \in 0 .. AddressMax => Wrap(n) = n)
  <1>1. AddressMax + 1 \in Nat /\ AddressMax + 1 > 0 /\ AddressMax \in Nat
    BY BreakAssumption, SMT
  <1>2. /\ n % (AddressMax + 1) \in 0 .. ((AddressMax + 1) - 1)
        /\ n >= 0 /\ n < AddressMax + 1 => n % (AddressMax + 1) = n
    BY <1>1, ModNear
  <1>3. QED
    BY <1>1, <1>2, SMT DEF Wrap

\* The low word of an offset is the offset, or larger than any off_t.
LEMMA LowWordFacts ==
  ASSUME NEW offset \in Offset
  PROVE  /\ offset \in Int /\ LowWord(offset) \in Nat
         /\ offset >= 0 => LowWord(offset) = offset
         /\ offset < 0 => LowWord(offset) > OffMax
  <1> DEFINE d == 2 * (OffMax + 1)
  <1>1. /\ d \in Nat /\ d > 0 /\ OffMax \in Nat
        /\ offset \in Int /\ offset >= -(OffMax + 1) /\ offset < d /\ offset >= -d
        /\ offset < 0 => offset + d > OffMax
    BY BreakAssumption, SMT
  <1>2. LowWord(offset) = offset % d
    BY DEF LowWord
  <1> HIDE DEF d
  <1>3. /\ offset % d \in 0 .. (d - 1)
        /\ offset >= 0 /\ offset < d => offset % d = offset
        /\ offset < 0 /\ offset >= -d => offset % d = offset + d
    BY <1>1, ModNear
  <1>4. QED
    BY <1>1, <1>2, <1>3, SMT

-----------------------------------------------------------------------------

LEMMA BreakInvInit == BreakInit => BreakInv
  BY BreakAssumption, SMT
     DEF BreakInit, BreakInv, BreakTypeOK, PositionsTold, Move, MinusOne

LEMMA BreakInvBrk ==
  ASSUME BreakInv, NEW address \in BreakArg, brk(address)
  PROVE  BreakInv'
  <1>1. PICK next \in BreakAfter(address) :
          /\ break' = next
          /\ result' = MinusOne \/ result' = 0
    BY DEF brk, sys_brk
  <1>2. move'.fn = "brk" /\ UNCHANGED <<pos, hasLseek>>
    BY DEF brk, Move
  <1>3. break' \in BreakStart .. BreakLimit
    BY <1>1 DEF BreakAfter, BreakInv, BreakTypeOK
  <1>4. QED
    BY <1>1, <1>2, <1>3, BreakAssumption, SMT DEF BreakInv, BreakTypeOK, PositionsTold, MinusOne

LEMMA BreakInvSbrk ==
  ASSUME BreakInv, NEW inc \in Increment, sbrk(inc)
  PROVE  BreakInv'
  <1> DEFINE to      == break + inc
             address == Wrap(to)
  <1>1. to \in Int /\ break \in BreakStart .. BreakLimit /\ break # 0
    BY BreakAssumption, SMT DEF BreakInv, BreakTypeOK
  <1>2. address \in 0 .. AddressMax /\ (to \in 0 .. AddressMax => address = to)
    BY <1>1, WrapAddress
  <1>3. PICK next \in BreakAfter(address) :
          /\ break' = next
          /\ IF break # 0 /\ next = address THEN result' = address
             ELSE result' = MinusOne /\ errno' = ENOMEM
    BY DEF sbrk, sys_brk, Agrees, SET_ERRNO
  <1>4. /\ move'.fn = "sbrk" /\ move'.to = to /\ move'.from = break
        /\ UNCHANGED <<pos, hasLseek>>
    BY DEF sbrk, Move
  <1>5. break' \in BreakStart .. BreakLimit /\ (break' = break \/ break' = address)
    BY <1>1, <1>3 DEF BreakAfter
  <1> HIDE DEF address, to
  <1>6. result' = MinusOne => break' = move'.from /\ break' # address /\ errno' = ENOMEM
    <2> SUFFICES ASSUME result' = MinusOne PROVE break' = break /\ break' # address /\ errno' = ENOMEM
      BY <1>4
    <2>1. MinusOne # address
      BY <1>2, BreakAssumption, SMT DEF MinusOne
    <2>2. QED
      BY <1>1, <1>3, <1>5, <2>1
  <1>7. result' # MinusOne => break' = address
    BY <1>3
  <1>8. result' \in {MinusOne} \cup 0 .. AddressMax
    BY <1>2, <1>3
  <1>9. address = Wrap(move'.to)
    BY <1>4 DEF address
  <1>10. QED
    BY <1>4, <1>5, <1>6, <1>7, <1>8, <1>9 DEF BreakInv, BreakTypeOK, PositionsTold

LEMMA BreakInvLseek ==
  ASSUME BreakInv, NEW offset \in Offset, NEW whence \in Whence, lseek(offset, whence)
  PROVE  BreakInv'
  <1> DEFINE given == IF hasLseek THEN offset ELSE LowWord(offset)
             loff  == Base(whence) + given
  <1>1. Seeks(loff) /\ (result' = MinusOne => errno' = SeekError(loff))
    BY DEF lseek, SET_ERRNO
  <1>2. /\ move'.fn = "lseek" /\ move'.to = Base(whence) + offset /\ move'.from = pos
        /\ UNCHANGED <<break, hasLseek>>
    BY DEF lseek, Move
  <1>3. /\ pos \in 0 .. PosMax /\ OffMax \in Nat /\ PosMax \in Nat
        /\ hasLseek \in BOOLEAN /\ break \in BreakStart .. BreakLimit
    BY BreakAssumption DEF BreakInv, BreakTypeOK
  <1>4. Base(whence) \in Nat
    <2>1. CASE whence = "SEEK_SET"
      BY <2>1 DEF Base
    <2>2. CASE whence = "SEEK_CUR"
      BY <1>3, <2>2, SMT DEF Base
    <2>3. CASE whence = "SEEK_END"
      BY <2>3, BreakAssumption, SMT DEF Base
    <2>4. QED
      BY <2>1, <2>2, <2>3 DEF Whence
  <1>5. /\ given \in Int /\ (given = offset \/ given > OffMax)
        /\ offset \in Int
    BY LowWordFacts, SMT
  <1>6. loff \in Int /\ (loff = move'.to \/ loff > OffMax)
    BY <1>2, <1>3, <1>4, <1>5, SMT
  <1> HIDE DEF loff, given
  <1>7. CASE loff \in 0 .. PosMax /\ loff <= OffMax
    <2>1. pos' = loff /\ result' = loff
      BY <1>1, <1>7, SMT DEF Seeks, ToldOffset
    <2>2. result' # MinusOne /\ result' \in 0 .. OffMax /\ loff = move'.to
      BY <1>3, <1>6, <1>7, <2>1, SMT DEF MinusOne
    <2>3. QED
      BY <1>2, <1>3, <1>7, <2>1, <2>2 DEF BreakInv, BreakTypeOK, PositionsTold
  <1>8. CASE loff \in 0 .. PosMax /\ ~(loff <= OffMax)
    <2>1. ToldOffset(loff) = -EOVERFLOW
      BY <1>8 DEF ToldOffset
    <2>2. pos' = loff /\ result' = MinusOne
      BY <1>1, <1>8, <2>1, SMT DEF Seeks, EOVERFLOW
    <2>3. errno' = EOVERFLOW
      <3>1. SeekError(loff) = -(-EOVERFLOW)
        BY <1>8, <2>1 DEF SeekError
      <3>2. -(-EOVERFLOW) = EOVERFLOW
        <4>1. EOVERFLOW \in Int
          BY SMT DEF EOVERFLOW
        <4>2. QED
          BY <4>1, NegativeTwice
      <3>3. QED
        BY <1>1, <2>2, <3>1, <3>2
    <2>4. QED
      BY <1>2, <1>3, <1>8, <2>2, <2>3 DEF BreakInv, BreakTypeOK, PositionsTold
  <1>9. CASE loff \notin 0 .. PosMax
    <2>1. pos' = pos /\ result' = MinusOne
      BY <1>1, <1>9 DEF Seeks
    <2>2. QED
      BY <1>2, <1>3, <2>1 DEF BreakInv, BreakTypeOK, PositionsTold
  <1>10. QED
    BY <1>7, <1>8, <1>9

LEMMA BreakInvNext == BreakInv /\ [BreakNext]_<<breakVars, errno>> => BreakInv'
  <1> SUFFICES ASSUME BreakInv, [BreakNext]_<<breakVars, errno>> PROVE BreakInv'
    OBVIOUS
  <1>1. CASE \E address \in BreakArg : brk(address)
    BY <1>1, BreakInvBrk
  <1>2. CASE \E inc \in Increment : sbrk(inc)
    BY <1>2, BreakInvSbrk
  <1>3. CASE \E offset \in Offset, whence \in Whence : lseek(offset, whence)
    BY <1>3, BreakInvLseek
  <1>4. CASE UNCHANGED <<breakVars, errno>>
    BY <1>4 DEF breakVars, BreakInv, BreakTypeOK, PositionsTold
  <1>5. QED
    BY <1>1, <1>2, <1>3, <1>4 DEF BreakNext

LEMMA BreakInvAlways == BreakSpec => []BreakInv
  BY BreakInvInit, BreakInvNext, PTL DEF BreakSpec

\* The break stays between the bounds of the kernel and the offset in the file's, and
\* what the calls return is -1, an address or an off_t.
THEOREM BreakTypes == BreakSpec => []BreakTypeOK
  BY BreakInvAlways, PTL DEF BreakInv

\* sbrk() fails, with ENOMEM, exactly when the break has not come where it was to go, and
\* has not moved it then; an offset told by lseek() is the one the file has and the one
\* asked for, with the offset cut to its low word on a kernel without lseek() as well.
THEOREM PositionsAreTold == BreakSpec => []PositionsTold
  BY BreakInvAlways, PTL DEF BreakInv

-----------------------------------------------------------------------------
(* Clocks and timers.                                                      *)

\* The seconds of the kernel come as a time_t that differs by a multiple of 2^w.
LEMMA ToTimeFacts ==
  ASSUME NEW n \in Int
  PROVE  /\ ToTime(n) \in (-(TimeMax + 1)) .. TimeMax
         /\ (n - ToTime(n)) % (2 * (TimeMax + 1)) = 0
  <1> DEFINE m == TimeMax + 1
             d == 2 * m
  <1>1. TimeMax \in Nat /\ m \in Nat /\ d \in Nat /\ d > 0 /\ n + m \in Int
    BY WordsAssumption, SMT
  <1>2. ToTime(n) = ((n + m) % d) - m
    <2>1. n + TimeMax + 1 = n + m
      BY <1>1, SMT
    <2>2. QED
      BY <2>1 DEF ToTime, Signed
  <1> HIDE DEF d
  <1>3. (n + m) % d \in 0 .. (d - 1) /\ ((n + m) - ((n + m) % d)) % d = 0
    BY <1>1, ModNear, ModDifference
  <1>4. n - ToTime(n) = (n + m) - ((n + m) % d)
    BY <1>1, <1>2, <1>3, SMT
  <1>5. (n - ToTime(n)) % d = 0
    BY <1>3, <1>4
  <1>6. ToTime(n) \in (-m) .. TimeMax
    BY <1>1, <1>2, <1>3, SMT DEF d
  <1>7. QED
    BY <1>5, <1>6 DEF d

\* A time of the kernel, converted, is a time of the program and tells it.
LEMMA KernelToUserTells ==
  ASSUME NEW t \in ProgramTime
  PROVE  KernelToUser(t) \in ProgramTime /\ Tells(KernelToUser(t), t)
  <1>1. t.sec \in Int /\ t.nsec \in Nat
    BY DEF ProgramTime
  <1>2. /\ ToTime(t.sec) \in (-(TimeMax + 1)) .. TimeMax
        /\ (t.sec - ToTime(t.sec)) % (2 * (TimeMax + 1)) = 0
    BY <1>1, ToTimeFacts
  <1>3. KernelToUser(t).sec = ToTime(t.sec) /\ KernelToUser(t).nsec = t.nsec
    BY DEF KernelToUser, Timespec
  <1>4. ToTime(t.sec) \in Int
    BY <1>2, WordsAssumption, SMT
  <1>5. KernelToUser(t) \in ProgramTime
    BY <1>1, <1>4 DEF KernelToUser, Timespec, ProgramTime
  <1>6. QED
    BY <1>2, <1>3, <1>5 DEF Tells

LEMMA ItsToUserTells ==
  ASSUME NEW k \in Settings(ProgramTime)
  PROVE  ItsToUser(k) \in Settings(ProgramTime) /\ TellsBoth(ItsToUser(k), k)
  <1>1. k.value \in ProgramTime /\ k.interval \in ProgramTime
    BY DEF Settings
  <1>2. /\ KernelToUser(k.value) \in ProgramTime /\ Tells(KernelToUser(k.value), k.value)
        /\ KernelToUser(k.interval) \in ProgramTime /\ Tells(KernelToUser(k.interval), k.interval)
    BY <1>1, KernelToUserTells
  <1>3. QED
    BY <1>2 DEF ItsToUser, Itimerspec, Settings, TellsBoth

\* The kernel's times are a program's times too.
LEMMA KernelTimes ==
  KernelTime \subseteq ProgramTime /\ Settings(KernelTime) \subseteq Settings(ProgramTime)
  <1>1. KernelTime \subseteq ProgramTime
    BY SMT DEF KernelTime, ProgramTime
  <1>2. QED
    BY <1>1 DEF Settings

\* The times that a program passes or finds on its stack.
LEMMA GivenTimes ==
  /\ UserTime \subseteq ProgramTime /\ StackTime \subseteq ProgramTime
  /\ Settings(UserTime) \subseteq Settings(ProgramTime)
  /\ Settings(StackTime) \subseteq Settings(ProgramTime)
  <1>1. UserTime \subseteq ProgramTime /\ StackTime \subseteq ProgramTime
    <2> SUFFICES ASSUME NEW t \in UserTime \cup StackTime PROVE t \in ProgramTime
      OBVIOUS
    <2>1. t \in [sec : (-(TimeMax + 1)) .. TimeMax, nsec : Nat]
      BY ClocksAssumption
    <2>2. QED
      BY <2>1, WordsAssumption, SMT DEF ProgramTime
  <1>2. QED
    BY <1>1 DEF Settings

\* A time that the kernel takes is one of the kernel.
LEMMA ValidTimes ==
  /\ \A t \in ProgramTime : Valid(t) => t \in KernelTime
  /\ \A k \in Settings(ProgramTime) : ValidSetting(k) => k \in Settings(KernelTime)
  <1>1. ASSUME NEW t \in ProgramTime, Valid(t) PROVE t \in KernelTime
    BY <1>1, SMT DEF ProgramTime, KernelTime, Valid
  <1>2. ASSUME NEW k \in Settings(ProgramTime), ValidSetting(k) PROVE k \in Settings(KernelTime)
    <2>1. k.value \in ProgramTime /\ k.interval \in ProgramTime
      BY DEF Settings
    <2>2. k.value \in KernelTime /\ k.interval \in KernelTime
      BY <1>1, <1>2, <2>1 DEF ValidSetting
    <2>3. QED
      BY <2>2 DEF Settings
  <1>3. QED
    BY <1>1, <1>2

\* The structures the kernel is given are those of the program.
LEMMA ToKernelSame ==
  ASSUME NEW k \in Settings(ProgramTime)
  PROVE  ItsToKernel(k) = k
  BY DEF Settings, ItsToKernel, UserToKernel, Itimerspec

-----------------------------------------------------------------------------

LEMMA ClocksTypeInit == ClocksInit => ClocksTypeOK
  BY SMT DEF ClocksInit, ClocksTypeOK, Zero, Timespec, Itimerspec, Call, KernelTime, ProgramTime,
             Settings

\* Each step keeps the types and tells the times.
LEMMA ClocksStep ==
  ASSUME ClocksTypeOK, ClocksNext
  PROVE  ClocksTypeOK' /\ TimesToldStep
  <1>1. /\ time64 \in BOOLEAN /\ clock \in KernelTime /\ timer \in Settings(KernelTime)
        /\ tp \in ProgramTime /\ its \in Settings(ProgramTime)
        /\ clock \in ProgramTime /\ timer \in Settings(ProgramTime)
    BY KernelTimes DEF ClocksTypeOK
  <1>2. CASE ClockGettime
    <2>1. CASE Succeeds("clock_gettime") /\ tp' = KernelToUser(clock) /\ UNCHANGED <<clock, timer, its>>
      <3>1. call'.ok /\ call'.fn = "clock_gettime" /\ UNCHANGED time64 /\ call'.ok \in BOOLEAN
        BY <2>1 DEF Succeeds, Call
      <3>2. tp' \in ProgramTime /\ Tells(tp', clock)
        BY <1>1, <2>1, KernelToUserTells
      <3>3. QED
        BY <1>1, <2>1, <3>1, <3>2 DEF ClocksTypeOK, TimesToldStep
    <2>2. CASE /\ Refuses("clock_gettime")
               /\ IF time64 THEN tp' \in StackTime ELSE UNCHANGED tp
               /\ UNCHANGED its
      <3>1. /\ ~call'.ok /\ call'.fn = "clock_gettime" /\ call'.ok \in BOOLEAN
            /\ errno' = EINVAL /\ UNCHANGED <<time64, clock, timer>>
        BY <2>2 DEF Refuses, Call, SET_ERRNO
      <3>2. tp' \in ProgramTime
        BY <1>1, <2>2, GivenTimes
      <3>3. QED
        BY <1>1, <2>2, <3>1, <3>2 DEF ClocksTypeOK, TimesToldStep
    <2>3. QED
      BY <1>2, <2>1, <2>2 DEF ClockGettime
  <1>3. CASE ClockSettime
    <2>1. CASE Valid(tp)
      <3>1. /\ call'.ok /\ call'.fn = "clock_settime" /\ call'.ok \in BOOLEAN
            /\ clock' = tp /\ UNCHANGED <<time64, timer, tp, its>>
        <4>1. Succeeds("clock_settime") /\ clock' = tp /\ UNCHANGED <<timer, tp, its>>
          BY <1>3, <2>1 DEF ClockSettime, UserToKernel
        <4>2. QED
          BY <4>1 DEF Succeeds, Call
      <3>2. clock' \in KernelTime
        BY <1>1, <2>1, <3>1, ValidTimes
      <3>3. QED
        BY <1>1, <2>1, <3>1, <3>2 DEF ClocksTypeOK, TimesToldStep
    <2>2. CASE ~Valid(tp)
      <3>1. /\ ~call'.ok /\ call'.fn = "clock_settime" /\ call'.ok \in BOOLEAN /\ errno' = EINVAL
            /\ UNCHANGED <<time64, clock, timer, tp, its>>
        <4>1. Refuses("clock_settime") /\ UNCHANGED <<tp, its>>
          BY <1>3, <2>2 DEF ClockSettime, UserToKernel
        <4>2. QED
          BY <4>1 DEF Refuses, Call, SET_ERRNO
      <3>2. QED
        BY <1>1, <3>1 DEF ClocksTypeOK, TimesToldStep
    <2>3. QED
      BY <2>1, <2>2
  <1>4. CASE Gettimeofday
    <2> DEFINE usecs == [clock EXCEPT !.nsec = @ \div NsPerUs]
    <2>1. /\ call'.ok /\ call'.fn = "gettimeofday" /\ call'.ok \in BOOLEAN
          /\ tp' = Timespec(KernelToUser(clock).sec, clock.nsec \div NsPerUs)
          /\ UNCHANGED <<time64, clock, timer, its>>
      BY <1>4 DEF Gettimeofday, Succeeds, Call
    <2>2. clock.sec \in Int /\ clock.nsec \in Nat /\ clock.nsec \div NsPerUs \in Nat
      <3>1. clock.sec \in Int /\ clock.nsec \in Nat
        BY <1>1 DEF ProgramTime
      <3>2. NsPerUs \in Nat /\ NsPerUs > 0
        BY ClocksAssumption, SMT
      <3>3. QED
        BY <3>1, <3>2, SMT
    <2>3. usecs \in ProgramTime /\ usecs.sec = clock.sec /\ usecs.nsec = clock.nsec \div NsPerUs
      BY <1>1, <2>2 DEF ProgramTime
    <2>4. tp' = KernelToUser(usecs)
      BY <2>1, <2>3 DEF KernelToUser, Timespec
    <2>5. tp' \in ProgramTime /\ Tells(tp', usecs)
      BY <2>3, <2>4, KernelToUserTells
    <2>6. QED
      BY <1>1, <2>1, <2>5 DEF ClocksTypeOK, TimesToldStep
  <1>5. CASE TimerGettime
    <2>1. /\ call'.ok /\ call'.fn = "timer_gettime" /\ call'.ok \in BOOLEAN
          /\ its' = ItsToUser(timer) /\ UNCHANGED <<time64, clock, timer, tp>>
      BY <1>5 DEF TimerGettime, Succeeds, Call
    <2>2. its' \in Settings(ProgramTime) /\ TellsBoth(its', timer)
      BY <1>1, <2>1, ItsToUserTells
    <2>3. QED
      BY <1>1, <2>1, <2>2 DEF ClocksTypeOK, TimesToldStep
  <1>6. CASE TimerGettimeFails
    <2>1. /\ ~call'.ok /\ call'.fn = "timer_gettime" /\ call'.ok \in BOOLEAN /\ errno' = EINVAL
          /\ IF time64 THEN its' \in Settings(StackTime) ELSE UNCHANGED its
          /\ UNCHANGED <<time64, clock, timer, tp>>
      BY <1>6 DEF TimerGettimeFails, Refuses, Call, SET_ERRNO
    <2>2. its' \in Settings(ProgramTime)
      BY <1>1, <2>1, GivenTimes
    <2>3. QED
      BY <1>1, <2>1, <2>2 DEF ClocksTypeOK, TimesToldStep
  <1>7. CASE TimerSettime
    <2>1. ItsToKernel(its) = its
      BY <1>1, ToKernelSame
    <2>2. CASE ValidSetting(its)
      <3>1. /\ call'.ok /\ call'.fn = "timer_settime" /\ call'.ok \in BOOLEAN
            /\ timer' = its /\ UNCHANGED <<time64, clock, tp, its>>
        <4>1. Succeeds("timer_settime") /\ timer' = its /\ UNCHANGED <<clock, tp, its>>
          BY <1>7, <2>1, <2>2 DEF TimerSettime
        <4>2. QED
          BY <4>1 DEF Succeeds, Call
      <3>2. timer' \in Settings(KernelTime)
        BY <1>1, <2>2, <3>1, ValidTimes
      <3>3. QED
        BY <1>1, <2>2, <3>1, <3>2 DEF ClocksTypeOK, TimesToldStep
    <2>3. CASE ~ValidSetting(its)
      <3>1. /\ ~call'.ok /\ call'.fn = "timer_settime" /\ call'.ok \in BOOLEAN /\ errno' = EINVAL
            /\ UNCHANGED <<time64, clock, timer, tp, its>>
        <4>1. Refuses("timer_settime") /\ UNCHANGED <<tp, its>>
          BY <1>7, <2>1, <2>3 DEF TimerSettime
        <4>2. QED
          BY <4>1 DEF Refuses, Call, SET_ERRNO
      <3>2. QED
        BY <1>1, <3>1 DEF ClocksTypeOK, TimesToldStep
    <2>4. QED
      BY <2>2, <2>3
  <1>8. CASE TimerExchange
    <2>1. ItsToKernel(its) = its
      BY <1>1, ToKernelSame
    <2>2. CASE ValidSetting(its)
      <3>1. /\ call'.ok /\ call'.fn = "timer_exchange" /\ call'.ok \in BOOLEAN
            /\ timer' = its /\ its' = ItsToUser(timer) /\ UNCHANGED <<time64, clock, tp>>
        <4>1. /\ Succeeds("timer_exchange")
              /\ timer' = its /\ its' = ItsToUser(timer) /\ UNCHANGED <<clock, tp>>
          BY <1>8, <2>1, <2>2 DEF TimerExchange
        <4>2. QED
          BY <4>1 DEF Succeeds, Call
      <3>2. timer' \in Settings(KernelTime)
        BY <1>1, <2>2, <3>1, ValidTimes
      <3>3. its' \in Settings(ProgramTime) /\ TellsBoth(its', timer)
        BY <1>1, <3>1, ItsToUserTells
      <3>4. QED
        BY <1>1, <3>1, <3>2, <3>3 DEF ClocksTypeOK, TimesToldStep
    <2>3. CASE ~ValidSetting(its)
      <3>1. /\ ~call'.ok /\ call'.fn = "timer_exchange" /\ call'.ok \in BOOLEAN /\ errno' = EINVAL
            /\ IF time64 THEN its' \in Settings(StackTime) ELSE UNCHANGED its
            /\ UNCHANGED <<time64, clock, timer, tp>>
        <4>1. /\ Refuses("timer_exchange") /\ UNCHANGED tp
              /\ IF time64 THEN its' \in Settings(StackTime) ELSE UNCHANGED its
          BY <1>8, <2>1, <2>3 DEF TimerExchange
        <4>2. QED
          BY <4>1 DEF Refuses, Call, SET_ERRNO
      <3>2. its' \in Settings(ProgramTime)
        BY <1>1, <3>1, GivenTimes
      <3>3. QED
        BY <1>1, <3>1, <3>2 DEF ClocksTypeOK, TimesToldStep
    <2>4. QED
      BY <2>2, <2>3
  <1>9. CASE Prepare
    <2>1. /\ call'.ok /\ call'.fn = "none" /\ call'.ok \in BOOLEAN
          /\ UNCHANGED <<time64, clock, timer>>
      BY <1>9 DEF Prepare, Call
    <2>2. tp' \in ProgramTime /\ its' \in Settings(ProgramTime)
      BY <1>1, <1>9, GivenTimes DEF Prepare
    <2>3. QED
      BY <1>1, <2>1, <2>2 DEF ClocksTypeOK, TimesToldStep
  <1>10. CASE Tick
    <2>1. /\ call'.ok /\ call'.fn = "none" /\ call'.ok \in BOOLEAN
          /\ clock' = [clock EXCEPT !.sec = @ + 1]
          /\ timer' = IF timer.value = Zero THEN timer ELSE Elapsed(timer)
          /\ UNCHANGED <<time64, tp, its>>
      BY <1>10 DEF Tick, Call
    <2>2. clock' \in KernelTime
      BY <1>1, <2>1, SMT DEF KernelTime
    <2>3. Elapsed(timer) \in Settings(KernelTime)
      <3>1. /\ timer.value.sec \in Nat /\ timer.value.nsec \in Nat
            /\ timer.value \in KernelTime /\ timer.interval \in KernelTime
        BY <1>1 DEF Settings, KernelTime
      <3>2. CASE timer.value.sec > 1 \/ (timer.value.sec = 1 /\ timer.value.nsec > 0)
        <4>1. Timespec(timer.value.sec - 1, timer.value.nsec) \in KernelTime
          BY <3>1, <3>2, SMT DEF Timespec, KernelTime
        <4>2. QED
          BY <3>1, <3>2, <4>1 DEF Elapsed, Itimerspec, Settings
      <3>3. CASE ~(timer.value.sec > 1 \/ (timer.value.sec = 1 /\ timer.value.nsec > 0))
        BY <3>1, <3>3 DEF Elapsed, Itimerspec, Settings
      <3>4. QED
        BY <3>2, <3>3
    <2>4. QED
      BY <1>1, <2>1, <2>2, <2>3 DEF ClocksTypeOK, TimesToldStep
  <1>11. QED
    BY <1>2, <1>3, <1>4, <1>5, <1>6, <1>7, <1>8, <1>9, <1>10 DEF ClocksNext

LEMMA ClocksInvStep ==
  ClocksTypeOK /\ [ClocksNext]_<<clocksVars, errno>> => ClocksTypeOK' /\ [TimesToldStep]_clocksVars
  <1> SUFFICES ASSUME ClocksTypeOK, [ClocksNext]_<<clocksVars, errno>>
               PROVE  ClocksTypeOK' /\ [TimesToldStep]_clocksVars
    OBVIOUS
  <1>1. CASE ClocksNext
    BY <1>1, ClocksStep
  <1>2. CASE UNCHANGED <<clocksVars, errno>>
    BY <1>2 DEF clocksVars, ClocksTypeOK
  <1>3. QED
    BY <1>1, <1>2

\* The kernel's clock and timer are never set to a time that is none.
THEOREM ClocksTypes == ClocksSpec => []ClocksTypeOK
  BY ClocksTypeInit, ClocksInvStep, PTL DEF ClocksSpec

\* With times of the program and of the kernel of any width, every successful call reads
\* the clock and the timer as they are up to a multiple of the range of time_t and sets
\* them to what the program asked for; a refused call changes neither, and no call writes
\* a structure other than the one it was to fill.
THEOREM TimesAreTold == ClocksSpec => TimesTold
  BY ClocksTypeInit, ClocksInvStep, PTL DEF ClocksSpec, TimesTold

-----------------------------------------------------------------------------
(* Descriptors and the pointers made of them.                              *)

Of(h) == IF h.at < 0 THEN -1 - h.at ELSE h.at

\* With the descriptors t, the streams s and the numbers n are one for each that is open.
Means(t, s, n) ==
  /\ t = [fd \in Fd |-> t[fd]]
  /\ \A h \in s : h.at \in Int /\ h.at < 0
  /\ \A h \in n : h.at \in Int /\ h.at >= 0
  /\ \A h \in s \cup n : Of(h) \in Fd /\ h.of = t[Of(h)] /\ h.of # Closed
  /\ \A fd \in Fd : t[fd] # Closed => \E h \in s \cup n : Of(h) = fd
  /\ \A g, h \in s \cup n : Of(g) = Of(h) => g = h

FilesInv == Means(table, streams, numbers)

-----------------------------------------------------------------------------
(* Descriptors and pointers.                                               *)

\* A descriptor is a number the kernel counts from 0.
LEMMA FdNat == Fd \subseteq Nat
  BY FilesAssumption, SMT DEF Fd

\* There is a lowest one among descriptors.
LEMMA LowestIsOne ==
  ASSUME NEW fds \in SUBSET Fd, fds # {}
  PROVE  Lowest(fds) \in fds
  <1>1. fds \subseteq Nat
    BY FdNat
  <1>2. PICK fd \in fds : \A other \in fds : fd <= other
    BY <1>1, LowestNatural
  <1>3. QED
    BY <1>2 DEF Lowest

\* The two ways to hold a descriptor.
LEMMA HandleFacts ==
  ASSUME NEW fd \in Fd, NEW of
  PROVE  /\ Handle(FileOf(fd), of).at \in Int /\ Handle(FileOf(fd), of).at < 0
         /\ Of(Handle(FileOf(fd), of)) = fd /\ Handle(FileOf(fd), of).of = of
         /\ Handle(fd, of).at \in Int /\ Handle(fd, of).at >= 0
         /\ Of(Handle(fd, of)) = fd /\ Handle(fd, of).of = of
         /\ fileno(FileOf(fd)) = fd
  <1>1. fd \in Nat
    BY FdNat
  <1>2. FileOf(fd) \in Int /\ FileOf(fd) < 0 /\ -1 - FileOf(fd) = fd /\ fileno(FileOf(fd)) = fd
    BY <1>1, SMT DEF FileOf, fileno
  <1>3. /\ Handle(FileOf(fd), of).at = FileOf(fd) /\ Handle(FileOf(fd), of).of = of
        /\ Handle(fd, of).at = fd /\ Handle(fd, of).of = of
    BY DEF Handle
  <1>4. fd \in Int /\ fd >= 0 /\ ~(fd < 0)
    BY <1>1, SMT
  <1>5. QED
    BY <1>2, <1>3, <1>4 DEF Of

\* What is opened is never what is closed: open() always allows something.
LEMMA AccessNotEmpty ==
  ASSUME NEW flags \in {O_RDONLY, O_WRONLY, O_RDWR}, NEW name, NEW append
  PROVE  Open(name, Access(flags), append) # Closed
  <1>1. O_RDONLY # O_WRONLY /\ O_RDONLY # O_RDWR /\ O_WRONLY # O_RDWR
    BY SMT DEF O_RDONLY, O_WRONLY, O_RDWR
  <1>2. Access(flags) # {}
    BY <1>1 DEF Access
  <1>3. Open(name, Access(flags), append).access # Closed.access
    BY <1>2 DEF Open, Closed
  <1>4. QED
    BY <1>3

-----------------------------------------------------------------------------
(* What a call does to the handles.                                        *)

\* A free descriptor is opened, and held as a stream or as a number.
LEMMA MeansMore ==
  ASSUME NEW t, NEW s, NEW n, Means(t, s, n),
         NEW fd \in Fd, t[fd] = Closed, NEW of, of # Closed,
         NEW h, Of(h) = fd, h.of = of, h.at \in Int,
         NEW s2, NEW n2,
         \/ h.at < 0 /\ s2 = s \cup {h} /\ n2 = n
         \/ h.at >= 0 /\ s2 = s /\ n2 = n \cup {h}
  PROVE  Means([t EXCEPT ![fd] = of], s2, n2)
  <1> DEFINE u == [t EXCEPT ![fd] = of]
  <1>1. t = [d \in Fd |-> t[d]]
    BY DEF Means
  <1>2. u = [d \in Fd |-> IF d = fd THEN of ELSE t[d]]
    BY <1>1
  <1>3. s2 \cup n2 = s \cup n \cup {h}
    OBVIOUS
  <1> HIDE DEF u
  <1>4. \A g \in s \cup n : Of(g) \in Fd /\ Of(g) # fd /\ g.of = u[Of(g)] /\ g.of # Closed
    BY <1>2 DEF Means
  <1>5. u[fd] = of /\ \A d \in Fd : d # fd => u[d] = t[d]
    BY <1>2
  <1>6. u = [d \in Fd |-> u[d]]
    BY <1>2
  <1>7. \A g \in s2 : g.at \in Int /\ g.at < 0
    BY DEF Means
  <1>8. \A g \in n2 : g.at \in Int /\ g.at >= 0
    BY DEF Means
  <1>9. \A g \in s2 \cup n2 : Of(g) \in Fd /\ g.of = u[Of(g)] /\ g.of # Closed
    BY <1>3, <1>4, <1>5
  <1>10. \A d \in Fd : u[d] # Closed => \E g \in s2 \cup n2 : Of(g) = d
    BY <1>3, <1>5 DEF Means
  <1>11. \A f, g \in s2 \cup n2 : Of(f) = Of(g) => f = g
    BY <1>3, <1>4 DEF Means
  <1>12. QED
    BY <1>6, <1>7, <1>8, <1>9, <1>10, <1>11 DEF Means, u

\* A descriptor is closed, and what held it is dropped.
LEMMA MeansLess ==
  ASSUME NEW t, NEW s, NEW n, Means(t, s, n), NEW fd \in Fd
  PROVE  Means([t EXCEPT ![fd] = Closed], {h \in s : fileno(h.at) # fd}, {h \in n : h.at # fd})
  <1> DEFINE u  == [t EXCEPT ![fd] = Closed]
             s2 == {h \in s : fileno(h.at) # fd}
             n2 == {h \in n : h.at # fd}
  <1>1. t = [d \in Fd |-> t[d]]
    BY DEF Means
  <1>2. u = [d \in Fd |-> IF d = fd THEN Closed ELSE t[d]]
    BY <1>1
  <1>3. \A h \in s : fileno(h.at) = Of(h)
    <2> SUFFICES ASSUME NEW h \in s PROVE fileno(h.at) = Of(h)
      OBVIOUS
    <2>1. h.at \in Int /\ h.at < 0
      BY DEF Means
    <2>2. -h.at - 1 = -1 - h.at /\ ~(h.at >= 0)
      BY <2>1, SMT
    <2>3. QED
      BY <2>1, <2>2 DEF fileno, Of
  <1>4. \A h \in n : h.at = Of(h)
    <2> SUFFICES ASSUME NEW h \in n PROVE h.at = Of(h)
      OBVIOUS
    <2>1. h.at \in Int /\ h.at >= 0
      BY DEF Means
    <2>2. ~(h.at < 0)
      BY <2>1, SMT
    <2>3. QED
      BY <2>2 DEF Of
  <1>5. s2 \cup n2 = {h \in s \cup n : Of(h) # fd}
    BY <1>3, <1>4
  <1> HIDE DEF u
  <1>6. u = [d \in Fd |-> u[d]] /\ u[fd] = Closed /\ \A d \in Fd : d # fd => u[d] = t[d]
    BY <1>2
  <1>7. \A h \in s2 : h.at \in Int /\ h.at < 0
    BY DEF Means
  <1>8. \A h \in n2 : h.at \in Int /\ h.at >= 0
    BY DEF Means
  <1> HIDE DEF s2, n2
  <1>9. \A h \in s2 \cup n2 : Of(h) \in Fd /\ h.of = u[Of(h)] /\ h.of # Closed
    BY <1>5, <1>6 DEF Means
  <1>10. \A d \in Fd : u[d] # Closed => \E h \in s2 \cup n2 : Of(h) = d
    BY <1>5, <1>6 DEF Means
  <1>11. \A g, h \in s2 \cup n2 : Of(g) = Of(h) => g = h
    BY <1>5 DEF Means
  <1>12. QED
    BY <1>6, <1>7, <1>8, <1>9, <1>10, <1>11 DEF Means, u, s2, n2

\* A number becomes a stream.
LEMMA MeansStream ==
  ASSUME NEW t, NEW s, NEW n, Means(t, s, n), NEW m \in n
  PROVE  Means(t, s \cup {Handle(FileOf(m.at), m.of)}, n \ {m})
  <1> DEFINE h  == Handle(FileOf(m.at), m.of)
             s2 == s \cup {h}
             n2 == n \ {m}
  <1>1. m.at \in Int /\ m.at >= 0 /\ Of(m) \in Fd /\ m.of = t[Of(m)] /\ m.of # Closed
    BY DEF Means
  <1>2. Of(m) = m.at
    <2>1. ~(m.at < 0)
      BY <1>1, SMT
    <2>2. QED
      BY <2>1 DEF Of
  <1>3. h.at \in Int /\ h.at < 0 /\ Of(h) = Of(m) /\ h.of = m.of
    BY <1>1, <1>2, HandleFacts
  <1> HIDE DEF h
  <1>4. \A g \in s2 : g.at \in Int /\ g.at < 0
    BY <1>3 DEF Means
  <1>5. \A g \in n2 : g.at \in Int /\ g.at >= 0
    BY DEF Means
  <1>6. \A g \in (s2 \cup n2) \ {h} : g \in s \cup n /\ Of(g) # Of(m)
    <2> SUFFICES ASSUME NEW g \in (s2 \cup n2) \ {h} PROVE g \in s \cup n /\ Of(g) # Of(m)
      OBVIOUS
    <2>1. g \in s \cup n2
      OBVIOUS
    <2>2. g # m
      <3>1. g \in s => g.at < 0 /\ ~(m.at < 0)
        BY <1>1, SMT DEF Means
      <3>2. QED
        BY <2>1, <3>1
    <2>3. QED
      BY <2>1, <2>2 DEF Means
  <1>7. \A g \in s2 \cup n2 : Of(g) \in Fd /\ g.of = t[Of(g)] /\ g.of # Closed
    BY <1>1, <1>3, <1>6 DEF Means
  <1>8. \A d \in Fd : t[d] # Closed => \E g \in s2 \cup n2 : Of(g) = d
    <2> SUFFICES ASSUME NEW d \in Fd, t[d] # Closed PROVE \E g \in s2 \cup n2 : Of(g) = d
      OBVIOUS
    <2>1. PICK g \in s \cup n : Of(g) = d
      BY DEF Means
    <2>2. h \in s2 \cup n2 /\ (g # m => g \in s2 \cup n2)
      OBVIOUS
    <2>3. QED
      BY <1>3, <2>1, <2>2
  <1>9. \A f, g \in s2 \cup n2 : Of(f) = Of(g) => f = g
    BY <1>3, <1>6 DEF Means
  <1>10. QED
    BY <1>4, <1>5, <1>7, <1>8, <1>9 DEF Means, h

\* One descriptor takes the place of another, and what holds it stays where it is.
LEMMA MeansOther ==
  ASSUME NEW t, NEW s, NEW n, Means(t, s, n), NEW fd \in Fd, t[fd] # Closed, NEW of, of # Closed
  PROVE  Means([t EXCEPT ![fd] = of],
               {IF fileno(h.at) = fd THEN Handle(h.at, of) ELSE h : h \in s},
               {IF h.at = fd THEN Handle(fd, of) ELSE h : h \in n})
  <1> DEFINE u    == [t EXCEPT ![fd] = of]
             N(h) == IF Of(h) = fd THEN Handle(h.at, of) ELSE h
             s2   == {N(h) : h \in s}
             n2   == {N(h) : h \in n}
  <1>1. t = [d \in Fd |-> t[d]]
    BY DEF Means
  <1>2. u = [d \in Fd |-> IF d = fd THEN of ELSE t[d]]
    BY <1>1
  <1>3. \A h \in s : fileno(h.at) = Of(h)
    <2> SUFFICES ASSUME NEW h \in s PROVE fileno(h.at) = Of(h)
      OBVIOUS
    <2>1. h.at \in Int /\ h.at < 0
      BY DEF Means
    <2>2. -h.at - 1 = -1 - h.at /\ ~(h.at >= 0)
      BY <2>1, SMT
    <2>3. QED
      BY <2>1, <2>2 DEF fileno, Of
  <1>4. \A h \in n : h.at = Of(h)
    <2> SUFFICES ASSUME NEW h \in n PROVE h.at = Of(h)
      OBVIOUS
    <2>1. h.at \in Int /\ h.at >= 0
      BY DEF Means
    <2>2. ~(h.at < 0)
      BY <2>1, SMT
    <2>3. QED
      BY <2>2 DEF Of
  <1>5. /\ {IF fileno(h.at) = fd THEN Handle(h.at, of) ELSE h : h \in s} = s2
        /\ {IF h.at = fd THEN Handle(fd, of) ELSE h : h \in n} = n2
    <2>1. \A h \in s : (IF fileno(h.at) = fd THEN Handle(h.at, of) ELSE h) = N(h)
      BY <1>3
    <2>2. \A h \in n : (IF h.at = fd THEN Handle(fd, of) ELSE h) = N(h)
      BY <1>4
    <2> HIDE DEF N
    <2>3. QED
      BY <2>1, <2>2
  <1> HIDE DEF u
  <1>6. u = [d \in Fd |-> u[d]] /\ u[fd] = of /\ \A d \in Fd : d # fd => u[d] = t[d]
    BY <1>2
  <1>7. \A h : N(h).at = h.at /\ Of(N(h)) = Of(h) /\ (Of(h) # fd => N(h) = h) /\ (Of(h) = fd => N(h).of = of)
    BY DEF Handle, Of
  <1> HIDE DEF N
  <1>8. \A g \in s2 : \E h \in s : g = N(h)
    OBVIOUS
  <1>9. \A g \in n2 : \E h \in n : g = N(h)
    OBVIOUS
  <1>10. \A h \in s \cup n : N(h) \in s2 \cup n2
    OBVIOUS
  <1> HIDE DEF s2, n2
  <1>11. \A g \in s2 : g.at \in Int /\ g.at < 0
    BY <1>7, <1>8 DEF Means
  <1>12. \A g \in n2 : g.at \in Int /\ g.at >= 0
    BY <1>7, <1>9 DEF Means
  <1>13. \A g \in s2 \cup n2 : \E h \in s \cup n : g = N(h)
    BY <1>8, <1>9
  <1>14. \A h \in s \cup n : Of(N(h)) \in Fd /\ N(h).of = u[Of(N(h))] /\ N(h).of # Closed
    BY <1>6, <1>7 DEF Means
  <1>15. \A g \in s2 \cup n2 : Of(g) \in Fd /\ g.of = u[Of(g)] /\ g.of # Closed
    BY <1>13, <1>14
  <1>16. \A d \in Fd : u[d] # Closed => \E g \in s2 \cup n2 : Of(g) = d
    <2> SUFFICES ASSUME NEW d \in Fd, u[d] # Closed PROVE \E g \in s2 \cup n2 : Of(g) = d
      OBVIOUS
    <2>1. t[d] # Closed
      BY <1>6
    <2>2. PICK h \in s \cup n : Of(h) = d
      BY <2>1 DEF Means
    <2>3. QED
      BY <1>7, <1>10, <2>2
  <1>17. \A f, g \in s2 \cup n2 : Of(f) = Of(g) => f = g
    BY <1>7, <1>13 DEF Means
  <1>18. Means(u, s2, n2)
    BY <1>6, <1>11, <1>12, <1>15, <1>16, <1>17 DEF Means
  <1>19. QED
    BY <1>5, <1>18 DEF u

-----------------------------------------------------------------------------
(* The calls.                                                              *)

\* The standard streams a process starts with are one for each open descriptor.
LEMMA FilesInvInit == FilesInit => FilesInv
  <1> SUFFICES ASSUME FilesInit PROVE FilesInv
    OBVIOUS
  <1>1. PICK std \in SUBSET (Fd \cap 0 .. 2) :
          /\ table = [fd \in Fd |-> IF fd \in std THEN Terminal ELSE Closed]
          /\ streams = {Handle(FileOf(fd), Terminal) : fd \in std}
          /\ numbers = {}
    BY DEF FilesInit
  <1>2. Terminal # Closed
    <2>1. Terminal.name # Closed.name
      BY DEF Terminal, Closed, Open
    <2>2. QED
      BY <2>1
  <1>3. \A fd \in std : fd \in Fd
    OBVIOUS
  <1>4. \A fd \in std : LET h == Handle(FileOf(fd), Terminal)
                        IN  h.at \in Int /\ h.at < 0 /\ Of(h) = fd /\ h.of = Terminal
    BY <1>3, HandleFacts
  <1>5. \A h \in streams : \E fd \in std : h = Handle(FileOf(fd), Terminal)
    BY <1>1
  <1>6. \A fd \in std : Handle(FileOf(fd), Terminal) \in streams
    BY <1>1
  <1>7. /\ table = [fd \in Fd |-> table[fd]]
        /\ \A fd \in Fd : (fd \in std => table[fd] = Terminal) /\ (fd \notin std => table[fd] = Closed)
    BY <1>1
  <1>8. streams \cup numbers = streams
    BY <1>1
  <1>9. \A h \in streams : h.at \in Int /\ h.at < 0
    BY <1>4, <1>5
  <1>10. \A h \in streams : Of(h) \in Fd /\ h.of = table[Of(h)] /\ h.of # Closed
    BY <1>2, <1>3, <1>4, <1>5, <1>7
  <1>11. \A fd \in Fd : table[fd] # Closed => \E h \in streams : Of(h) = fd
    BY <1>4, <1>6, <1>7
  <1>12. \A g, h \in streams : Of(g) = Of(h) => g = h
    BY <1>4, <1>5
  <1>13. QED
    BY <1>1, <1>7, <1>8, <1>9, <1>10, <1>11, <1>12 DEF FilesInv, Means

\* A refused call leaves table and pointers as they were.
LEMMA FilesInvSame ==
  ASSUME FilesInv, UNCHANGED <<table, streams, numbers>>
  PROVE  FilesInv'
  BY DEF FilesInv

\* The kernel opens at a free descriptor, and the program keeps a stream of it.
LEMMA OpensStream ==
  ASSUME FilesInv, NEW name, NEW create, NEW append, NEW flags \in {O_RDONLY, O_WRONLY, O_RDWR}, Free # {},
         openat(name, flags, create, append),
         HasStream(FileOf(Lowest(Free)), Open(name, Access(flags), append))
  PROVE  FilesInv'
  <1> DEFINE fd == Lowest(Free)
             of == Open(name, Access(flags), append)
             h  == Handle(FileOf(fd), of)
  <1>1. fd \in Fd /\ table[fd] = Closed
    BY LowestIsOne DEF Free
  <1>2. of # Closed
    BY AccessNotEmpty
  <1>3. table' = [table EXCEPT ![fd] = of] /\ streams' = streams \cup {h} /\ numbers' = numbers
    BY DEF openat, HasStream
  <1> HIDE DEF fd, of
  <1>4. Of(h) = fd /\ h.of = of /\ h.at \in Int /\ h.at < 0
    BY <1>1, HandleFacts
  <1> HIDE DEF h
  <1>5. QED
    BY <1>1, <1>2, <1>3, <1>4, MeansMore DEF FilesInv

\* A free descriptor is opened, and the program keeps its number.
LEMMA HoldsNumber ==
  ASSUME FilesInv, NEW fd \in Free, NEW of, of # Closed,
         table' = [table EXCEPT ![fd] = of], HasNumber(fd, of)
  PROVE  FilesInv'
  <1> DEFINE h == Handle(fd, of)
  <1>1. fd \in Fd /\ table[fd] = Closed
    BY DEF Free
  <1>2. streams' = streams /\ numbers' = numbers \cup {h}
    BY DEF HasNumber
  <1>3. Of(h) = fd /\ h.of = of /\ h.at \in Int /\ h.at >= 0
    BY <1>1, HandleFacts
  <1> HIDE DEF h
  <1>4. QED
    BY <1>1, <1>2, <1>3, MeansMore DEF FilesInv

\* What the mode asks for is what the flags of open() allow.
LEMMA FilesInvFopen ==
  ASSUME FilesInv, NEW name, NEW mode, fopen(name, mode)
  PROVE  FilesInv'
  <1> DEFINE access == IF Plus(mode) THEN ReadWrite(ModeAccess(mode)) ELSE ModeAccess(mode)
             create == mode[1] # "r"
  <1>1. CASE mode = <<>> \/ mode[1] \notin {"r", "w", "a"} \/ CannotOpen(name, create)
    BY <1>1, FilesInvSame DEF fopen, Error, filesVars
  <1>2. CASE ~(mode = <<>> \/ mode[1] \notin {"r", "w", "a"}) /\ ~CannotOpen(name, create)
    <2>1. /\ openat(name, access, create, mode[1] = "a")
          /\ HasStream(FileOf(Lowest(Free)), Wanted(name, mode))
      BY <1>2 DEF fopen
    <2>2. access \in {O_RDONLY, O_WRONLY, O_RDWR}
      BY DEF ReadWrite, ModeAccess
    <2>3. O_RDONLY # O_WRONLY /\ O_RDONLY # O_RDWR /\ O_WRONLY # O_RDWR
      BY SMT DEF O_RDONLY, O_WRONLY, O_RDWR
    <2>4. Access(access) = IF Plus(mode) THEN {"read", "write"}
                           ELSE {IF mode[1] = "r" THEN "read" ELSE "write"}
      BY <2>3 DEF Access, ReadWrite, ModeAccess
    <2>5. Wanted(name, mode) = Open(name, Access(access), mode[1] = "a")
      BY <2>4 DEF Wanted
    <2>6. Free # {}
      BY <1>2 DEF CannotOpen
    <2> HIDE DEF access, create
    <2>7. QED
      BY <2>1, <2>2, <2>5, <2>6, OpensStream
  <1>3. QED
    BY <1>1, <1>2

LEMMA FilesInvOpendir ==
  ASSUME FilesInv, NEW name, opendir(name)
  PROVE  FilesInv'
  <1>1. CASE CannotOpen(name, FALSE)
    BY <1>1, FilesInvSame DEF opendir, Error, filesVars
  <1>2. CASE ~CannotOpen(name, FALSE)
    <2>1. openat(name, O_RDONLY, FALSE, FALSE) /\ HasStream(FileOf(Lowest(Free)), Open(name, {"read"}, FALSE))
      BY <1>2 DEF opendir
    <2>2. O_RDONLY # O_WRONLY /\ O_RDONLY # O_RDWR
      BY SMT DEF O_RDONLY, O_WRONLY, O_RDWR
    <2>3. Access(O_RDONLY) = {"read"} /\ Free # {}
      BY <1>2, <2>2 DEF Access, CannotOpen
    <2>4. QED
      BY <2>1, <2>3, OpensStream
  <1>3. QED
    BY <1>1, <1>2

LEMMA FilesInvOpen ==
  ASSUME FilesInv, NEW name, NEW create, open(name, create)
  PROVE  FilesInv'
  <1>1. CASE CannotOpen(name, create)
    BY <1>1, FilesInvSame DEF open, Error, filesVars
  <1>2. CASE ~CannotOpen(name, create)
    <2>1. /\ openat(name, O_RDWR, create, FALSE)
          /\ HasNumber(Lowest(Free), Open(name, {"read", "write"}, FALSE))
      BY <1>2 DEF open
    <2>2. O_RDONLY # O_RDWR /\ O_WRONLY # O_RDWR
      BY SMT DEF O_RDONLY, O_WRONLY, O_RDWR
    <2>3. Access(O_RDWR) = {"read", "write"} /\ Free # {}
      BY <1>2, <2>2 DEF Access, CannotOpen
    <2>4. Lowest(Free) \in Free
      BY <2>3, LowestIsOne DEF Free
    <2>5. Open(name, {"read", "write"}, FALSE) # Closed
      BY <2>3, AccessNotEmpty
    <2>6. table' = [table EXCEPT ![Lowest(Free)] = Open(name, {"read", "write"}, FALSE)]
      BY <2>1, <2>3 DEF openat
    <2>7. QED
      BY <2>1, <2>4, <2>5, <2>6, HoldsNumber
  <1>3. QED
    BY <1>1, <1>2

\* The number becomes a stream and is no number any more.
LEMMA FilesInvFdopen ==
  ASSUME FilesInv, NEW fd, fdopen(fd)
  PROVE  FilesInv'
  <1>1. CASE fd < 0
    BY <1>1, FilesInvSame DEF fdopen, Error, filesVars
  <1>2. CASE ~(fd < 0)
    <2>1. PICK m \in numbers :
            /\ m.at = fd
            /\ streams' = streams \cup {Handle(FileOf(fd), m.of)} /\ numbers' = numbers \ {m}
            /\ table' = table
      BY <1>2 DEF fdopen
    <2>2. QED
      BY <2>1, MeansStream DEF FilesInv
  <1>3. QED
    BY <1>1, <1>2

\* The two lowest free descriptors, one for each end.
LEMMA FilesInvPipe ==
  ASSUME FilesInv, pipe
  PROVE  FilesInv'
  <1> DEFINE in  == Lowest(Free)
             out == Lowest(Free \ {in})
             r   == Handle(in, PipeEnd("read"))
             w   == Handle(out, PipeEnd("write"))
             t   == [table EXCEPT ![in] = PipeEnd("read")]
  <1>1. CASE ~\E fd, other \in Free : fd # other
    BY <1>1, FilesInvSame DEF pipe, Error, filesVars
  <1>2. CASE \E fd, other \in Free : fd # other
    <2>1. /\ table' = [table EXCEPT ![in] = PipeEnd("read"), ![out] = PipeEnd("write")]
          /\ numbers' = numbers \cup {r, w} /\ streams' = streams
      BY <1>2 DEF pipe
    <2>2. in \in Free /\ out \in Free \ {in}
      BY <1>2, LowestIsOne DEF Free
    <2>3. PipeEnd("read") # Closed /\ PipeEnd("write") # Closed
      <3>1. PipeEnd("read").name # Closed.name /\ PipeEnd("write").name # Closed.name
        BY DEF PipeEnd, Closed, Open
      <3>2. QED
        BY <3>1
    <2>4. table = [fd \in Fd |-> table[fd]]
      BY DEF FilesInv, Means
    <2> HIDE DEF in, out
    <2>5. in \in Fd /\ out \in Fd /\ in # out /\ table[in] = Closed /\ t[out] = Closed
      BY <2>2, <2>4 DEF Free
    <2>6. /\ Of(r) = in /\ r.of = PipeEnd("read") /\ r.at \in Int /\ r.at >= 0
          /\ Of(w) = out /\ w.of = PipeEnd("write") /\ w.at \in Int /\ w.at >= 0
      BY <2>5, HandleFacts
    <2> HIDE DEF r, w
    <2>7. Means(t, streams, numbers \cup {r})
      BY <2>3, <2>5, <2>6, MeansMore DEF FilesInv
    <2>8. table' = [t EXCEPT ![out] = PipeEnd("write")]
      BY <2>1
    <2>9. numbers' = (numbers \cup {r}) \cup {w}
      BY <2>1
    <2> HIDE DEF t
    <2>10. Means([t EXCEPT ![out] = PipeEnd("write")], streams, (numbers \cup {r}) \cup {w})
      BY <2>3, <2>5, <2>6, <2>7, MeansMore
    <2>11. QED
      BY <2>1, <2>8, <2>9, <2>10 DEF FilesInv
  <1>3. QED
    BY <1>1, <1>2

LEMMA FilesInvClose ==
  ASSUME FilesInv, NEW fd, close(fd)
  PROVE  FilesInv'
  <1>1. CASE fd \notin Fd \ Free
    BY <1>1, FilesInvSame DEF close, Error, filesVars
  <1>2. CASE fd \in Fd \ Free
    <2>1. Means([table EXCEPT ![fd] = Closed],
                {h \in streams : fileno(h.at) # fd}, {h \in numbers : h.at # fd})
      BY <1>2, MeansLess DEF FilesInv
    <2>2. /\ table' = [table EXCEPT ![fd] = Closed]
          /\ streams' = {h \in streams : fileno(h.at) # fd}
          /\ numbers' = {h \in numbers : h.at # fd}
      BY <1>2 DEF close
    <2>3. QED
      BY <2>1, <2>2 DEF FilesInv
  <1>3. QED
    BY <1>1, <1>2

LEMMA FilesInvDup ==
  ASSUME FilesInv, NEW fd, dup(fd)
  PROVE  FilesInv'
  <1>1. CASE fd \notin Fd \ Free \/ Free = {}
    BY <1>1, FilesInvSame DEF dup, Error, filesVars
  <1>2. CASE fd \in Fd \ Free /\ Free # {}
    <2>1. table' = [table EXCEPT ![Lowest(Free)] = table[fd]] /\ HasNumber(Lowest(Free), table[fd])
      BY <1>2 DEF dup
    <2>2. Lowest(Free) \in Free /\ table[fd] # Closed
      BY <1>2, LowestIsOne DEF Free
    <2>3. QED
      BY <2>1, <2>2, HoldsNumber
  <1>3. QED
    BY <1>1, <1>2

\* An open descriptor is replaced where it is, a closed one is opened.
LEMMA FilesInvDup2 ==
  ASSUME FilesInv, NEW old, NEW new, dup2(old, new)
  PROVE  FilesInv'
  <1>1. CASE old = new \/ old \notin Fd \ Free \/ new \notin Fd
    BY <1>1, FilesInvSame DEF dup2, Error, filesVars
  <1>2. CASE old # new /\ old \in Fd \ Free /\ new \in Fd
    <2> DEFINE of == table[old]
               s2 == {IF fileno(h.at) = new THEN Handle(h.at, of) ELSE h : h \in streams}
               n2 == {IF h.at = new THEN Handle(new, of) ELSE h : h \in numbers}
    <2>1. /\ table' = [table EXCEPT ![new] = of] /\ streams' = s2
          /\ numbers' = n2 \cup (IF new \in Free THEN {Handle(new, of)} ELSE {})
      BY <1>2 DEF dup2, Redirects
    <2>2. of # Closed
      BY <1>2 DEF Free
    <2>3. CASE new \notin Free
      <3>1. table[new] # Closed
        BY <1>2, <2>3 DEF Free
      <3>2. numbers' = n2
        BY <2>1, <2>3
      <3> HIDE DEF of
      <3>3. Means([table EXCEPT ![new] = of], s2, n2)
        BY <1>2, <2>2, <3>1, MeansOther DEF FilesInv
      <3>4. QED
        BY <2>1, <3>2, <3>3 DEF FilesInv
    <2>4. CASE new \in Free
      <3>1. \A h \in streams : fileno(h.at) # new
        <4> SUFFICES ASSUME NEW h \in streams PROVE fileno(h.at) # new
          OBVIOUS
        <4>1. h.at \in Int /\ h.at < 0 /\ Of(h) # new
          BY <2>4 DEF FilesInv, Means, Free
        <4>2. -h.at - 1 = -1 - h.at /\ ~(h.at >= 0)
          BY <4>1, SMT
        <4>3. QED
          BY <4>1, <4>2 DEF fileno, Of
      <3>2. \A h \in numbers : h.at # new
        <4> SUFFICES ASSUME NEW h \in numbers PROVE h.at # new
          OBVIOUS
        <4>1. h.at \in Int /\ h.at >= 0 /\ Of(h) # new
          BY <2>4 DEF FilesInv, Means, Free
        <4>2. ~(h.at < 0)
          BY <4>1, SMT
        <4>3. QED
          BY <4>1, <4>2 DEF Of
      <3>3. s2 = streams
        BY <3>1
      <3>4. n2 = numbers
        BY <3>2
      <3>5. HasNumber(new, of)
        BY <2>1, <2>4, <3>3, <3>4 DEF HasNumber
      <3>6. QED
        BY <2>1, <2>2, <2>4, <3>5, HoldsNumber
    <2>5. QED
      BY <2>3, <2>4
  <1>3. QED
    BY <1>1, <1>2

\* Every call, one by one.
LEMMA FilesInvNext == FilesInv /\ [FilesNext]_<<filesVars, errno>> => FilesInv'
  <1> SUFFICES ASSUME FilesInv, [FilesNext]_<<filesVars, errno>> PROVE FilesInv'
    OBVIOUS
  <1>1. CASE \E name \in FileName, mode \in StreamMode : fopen(name, mode)
    BY <1>1, FilesInvFopen
  <1>2. CASE \E name \in FileName : opendir(name)
    BY <1>2, FilesInvOpendir
  <1>3. CASE \E name \in FileName, create \in BOOLEAN : open(name, create)
    BY <1>3, FilesInvOpen
  <1>4. CASE \E fd \in Fd \cup {-1} : fdopen(fd)
    BY <1>4, FilesInvFdopen
  <1>5. CASE pipe
    BY <1>5, FilesInvPipe
  <1>6. CASE \E fd \in AnyFd : close(fd) \/ dup(fd)
    BY <1>6, FilesInvClose, FilesInvDup
  <1>7. CASE \E old, new \in AnyFd : dup2(old, new)
    BY <1>7, FilesInvDup2
  <1>8. CASE \E stream \in Wild \cup {Null} \cup {FileOf(fd) : fd \in Fd} : fclose(stream) \/ fflush(stream)
    <2>1. PICK stream : fclose(stream) \/ fflush(stream)
      BY <1>8
    <2>2. CASE Error(EBADF)
      BY <2>2, FilesInvSame DEF Error, filesVars
    <2>3. CASE close(fileno(stream))
      BY <2>3, FilesInvClose
    <2>4. QED
      BY <2>1, <2>2, <2>3 DEF fclose, fflush, BadStream
  <1>9. CASE UNCHANGED <<filesVars, errno>>
    BY <1>9, FilesInvSame DEF filesVars
  <1>10. QED
    BY <1>1, <1>2, <1>3, <1>4, <1>5, <1>6, <1>7, <1>8, <1>9 DEF FilesNext

\* The invariant says the property and that no descriptor is held twice.
LEMMA FilesInvMeans == FilesInv => HandlesMeanFiles
  BY DEF FilesInv, Means, HandlesMeanFiles, Of, Free

\* For any number of descriptors, any names and any modes, and a program that starts
\* with any of the standard streams: the pointers that fopen(), fdopen() and opendir()
\* make and the numbers of open(), dup(), dup2() and pipe() are one for each open
\* descriptor, open on what it was opened for.
THEOREM PointersMeanFiles == FilesSpec => []HandlesMeanFiles
  BY FilesInvInit, FilesInvNext, FilesInvMeans, PTL DEF FilesSpec

-----------------------------------------------------------------------------
(* Children.                                                               *)

\* What the kernel holds of a child: the low byte of what it gave to exit(), the
\* signal that killed it, or the one that stopped it.
Reportable(change) ==
  \/ change.code = "CLD_EXITED" /\ change.status \in 0 .. 255
  \/ change.code \in {"CLD_KILLED", "CLD_DUMPED"} /\ change.status \in 1 .. 64
  \/ change.code = "CLD_STOPPED" /\ change.status = SIGSTOP
  \/ change.code = "CLD_CONTINUED"

WaitInv ==
  /\ pending = [c \in Child |-> pending[c]]
  /\ \A c \in Child : pending[c] = Quiet \/ Reportable(pending[c])
  /\ StatusIsKernels

-----------------------------------------------------------------------------
(* The status.                                                             *)

\* Status() rebuilds the word of wait4(), and the macros find in it what Status() put.
LEMMA StatusFacts ==
  ASSUME NEW info, Reportable(info)
  PROVE  /\ Status(info) = KernelStatus(info)
         /\ WIFEXITED(Status(info)) <=> info.code = "CLD_EXITED"
         /\ WIFEXITED(Status(info)) => WEXITSTATUS(Status(info)) = info.status
         /\ info.code \in {"CLD_KILLED", "CLD_DUMPED"} =>
              WIFSIGNALED(Status(info)) /\ WTERMSIG(Status(info)) = info.status
  <1> USE DEF WIFEXITED, WEXITSTATUS, WIFSIGNALED, WTERMSIG
  <1>1. CASE info.code = "CLD_EXITED" /\ info.status \in 0 .. 255
    <2>1. Status(info) = (info.status % 256) * 256 /\ KernelStatus(info) = info.status * 256
      BY <1>1 DEF Status, KernelStatus
    <2>2. info.status % 256 = info.status
      BY <1>1, SMT
    <2>3. /\ (info.status * 256) % 128 = 0
          /\ ((info.status * 256) \div 256) % 256 = info.status
      BY <1>1, SMT
    <2>4. QED
      BY <1>1, <2>1, <2>2, <2>3
  <1>2. CASE info.code = "CLD_KILLED" /\ info.status \in 1 .. 64
    <2>1. Status(info) = info.status % 128 /\ KernelStatus(info) = info.status
      BY <1>2 DEF Status, KernelStatus
    <2>2. info.status % 128 = info.status /\ info.status # 0 /\ info.status - 1 < 255
      BY <1>2, SMT
    <2>3. QED
      BY <1>2, <2>1, <2>2
  <1>3. CASE info.code = "CLD_DUMPED" /\ info.status \in 1 .. 64
    <2>1. Status(info) = (info.status % 128) + 128 /\ KernelStatus(info) = 128 + info.status
      BY <1>3 DEF Status, KernelStatus
    <2>2. /\ info.status % 128 = info.status /\ info.status # 0
          /\ info.status + 128 = 128 + info.status
          /\ (info.status + 128) % 128 = info.status /\ info.status + 128 - 1 < 255
      BY <1>3, SMT
    <2>3. QED
      BY <1>3, <2>1, <2>2
  <1>4. CASE info.code = "CLD_STOPPED" /\ info.status = SIGSTOP
    <2>1. Status(info) = info.status * 256 + 127 /\ KernelStatus(info) = info.status * 256 + 127
      BY <1>4 DEF Status, KernelStatus
    <2>2. (SIGSTOP * 256 + 127) % 128 # 0
      BY SMT DEF SIGSTOP
    <2>3. QED
      BY <1>4, <2>1, <2>2
  <1>5. CASE info.code = "CLD_CONTINUED"
    <2>1. Status(info) = 65535 /\ KernelStatus(info) = 65535
      BY <1>5 DEF Status, KernelStatus
    <2>2. 65535 % 128 # 0
      BY SMT
    <2>3. QED
      BY <1>5, <2>1, <2>2
  <1>6. QED
    BY <1>1, <1>2, <1>3, <1>4, <1>5 DEF Reportable

LEMMA WaitInvInit == WaitInit => WaitInv
  <1> SUFFICES ASSUME WaitInit PROVE WaitInv
    OBVIOUS
  <1>1. pending = [c \in Child |-> Quiet] /\ got.pid = -1
    BY DEF WaitInit
  <1>2. StatusIsKernels
    BY <1>1, SMT DEF StatusIsKernels
  <1>3. QED
    BY <1>1, <1>2 DEF WaitInv

\* A child changes its state.
LEMMA BecomesStep ==
  ASSUME WaitInv, NEW c \in Child, NEW state, NEW change, Reportable(change),
         Becomes(c, state, change)
  PROVE  WaitInv'
  <1>1. pending' = [pending EXCEPT ![c] = change] /\ got' = got
    BY DEF Becomes
  <1>2. StatusIsKernels'
    BY <1>1 DEF WaitInv, StatusIsKernels
  <1>3. QED
    BY <1>1, <1>2 DEF WaitInv

LEMMA ChildStep ==
  ASSUME WaitInv, NEW c \in Child,
         \/ \E arg \in ExitStatus : Exited(c, arg)
         \/ \E sig \in FatalSignal : Killed(c, sig)
         \/ Stopped(c)
         \/ Continued(c)
  PROVE  WaitInv'
  <1>1. ASSUME NEW arg \in ExitStatus, Exited(c, arg) PROVE WaitInv'
    <2>1. arg % 256 \in 0 .. 255
      BY WaitAssumption, SMT
    <2>2. Reportable([code |-> "CLD_EXITED", status |-> arg % 256])
      BY <2>1 DEF Reportable
    <2>3. QED
      BY <1>1, <2>2, BecomesStep DEF Exited
  <1>2. ASSUME NEW sig \in FatalSignal, Killed(c, sig) PROVE WaitInv'
    <2>1. PICK code \in {"CLD_KILLED", "CLD_DUMPED"} :
            Becomes(c, "zombie", [code |-> code, status |-> sig])
      BY <1>2 DEF Killed
    <2>2. sig \in 1 .. 64
      BY WaitAssumption
    <2>3. Reportable([code |-> code, status |-> sig])
      BY <2>2 DEF Reportable
    <2>4. QED
      BY <2>1, <2>3, BecomesStep
  <1>3. CASE Stopped(c)
    <2>1. Reportable([code |-> "CLD_STOPPED", status |-> SIGSTOP])
      BY DEF Reportable
    <2>2. QED
      BY <1>3, <2>1, BecomesStep DEF Stopped
  <1>4. CASE Continued(c)
    <2>1. Reportable([code |-> "CLD_CONTINUED", status |-> SIGCONT])
      BY DEF Reportable
    <2>2. QED
      BY <1>4, <2>1, BecomesStep DEF Continued
  <1>5. QED
    BY <1>1, <1>2, <1>3, <1>4

\* waitpid() reports what the child has pending, or no child.
LEMMA WaitpidStep ==
  ASSUME WaitInv, NEW pid, NEW options, Waitpid(pid, options)
  PROVE  WaitInv'
  <1>1. ASSUME NEW c \in Child, WaitpidReports(pid, options, c) PROVE WaitInv'
    <2>1. /\ pending' = [pending EXCEPT ![c] = Quiet]
          /\ got'.pid = c /\ got'.status = Status(pending[c]) /\ got'.info = pending[c]
      BY <1>1 DEF WaitpidReports, Reaps, Returns
    <2>2. pending[c].code \in Asked(options)
      BY <1>1 DEF WaitpidReports, Reporting
    <2>3. pending[c] # Quiet
      BY <2>2 DEF Asked, Quiet
    <2>4. Reportable(pending[c])
      BY <2>3 DEF WaitInv
    <2>5. StatusIsKernels'
      BY <2>1, <2>4, StatusFacts DEF StatusIsKernels
    <2>6. QED
      BY <2>1, <2>5 DEF WaitInv
  <1>2. ASSUME got'.pid \in {-1, 0}, pending' = pending PROVE WaitInv'
    <2>1. ~(got'.pid > 0)
      BY <1>2, SMT
    <2>2. QED
      BY <1>2, <2>1 DEF WaitInv, StatusIsKernels
  <1>3. CASE WaitpidNothing(pid, options)
    BY <1>2, <1>3 DEF WaitpidNothing, Returns
  <1>4. CASE WaitpidNoChild(pid) \/ WaitpidInterrupted(pid, options) \/ WaitpidIntMin(pid)
    BY <1>2, <1>4 DEF WaitpidNoChild, WaitpidInterrupted, WaitpidIntMin, WaitpidFails, Returns
  <1>5. QED
    BY <1>1, <1>3, <1>4 DEF Waitpid

LEMMA WaitInvNext == WaitInv /\ [WaitNext]_<<waitVars, errno>> => WaitInv'
  <1> SUFFICES ASSUME WaitInv, [WaitNext]_<<waitVars, errno>> PROVE WaitInv'
    OBVIOUS
  <1>1. ASSUME UNCHANGED <<pending, got>> PROVE WaitInv'
    BY <1>1 DEF WaitInv, StatusIsKernels
  <1>2. ASSUME NEW c \in Child, Fork(c) \/ \E g \in {c, ParentPid} : Setpgid(c, g)
        PROVE  WaitInv'
    BY <1>1, <1>2 DEF Fork, Setpgid
  <1>3. ASSUME NEW pid \in Pid, NEW options \in Options, Waitpid(pid, options) PROVE WaitInv'
    BY <1>3, WaitpidStep
  <1>4. CASE UNCHANGED <<waitVars, errno>>
    BY <1>1, <1>4 DEF waitVars
  <1>5. QED
    BY <1>2, <1>3, <1>4, ChildStep DEF WaitNext

\* For any exit code, any signal and any options: the status that waitpid() puts
\* together from a siginfo is the status word of wait4(), and WIFEXITED(),
\* WEXITSTATUS(), WIFSIGNALED() and WTERMSIG() tell how the child ended.
THEOREM StatusIsThatOfWait4 == WaitSpec => []StatusIsKernels
  <1>1. WaitInv => StatusIsKernels
    BY DEF WaitInv
  <1>2. QED
    BY <1>1, WaitInvInit, WaitInvNext, PTL DEF WaitSpec

-----------------------------------------------------------------------------
(* The child.                                                              *)

\* The type and the id that waitpid() passes to waitid() are those of the children pid
\* means.
LEMMA ConsideredAreSelected ==
  ASSUME NEW pid \in Int, NEW c \in Child
  PROVE  c \in Considered(IdType(pid))
           <=> proc[c] \notin {"none", "reaped"} /\ Selects(pid, c)
  <1>1. CASE pid < -1
    <2>1. IdType(pid) = <<"P_PGID", -pid>> /\ -pid # 0 /\ pid # -1 /\ pid # 0 /\ ~(pid > 0)
      BY <1>1, SMT DEF IdType
    <2>2. QED
      BY <2>1 DEF Considered, Selects
  <1>2. CASE pid = -1
    BY <1>2, SMT DEF IdType, Considered, Selects
  <1>3. CASE pid = 0
    BY <1>3, SMT DEF IdType, Considered, Selects
  <1>4. CASE pid > 0
    <2>1. IdType(pid) = <<"P_PID", pid>> /\ pid # -1 /\ pid # 0
      BY <1>4, SMT DEF IdType
    <2>2. QED
      BY <1>4, <2>1 DEF Considered, Selects
  <1>5. QED
    BY <1>1, <1>2, <1>3, <1>4, SMT

\* For any children and groups, and every pid an int can hold: waitpid() reports a
\* child that pid selects at that moment, and ECHILD only when it selects none.
THEOREM ReportsSelectedChild == WaitSpec => SelectedChild
  <1> DEFINE Sound ==
        got' # got =>
          /\ got'.pid > 0 => Selects(got'.asked, got'.pid)
          /\ errno' = ECHILD /\ got'.pid = -1 =>
               \A c \in Child : proc[c] \notin {"none", "reaped"} => ~Selects(got'.asked, c)
  <1>1. ASSUME NEW pid \in Pid, NEW options, Waitpid(pid, options) PROVE Sound
    <2>1. pid \in Int
      BY WaitAssumption, SMT DEF Pid, Group
    <2>2. ASSUME NEW c \in Child, WaitpidReports(pid, options, c) PROVE Sound
      <3>1. got'.asked = pid /\ got'.pid = c /\ c \in Considered(IdType(pid))
        BY <2>2 DEF WaitpidReports, Returns, Reporting
      <3>2. c # -1
        BY WaitAssumption, SMT
      <3>3. Selects(pid, c)
        BY <2>1, <3>1, ConsideredAreSelected
      <3>4. QED
        BY <3>1, <3>2, <3>3
    <2>3. CASE WaitpidNothing(pid, options)
      <3>1. got'.pid = 0
        BY <2>3 DEF WaitpidNothing, Returns
      <3>2. ~(got'.pid > 0) /\ got'.pid # -1
        BY <3>1, SMT
      <3>3. QED
        BY <3>2
    <2>4. ASSUME got'.pid = -1, errno' # ECHILD PROVE Sound
      <3>1. ~(got'.pid > 0)
        BY <2>4, SMT
      <3>2. QED
        BY <2>4, <3>1
    <2>5. CASE WaitpidNoChild(pid)
      <3>1. got'.asked = pid /\ got'.pid = -1 /\ Considered(IdType(pid)) = {}
        BY <2>5 DEF WaitpidNoChild, WaitpidFails, Returns
      <3>2. ~(got'.pid > 0)
        BY <3>1, SMT
      <3>3. QED
        BY <2>1, <3>1, <3>2, ConsideredAreSelected
    <2>6. CASE WaitpidInterrupted(pid, options) \/ WaitpidIntMin(pid)
      <3>1. errno' \in {EINTR, ESRCH} /\ got'.pid = -1
        BY <2>6 DEF WaitpidInterrupted, WaitpidIntMin, WaitpidFails, Returns, SET_ERRNO
      <3>2. QED
        BY <2>4, <3>1, SMT DEF EINTR, ESRCH, ECHILD
    <2>7. QED
      BY <1>1, <2>2, <2>3, <2>5, <2>6 DEF Waitpid
  <1>2. ASSUME NEW c \in Child,
               \/ Fork(c) \/ Stopped(c) \/ Continued(c)
               \/ \E g \in {c, ParentPid} : Setpgid(c, g)
               \/ \E arg \in ExitStatus : Exited(c, arg)
               \/ \E sig \in FatalSignal : Killed(c, sig)
        PROVE  got' = got
    BY <1>2 DEF Fork, Stopped, Continued, Setpgid, Exited, Killed, Becomes
  <1>3. WaitNext => Sound
    BY <1>1, <1>2 DEF WaitNext
  <1>4. [WaitNext]_<<waitVars, errno>> => [Sound]_<<waitVars, errno>>
    BY <1>3
  <1>5. QED
    BY <1>4, PTL DEF WaitSpec, SelectedChild
=============================================================================
