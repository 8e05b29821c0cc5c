-------------------------- MODULE DescriptorProofs --------------------------
(* Proofs about what works on a descriptor: the DIR of a directory stream and  *)
(* the FILE of a stream, both shared by processes.                             *)
EXTENDS Dirent, Streams, SequenceTheorems, TLAPS

-----------------------------------------------------------------------------
(* Directory streams, for any number of processes, streams and entries and any *)
(* batches: with no d_off that looks like a failed lseek(), calls that do not  *)
(* overlap return each entry once.                                             *)

\* p is between the two system calls of a readdir_r() on d.
Inside(p, d) == p \in running /\ call[p] # NoCall /\ fds[p][call[p].fd] = d

\* A call that was begun is on a stream that is open.
CallsAreOpen ==
  \A p \in Process : call[p] # NoCall => /\ p \in running
                                         /\ call[p].fd \in Fd
                                         /\ fds[p][call[p].fd] \in Desc

First(n) == [i \in 1 .. n |-> i]

\* At most one process is inside a call on d, and it has the entry behind those that
\* were returned; with none inside, the offset is behind them.
Ordered(d) ==
  /\ \A p, q \in Process : Inside(p, d) /\ Inside(q, d) => p = q
  /\ \A p \in Process : Inside(p, d) => returned[d] = First(call[p].entry - 1)
  /\ (\A p \in Process : ~Inside(p, d)) => returned[d] = First(pos[d])

DirentInv ==
  /\ DirentTypeOK
  /\ CallsAreOpen
  /\ \A d \in Desc : InUse(d) /\ torn[d] = FALSE => Ordered(d)

-----------------------------------------------------------------------------
(* Types.                                                                  *)

LEMMA ACallIsNotNoCall ==
  \A fd \in Fd : \A entry : [fd |-> fd, entry |-> entry] # NoCall
  <1> SUFFICES ASSUME NEW fd \in Fd, NEW entry PROVE [fd |-> fd, entry |-> entry] # NoCall
    OBVIOUS
  <1>1. fd # -1
    BY DirentAssumption, SMT DEF Fd
  <1>2. [fd |-> fd, entry |-> entry].fd # NoCall.fd
    BY <1>1 DEF NoCall
  <1>3. QED
    BY <1>2

\* A call in progress is a descriptor and an entry.
LEMMA CallType ==
  ASSUME DirentTypeOK, NEW p \in Process, call[p] # NoCall
  PROVE  call[p].fd \in Fd /\ call[p].entry \in Entry
  BY DEF DirentTypeOK

LEMMA DirentInitTypes == DirentInit => DirentTypeOK
  <1> SUFFICES ASSUME DirentInit PROVE DirentTypeOK
    OBVIOUS
  <1>1. 0 \in 0 .. NEntries /\ 0 \in 0 .. MaxDirErrors
    BY DirentAssumption, SMT
  <1>2. [d \in Desc |-> <<>>] \in [Desc -> Seq(Entry)]
    OBVIOUS
  <1>3. QED
    BY <1>1, <1>2, DirentAssumption DEF DirentInit, DirentTypeOK, Errno

LEMMA DirentNextTypes == DirentTypeOK /\ [DirentNext]_direntVars => DirentTypeOK'
  <1> SUFFICES ASSUME DirentTypeOK, [DirentNext]_direntVars PROVE DirentTypeOK'
    OBVIOUS
  <1> USE DirentAssumption
  <1>1. ASSUME NEW p \in Process, Opendir(p) PROVE DirentTypeOK'
    <2>1. CASE OpendirFails(p)
      BY <2>1 DEF OpendirFails, SetErrno, DirentTypeOK, Errno
    <2>2. ASSUME NEW fd \in Fd, NEW d \in Desc, OpendirAt(p, fd, d) PROVE DirentTypeOK'
      <3>1. 0 \in 0 .. NEntries
        BY SMT
      <3>2. fds' = [fds EXCEPT ![p][fd] = d] /\ fds' \in [Process -> [Fd -> Desc \cup {Closed}]]
        BY <2>2 DEF OpendirAt, DirentTypeOK
      <3>3. pos' \in [Desc -> 0 .. NEntries] /\ torn' \in [Desc -> BOOLEAN]
        BY <2>2, <3>1 DEF OpendirAt, DirentTypeOK
      <3>4. returned' \in [Desc -> Seq(Entry)]
        BY <2>2 DEF OpendirAt, DirentTypeOK
      <3>5. QED
        BY <2>2, <3>2, <3>3, <3>4 DEF OpendirAt, DirentTypeOK
    <2>3. QED
      BY <1>1, <2>1, <2>2 DEF Opendir
  <1>2. ASSUME NEW p \in Process, Fdopendir(p, -1) PROVE DirentTypeOK'
    BY <1>2 DEF Fdopendir, SetErrno, DirentTypeOK, Errno
  <1>3. ASSUME NEW p \in Process, NEW dirp \in Dirp, Closedir(p, dirp) PROVE DirentTypeOK'
    <2>1. CASE NotOpen(p, dirp)
      BY <1>3, <2>1 DEF Closedir, SetErrno, DirentTypeOK, Errno
    <2>2. CASE ~NotOpen(p, dirp)
      <3>1. fds' = [fds EXCEPT ![p][Complement(dirp)] = Closed] /\ errno' = errno
        BY <1>3, <2>2 DEF Closedir
      <3>2. fds' \in [Process -> [Fd -> Desc \cup {Closed}]]
        BY <3>1 DEF DirentTypeOK
      <3>3. QED
        BY <1>3, <3>1, <3>2 DEF Closedir, DirentTypeOK
    <2>3. QED
      BY <2>1, <2>2
  <1>4. ASSUME NEW p \in Process, NEW dirp \in Dirp, Readdir(p, dirp) PROVE DirentTypeOK'
    <2>1. CASE ReaddirBadDir(p, dirp)
      BY <2>1 DEF ReaddirBadDir, Returns, DirentTypeOK, Errno, Unset
    <2>2. CASE GetdentsFails(p)
      <3>1. dirErrors' \in 0 .. MaxDirErrors
        BY <2>2, SMT DEF GetdentsFails, DirentTypeOK
      <3>2. QED
        BY <2>2, <3>1 DEF GetdentsFails, Returns, DirentTypeOK, Errno, Unset
    <2>3. ASSUME NEW d, ReaddirEnd(p, d) PROVE DirentTypeOK'
      BY <2>3 DEF ReaddirEnd, Returns, DirentTypeOK, Errno, Null
    <2>4. ASSUME ~NotOpen(p, dirp), NEW n \in 1 .. Batch, Getdents(p, Complement(dirp), n)
          PROVE  DirentTypeOK'
      <3> DEFINE fd == Complement(dirp)
                 d  == fds[p][fd]
      <3>1. fd \in Fd /\ d # Closed
        BY <2>4, SMT DEF NotOpen, Dirp, Complement, Fd
      <3>2. d \in Desc /\ pos[d] \in 0 .. NEntries
        BY <3>1 DEF DirentTypeOK
      <3> HIDE DEF fd, d
      <3>3. pos[d] + n <= NEntries /\ call' = [call EXCEPT ![p] = [fd |-> fd, entry |-> pos[d] + 1]]
            /\ pos' = [pos EXCEPT ![d] = @ + n] /\ torn' = [torn EXCEPT ![d] = @ \/ Busy(p, d)]
            /\ UNCHANGED <<running, fds, errno, ret, dirErrors, returned>>
        BY <2>4 DEF Getdents, fd, d
      <3>4. pos[d] + 1 \in Entry /\ pos[d] + n \in 0 .. NEntries
        BY <3>2, <3>3, SMT DEF Entry
      <3>5. call' \in [Process -> [fd : Fd, entry : Entry] \cup {NoCall}]
        BY <3>1, <3>3, <3>4 DEF DirentTypeOK
      <3>6. pos' \in [Desc -> 0 .. NEntries]
        BY <3>2, <3>3, <3>4 DEF DirentTypeOK
      <3>7. torn' \in [Desc -> BOOLEAN]
        BY <3>2, <3>3 DEF DirentTypeOK
      <3>8. QED
        BY <3>3, <3>5, <3>6, <3>7 DEF DirentTypeOK
    <2>5. QED
      BY <1>4, <2>1, <2>2, <2>3, <2>4 DEF Readdir
  <1>5. ASSUME NEW p \in Process, ReaddirSeek(p) PROVE DirentTypeOK'
    <2>1. call[p].fd \in Fd /\ call[p].entry \in Entry
      BY <1>5, CallType DEF ReaddirSeek
    <2>2. /\ call' = [call EXCEPT ![p] = NoCall]
          /\ call' \in [Process -> [fd : Fd, entry : Entry] \cup {NoCall}]
      BY <1>5 DEF ReaddirSeek, SeekBack, SeekFails, DirentTypeOK
    <2>3. CASE SeekBack(p)
      <3> DEFINE d == fds[p][call[p].fd]
                 e == call[p].entry
      <3>1. e \in 0 .. NEntries
        BY <2>1, SMT DEF Entry
      <3>2. pos' \in [Desc -> 0 .. NEntries]
        BY <2>3, <3>1 DEF SeekBack, DirentTypeOK
      <3>3. \A s \in Seq(Entry) : Append(s, e) \in Seq(Entry)
        BY <2>1
      <3>4. returned' \in [Desc -> Seq(Entry)]
        <4> DEFINE next == IF torn[d] THEN <<>> ELSE Append(returned[d], e)
        <4>1. returned' = returned \/ returned' = [returned EXCEPT ![d] = next]
          BY <2>3 DEF SeekBack
        <4>2. d \in Desc => next \in Seq(Entry)
          BY <3>3 DEF DirentTypeOK
        <4> HIDE DEF next, d
        <4>3. returned \in [Desc -> Seq(Entry)]
          BY DEF DirentTypeOK
        <4>4. QED
          BY <4>1, <4>2, <4>3
      <3>5. ret' \in [err : Errno, result : Entry \cup {Null, Unset}]
        BY <2>1, <2>3 DEF SeekBack, Returns, DirentTypeOK, Errno
      <3>6. UNCHANGED <<running, fds, errno, dirErrors, torn>>
        BY <2>3 DEF SeekBack
      <3>7. QED
        BY <2>2, <3>2, <3>4, <3>5, <3>6 DEF DirentTypeOK
    <2>4. CASE SeekFails(p)
      <3>1. dirErrors' \in 0 .. MaxDirErrors
        BY <2>4, SMT DEF SeekFails, DirentTypeOK
      <3>2. torn' \in [Desc -> BOOLEAN] /\ errno' \in [Process -> Errno]
        <4>1. "E" \in Errno
          BY DEF Errno
        <4>2. errno' = [errno EXCEPT ![p] = "E"]
          BY <2>4 DEF SeekFails, SetErrno
        <4>3. errno' \in [Process -> Errno]
          BY <4>1, <4>2 DEF DirentTypeOK
        <4>4. torn' \in [Desc -> BOOLEAN]
          BY <2>4 DEF SeekFails, DirentTypeOK
        <4>5. QED
          BY <4>3, <4>4
      <3>3. ret' \in [err : Errno, result : Entry \cup {Null, Unset}]
        BY <2>4 DEF SeekFails, Returns, Errno
      <3>4. UNCHANGED <<running, fds, pos, returned>>
        BY <2>4 DEF SeekFails
      <3>5. QED
        BY <2>2, <3>1, <3>2, <3>3, <3>4 DEF DirentTypeOK
    <2>5. QED
      BY <1>5, <2>3, <2>4 DEF ReaddirSeek
  <1>6. ASSUME NEW p \in Process, NEW child \in Process, Fork(p, child) PROVE DirentTypeOK'
    <2>1. running' \subseteq Process
      BY <1>6 DEF Fork, DirentTypeOK
    <2>2. fds' \in [Process -> [Fd -> Desc \cup {Closed}]] /\ errno' \in [Process -> Errno]
      BY <1>6 DEF Fork, DirentTypeOK
    <2>3. QED
      BY <1>6, <2>1, <2>2 DEF Fork, DirentTypeOK
  <1>7. CASE UNCHANGED direntVars
    BY <1>7 DEF direntVars, DirentTypeOK
  <1>8. QED
    BY <1>1, <1>2, <1>3, <1>4, <1>5, <1>6, <1>7 DEF DirentNext

\* Offsets stay within the directory, and a call in progress has an entry of it.
THEOREM DirentTypes == DirentSpec => []DirentTypeOK
  BY DirentInitTypes, DirentNextTypes, PTL DEF DirentSpec

-----------------------------------------------------------------------------
(* The order of entries.                                                   *)

\* The sequence 1 .. n, one longer.
LEMMA FirstAppend ==
  ASSUME NEW e \in Entry
  PROVE  Append(First(e - 1), e) = First(e)
  <1>1. e \in Nat /\ e - 1 \in Nat /\ (e - 1) + 1 = e
    BY DirentAssumption, SMT DEF Entry
  <1>2. First(e - 1) \in Seq(Nat) /\ Len(First(e - 1)) = e - 1
    BY <1>1, SMT DEF First
  <1>3. Append(First(e - 1), e) = [i \in 1 .. e |-> IF i \in 1 .. (e - 1) THEN i ELSE e]
    BY <1>1, <1>2, SMT DEF First
  <1>4. \A i \in 1 .. e : (IF i \in 1 .. (e - 1) THEN i ELSE e) = i
    BY <1>1, SMT
  <1>5. QED
    BY <1>3, <1>4 DEF First

LEMMA FirstNone == First(0) = <<>>
  BY SMT DEF First

\* Nothing that Ordered() says of d has changed.
LEMMA KeepsOrder ==
  ASSUME NEW d, Ordered(d), pos'[d] = pos[d], returned'[d] = returned[d],
         \A p \in Process : /\ Inside(p, d)' <=> Inside(p, d)
                            /\ Inside(p, d) => call'[p].entry = call[p].entry
  PROVE  Ordered(d)'
  BY DEF Ordered

\* No call has begun or ended and no descriptor of a call has changed.
LEMMA SameCalls ==
  ASSUME DirentInv, DirentTypeOK', call' = call, running \subseteq running',
         \A p \in Process : call[p] # NoCall => fds'[p][call[p].fd] = fds[p][call[p].fd]
  PROVE  /\ CallsAreOpen'
         /\ \A p \in Process : \A d : Inside(p, d)' <=> Inside(p, d)
  <1>1. CallsAreOpen'
    BY DEF DirentInv, CallsAreOpen
  <1>2. ASSUME NEW p \in Process, NEW d PROVE Inside(p, d)' <=> Inside(p, d)
    BY DEF DirentInv, CallsAreOpen, Inside
  <1>3. QED
    BY <1>1, <1>2

\* Streams that are open stay as they are, but for those that are opened anew.
LEMMA SameStreams ==
  ASSUME DirentInv, DirentTypeOK', call' = call, running \subseteq running',
         \A p \in Process : call[p] # NoCall => fds'[p][call[p].fd] = fds[p][call[p].fd],
         UNCHANGED <<pos, returned, torn>>,
         \A d \in Desc : InUse(d)' => InUse(d)
  PROVE  DirentInv'
  <1>1. ASSUME NEW d \in Desc, InUse(d)', torn'[d] = FALSE PROVE Ordered(d)'
    <2>1. Ordered(d)
      BY <1>1 DEF DirentInv
    <2>2. QED
      BY <2>1, SameCalls, KeepsOrder
  <1>2. QED
    BY <1>1, SameCalls DEF DirentInv

LEMMA OpendirStep ==
  ASSUME DirentInv, DirentTypeOK', NEW p \in Process, Opendir(p)
  PROVE  DirentInv'
  <1>1. CASE OpendirFails(p)
    BY <1>1, SameStreams DEF OpendirFails, InUse
  <1>2. ASSUME NEW fd \in Fd, NEW d \in Desc, OpendirAt(p, fd, d) PROVE DirentInv'
    <2>1. /\ call[p] = NoCall /\ fds[p][fd] = Closed
      BY <1>2 DEF Opendir, Ready, OpendirAt, FreeFds
    <2>2. /\ fds' = [fds EXCEPT ![p][fd] = d] /\ pos' = [pos EXCEPT ![d] = 0]
          /\ returned' = [returned EXCEPT ![d] = <<>>] /\ torn' = [torn EXCEPT ![d] = FALSE]
          /\ running' = running /\ call' = call /\ ~InUse(d)
      BY <1>2 DEF OpendirAt
    <2>3. \A q \in Process \ {p} : fds'[q] = fds[q]
      BY <2>2 DEF DirentInv, DirentTypeOK
    <2>4. /\ CallsAreOpen'
          /\ \A q \in Process : \A e : Inside(q, e)' <=> Inside(q, e)
      BY <2>1, <2>2, <2>3, SameCalls
    <2>5. \A q \in Process : ~Inside(q, d)
      BY <2>2 DEF InUse, Inside, DirentInv, CallsAreOpen
    <2>6. Ordered(d)'
      <3>1. pos'[d] = 0 /\ returned'[d] = <<>>
        BY <2>2 DEF DirentInv, DirentTypeOK
      <3>2. \A q \in Process : ~Inside(q, d)'
        BY <2>4, <2>5
      <3>3. QED
        BY <3>1, <3>2, FirstNone DEF Ordered
    <2>7. ASSUME NEW e \in Desc \ {d}, InUse(e)', torn'[e] = FALSE PROVE Ordered(e)'
      <3>1. pos'[e] = pos[e] /\ returned'[e] = returned[e] /\ torn[e] = FALSE
        BY <2>2, <2>7 DEF DirentInv, DirentTypeOK
      <3>2. \A q \in Process, f \in Fd : fds'[q][f] = e => fds[q][f] = e
        BY <2>2 DEF DirentInv, DirentTypeOK
      <3>3. InUse(e)
        BY <2>2, <2>7, <3>2 DEF InUse, DirentInv, DirentTypeOK
      <3>4. Ordered(e)
        BY <3>1, <3>3 DEF DirentInv
      <3>5. QED
        BY <2>2, <2>4, <3>1, <3>4, KeepsOrder
    <2>8. QED
      BY <2>4, <2>6, <2>7 DEF DirentInv
  <1>3. QED
    BY <1>1, <1>2 DEF Opendir

LEMMA ClosedirStep ==
  ASSUME DirentInv, DirentTypeOK', NEW p \in Process, NEW dirp \in Dirp, Closedir(p, dirp)
  PROVE  DirentInv'
  <1>1. CASE NotOpen(p, dirp)
    BY <1>1, SameStreams DEF Closedir, InUse
  <1>2. CASE ~NotOpen(p, dirp)
    <2> DEFINE fd == Complement(dirp)
    <2>1. /\ fds' = [fds EXCEPT ![p][fd] = Closed] /\ call[p] = NoCall
          /\ UNCHANGED <<running, pos, call, returned, torn>>
      BY <1>2 DEF Closedir, Ready
    <2> HIDE DEF fd
    <2>2. \A q \in Process \ {p} : fds'[q] = fds[q]
      BY <2>1 DEF DirentInv, DirentTypeOK
    <2>3. \A q \in Process, f \in Fd, d \in Desc : fds'[q][f] = d => fds[q][f] = d
      BY <2>1, DirentAssumption DEF DirentInv, DirentTypeOK
    <2>4. \A d \in Desc : InUse(d)' => InUse(d)
      BY <2>1, <2>3 DEF InUse, DirentInv, DirentTypeOK
    <2>5. QED
      BY <2>1, <2>2, <2>4, SameStreams
  <1>3. QED
    BY <1>1, <1>2

LEMMA ForkStep ==
  ASSUME DirentInv, DirentTypeOK', NEW p \in Process, NEW child \in Process, Fork(p, child)
  PROVE  DirentInv'
  <1>1. /\ p \in running /\ child \notin running /\ running' = running \cup {child}
        /\ fds' = [fds EXCEPT ![child] = fds[p]]
        /\ UNCHANGED <<pos, call, returned, torn>>
    BY DEF Fork, Ready
  <1>2. call[child] = NoCall
    BY <1>1 DEF DirentInv, CallsAreOpen
  <1>3. fds'[child] = fds[p] /\ \A q \in Process \ {child} : fds'[q] = fds[q]
    BY <1>1 DEF DirentInv, DirentTypeOK
  <1>4. \A d \in Desc : InUse(d)' => InUse(d)
    BY <1>1, <1>3 DEF InUse, DirentInv, DirentTypeOK
  <1>5. QED
    BY <1>1, <1>2, <1>3, <1>4, SameStreams

\* getdents64() by p, which was in no call: it is the only one inside, or d is torn.
LEMMA GetdentsStep ==
  ASSUME DirentInv, DirentTypeOK', NEW p \in Process, call[p] = NoCall, p \in running,
         NEW fd \in Fd, fds[p][fd] # Closed, NEW n, Getdents(p, fd, n)
  PROVE  DirentInv'
  <1>1. PICK d \in Desc : d = fds[p][fd] /\ pos[d] \in Nat
    BY DirentAssumption, SMT DEF DirentInv, DirentTypeOK
  <1> DEFINE new == [fd |-> fd, entry |-> pos[d] + 1]
  <1>2. new # NoCall /\ new.fd = fd /\ new.entry - 1 = pos[d]
    BY <1>1, ACallIsNotNoCall, SMT
  <1> HIDE DEF new
  <1>3. /\ call' = [call EXCEPT ![p] = new] /\ running' = running /\ fds' = fds
        /\ returned' = returned
        /\ torn' = [torn EXCEPT ![d] = @ \/ Busy(p, d)]
        /\ \A e \in Desc \ {d} : pos'[e] = pos[e]
    BY <1>1 DEF Getdents, new, DirentInv, DirentTypeOK
  <1>4. call'[p] = new /\ \A q \in Process \ {p} : call'[q] = call[q]
    BY <1>3 DEF DirentInv, DirentTypeOK
  <1>5. CallsAreOpen'
    BY <1>1, <1>2, <1>3, <1>4 DEF DirentInv, CallsAreOpen
  <1>6. /\ \A q \in Process \ {p} : \A e : Inside(q, e)' <=> Inside(q, e)
        /\ \A e : Inside(p, e)' <=> e = d
        /\ \A e : ~Inside(p, e)
    BY <1>1, <1>2, <1>3, <1>4 DEF Inside
  <1>7. ASSUME NEW e \in Desc, InUse(e)', torn'[e] = FALSE PROVE Ordered(e)'
    <2>1. InUse(e)
      BY <1>3, <1>7 DEF InUse
    <2>2. CASE e # d
      <3>1. torn[e] = FALSE
        BY <1>3, <1>7, <2>2 DEF DirentInv, DirentTypeOK
      <3>2. Ordered(e)
        BY <2>1, <3>1 DEF DirentInv
      <3>3. \A q \in Process : /\ Inside(q, e)' <=> Inside(q, e)
                               /\ Inside(q, e) => call'[q].entry = call[q].entry
        BY <1>4, <1>6, <2>2
      <3>4. pos'[e] = pos[e] /\ returned'[e] = returned[e]
        BY <1>3, <2>2
      <3>5. QED
        BY <3>2, <3>3, <3>4, KeepsOrder
    <2>3. CASE e = d
      <3>1. torn'[d] = (torn[d] \/ Busy(p, d))
        BY <1>1, <1>3 DEF DirentInv, DirentTypeOK
      <3>2. torn[d] = FALSE /\ ~Busy(p, d)
        <4>1. torn[d] \in BOOLEAN
          BY <1>1 DEF DirentInv, DirentTypeOK
        <4>2. QED
          BY <1>7, <2>3, <3>1, <4>1
      <3>3. \A q \in Process : ~Inside(q, d)
        BY <1>6, <3>2 DEF Busy, Inside
      <3>4. returned[d] = First(pos[d])
        BY <1>1, <2>1, <2>3, <3>2, <3>3 DEF DirentInv, Ordered
      <3>5. \A q \in Process : Inside(q, d)' => q = p
        BY <1>6, <3>3
      <3>6. returned'[d] = First(call'[p].entry - 1)
        BY <1>2, <1>3, <1>4, <3>4
      <3>7. Inside(p, d)'
        BY <1>6
      <3>8. QED
        BY <2>3, <3>5, <3>6, <3>7 DEF Ordered
    <2>4. QED
      BY <2>2, <2>3
  <1>8. QED
    BY <1>5, <1>7 DEF DirentInv

LEMMA ReaddirStep ==
  ASSUME DirentInv, DirentTypeOK', NEW p \in Process, NEW dirp \in Dirp, Readdir(p, dirp)
  PROVE  DirentInv'
  <1>1. p \in running /\ call[p] = NoCall
    BY DEF Readdir, Ready
  <1>2. ASSUME UNCHANGED <<running, fds, pos, call, returned, torn>> PROVE DirentInv'
    BY <1>2, SameStreams DEF InUse
  <1>3. CASE ReaddirBadDir(p, dirp) \/ GetdentsFails(p) \/ \E d : ReaddirEnd(p, d)
    BY <1>2, <1>3 DEF ReaddirBadDir, GetdentsFails, ReaddirEnd
  <1>4. ASSUME ~NotOpen(p, dirp), NEW n \in 1 .. Batch, Getdents(p, Complement(dirp), n)
        PROVE  DirentInv'
    <2>1. Complement(dirp) \in Fd
      BY <1>4, DirentAssumption, SMT DEF NotOpen, Dirp, Complement, Fd
    <2>2. QED
      BY <1>1, <1>4, <2>1, GetdentsStep DEF NotOpen
  <1>5. QED
    BY <1>3, <1>4 DEF Readdir

\* lseek() by p ends its call: the entry follows those that were returned, or d is torn.
LEMMA SeekStep ==
  ASSUME BadCookie = {}, DirentInv, DirentTypeOK', NEW p \in Process, ReaddirSeek(p)
  PROVE  DirentInv'
  <1>1. call[p] # NoCall /\ p \in running
    BY DEF ReaddirSeek
  <1>2. PICK d \in Desc, e \in Entry : d = fds[p][call[p].fd] /\ e = call[p].entry
    BY <1>1, CallType DEF DirentInv, CallsAreOpen
  <1>3. Inside(p, d) /\ \A f : Inside(p, f) => f = d
    BY <1>1, <1>2 DEF Inside
  <1>4. /\ call' = [call EXCEPT ![p] = NoCall] /\ running' = running /\ fds' = fds
        /\ \/ /\ torn' = torn /\ pos' = [pos EXCEPT ![d] = e]
              /\ returned' = [returned EXCEPT ![d] = IF torn[d] THEN <<>> ELSE Append(@, e)]
           \/ torn' = [torn EXCEPT ![d] = TRUE] /\ pos' = pos /\ returned' = returned
    BY <1>2 DEF ReaddirSeek, SeekBack, SeekFails
  <1>5. call'[p] = NoCall /\ \A q \in Process \ {p} : call'[q] = call[q]
    BY <1>4 DEF DirentInv, DirentTypeOK
  <1>6. CallsAreOpen'
    BY <1>4, <1>5 DEF DirentInv, CallsAreOpen
  <1>7. /\ \A q \in Process \ {p} : \A f : Inside(q, f)' <=> Inside(q, f)
        /\ \A f : ~Inside(p, f)'
    BY <1>4, <1>5 DEF Inside
  <1>8. ASSUME NEW f \in Desc, InUse(f)', torn'[f] = FALSE PROVE Ordered(f)'
    <2>1. InUse(f)
      BY <1>4, <1>8 DEF InUse
    <2>2. torn[f] = FALSE /\ (f = d => torn' = torn)
      <3>1. torn \in [Desc -> BOOLEAN]
        BY DEF DirentInv, DirentTypeOK
      <3>2. QED
        BY <1>2, <1>4, <1>8, <3>1
    <2>3. Ordered(f)
      BY <2>1, <2>2 DEF DirentInv
    <2>4. CASE f # d
      <3>1. pos'[f] = pos[f] /\ returned'[f] = returned[f]
        BY <1>4, <2>4 DEF DirentInv, DirentTypeOK
      <3>2. \A q \in Process : /\ Inside(q, f)' <=> Inside(q, f)
                               /\ Inside(q, f) => call'[q].entry = call[q].entry
        BY <1>3, <1>5, <1>7, <2>4
      <3>3. QED
        BY <2>3, <3>1, <3>2, KeepsOrder
    <2>5. CASE f = d
      <3>1. \A q \in Process : ~Inside(q, d)'
        BY <1>3, <1>7, <2>3, <2>5 DEF Ordered
      <3>2. returned[d] = First(e - 1)
        BY <1>2, <1>3, <2>3, <2>5 DEF Ordered
      <3>3. torn # [torn EXCEPT ![d] = TRUE]
        BY <1>2, <2>2, <2>5 DEF DirentInv, DirentTypeOK
      <3>4. pos'[d] = e /\ returned'[d] = Append(returned[d], e)
        BY <1>2, <1>4, <2>2, <2>5, <3>3 DEF DirentInv, DirentTypeOK
      <3>5. returned'[d] = First(e)
        BY <1>2, <3>2, <3>4, FirstAppend
      <3>6. QED
        BY <2>5, <3>1, <3>4, <3>5 DEF Ordered
    <2>6. QED
      BY <2>4, <2>5
  <1>9. QED
    BY <1>6, <1>8 DEF DirentInv

-----------------------------------------------------------------------------
(* The specification.                                                      *)

LEMMA DirentInvInit == DirentInit => DirentInv
  <1> SUFFICES ASSUME DirentInit PROVE DirentInv
    OBVIOUS
  <1>1. DirentTypeOK
    BY DirentInitTypes
  <1>2. CallsAreOpen
    BY DEF DirentInit, CallsAreOpen
  <1>3. \A d \in Desc : ~InUse(d)
    BY DirentAssumption DEF DirentInit, InUse
  <1>4. QED
    BY <1>1, <1>2, <1>3 DEF DirentInv

LEMMA DirentInvNext == BadCookie = {} /\ DirentInv /\ [DirentNext]_direntVars => DirentInv'
  <1> SUFFICES ASSUME BadCookie = {}, DirentInv, [DirentNext]_direntVars PROVE DirentInv'
    OBVIOUS
  <1>1. DirentTypeOK'
    BY DirentNextTypes DEF DirentInv
  <1>2. ASSUME NEW p \in Process, Fdopendir(p, -1) PROVE DirentInv'
    BY <1>1, <1>2, SameStreams DEF Fdopendir, InUse
  <1>3. CASE UNCHANGED direntVars
    BY <1>1, <1>3, SameStreams DEF direntVars, InUse
  <1>4. CASE DirentNext
    BY <1>1, <1>2, <1>4, OpendirStep, ClosedirStep, ReaddirStep, SeekStep, ForkStep DEF DirentNext
  <1>5. QED
    BY <1>3, <1>4

\* The entry that is returned next is that of the call in progress, or the one at the
\* offset.
LEMMA OrderedOnce == DirentInv => EachEntryOnce
  <1> SUFFICES ASSUME DirentInv, NEW d \in Desc, InUse(d), ~torn[d]
               PROVE  returned[d] = First(Passed(d))
    BY DEF EachEntryOnce, First
  <1> DEFINE inside == {p \in running : call[p] # NoCall /\ fds[p][call[p].fd] = d}
  <1>1. torn[d] = FALSE
    BY DEF DirentInv, DirentTypeOK
  <1>2. Ordered(d)
    BY <1>1 DEF DirentInv
  <1>3. \A p : p \in inside <=> p \in Process /\ Inside(p, d)
    BY DEF DirentInv, DirentTypeOK, Inside
  <1>4. Passed(d) = IF inside = {} THEN pos[d]
                    ELSE call[CHOOSE p \in inside : TRUE].entry - 1
    BY DEF Passed
  <1> HIDE DEF inside
  <1>5. CASE inside = {}
    BY <1>2, <1>3, <1>4, <1>5 DEF Ordered
  <1>6. CASE inside # {}
    <2> DEFINE q == CHOOSE p \in inside : TRUE
    <2>1. q \in inside
      BY <1>6
    <2>2. QED
      BY <1>2, <1>3, <1>4, <1>6, <2>1 DEF Ordered
  <1>7. QED
    BY <1>5, <1>6

\* For any processes that open, close, share and read streams, with any batches and
\* any errors of the kernel: as long as no d_off looks like a failed lseek() (the
\* assumption), a stream on which calls did not overlap and lseek() did not fail has
\* returned its first entries, each once and in order, and the next is the one behind.
THEOREM EntriesOnceInOrder ==
  ASSUME BadCookie = {}
  PROVE  DirentSpec => []EachEntryOnce
  <1>1. DirentInv /\ [DirentNext]_direntVars => DirentInv'
    BY DirentInvNext
  <1>2. QED
    BY <1>1, DirentInvInit, OrderedOnce, PTL DEF DirentSpec

\* What readdir_r() gives back changes when it returns only.
LEMMA ResultStep ==
  ASSUME BadCookie = {}, DirentTypeOK, ZeroMeansResult, [DirentNext]_direntVars
  PROVE  ZeroMeansResult'
  <1>1. ASSUME ret' = ret PROVE ZeroMeansResult'
    BY <1>1 DEF ZeroMeansResult
  <1>2. ASSUME NEW p \in Process, NEW dirp \in Dirp, Readdir(p, dirp) PROVE ZeroMeansResult'
    <2>1. CASE ReaddirBadDir(p, dirp) \/ GetdentsFails(p)
      BY <2>1 DEF ReaddirBadDir, GetdentsFails, Returns, ZeroMeansResult
    <2>2. CASE \E d : ReaddirEnd(p, d)
      <3>1. Null # Unset
        BY SMT DEF Null, Unset
      <3>2. QED
        BY <2>2, <3>1 DEF ReaddirEnd, Returns, ZeroMeansResult
    <2>3. CASE \E fd, n : Getdents(p, fd, n)
      BY <1>1, <2>3 DEF Getdents
    <2>4. QED
      BY <1>2, <2>1, <2>2, <2>3 DEF Readdir
  <1>3. ASSUME NEW p \in Process, ReaddirSeek(p) PROVE ZeroMeansResult'
    <2>1. call[p].entry # Unset
      <3>1. call[p].entry \in Entry
        BY <1>3, CallType DEF ReaddirSeek
      <3>2. QED
        BY <3>1, SMT DEF Entry, Unset
    <2>2. QED
      BY <1>3, <2>1 DEF ReaddirSeek, SeekBack, SeekFails, Returns, ZeroMeansResult
  <1>4. ASSUME NEW p \in Process,
               \/ Opendir(p) \/ Fdopendir(p, -1)
               \/ \E dirp \in Dirp : Closedir(p, dirp)
               \/ \E child \in Process : Fork(p, child)
        PROVE  ret' = ret
    BY <1>4 DEF Opendir, OpendirFails, OpendirAt, Fdopendir, Closedir, Fork
  <1>5. CASE UNCHANGED direntVars
    BY <1>1, <1>5 DEF direntVars
  <1>6. QED
    BY <1>1, <1>2, <1>3, <1>4, <1>5 DEF DirentNext

\* Under the same assumption: a readdir_r() that returns 0 has set *result, to an entry
\* or to NULL at the end, whatever errno held before.
THEOREM ZeroComesWithResult ==
  ASSUME BadCookie = {}
  PROVE  DirentSpec => []ZeroMeansResult
  <1>1. DirentInit => ZeroMeansResult
    BY DEF DirentInit, ZeroMeansResult
  <1>2. DirentTypeOK /\ ZeroMeansResult /\ [DirentNext]_direntVars => ZeroMeansResult'
    BY ResultStep
  <1>3. QED
    BY <1>1, <1>2, DirentTypes, PTL DEF DirentSpec

-----------------------------------------------------------------------------
(* Directory streams implement the queue of module Listing.                 *)

ListingRefines == [L!ListingNext]_(L!listingVars)

\* Nothing that module Listing says of stream d has changed.
SameListing(d) == Status(d)' = Status(d) /\ Seen(d)' = Seen(d) /\ (Taking(d)' <=> Taking(d))

LEMMA TakingIsInside ==
  ASSUME DirentTypeOK, NEW d
  PROVE  Taking(d) <=> Listed(d) /\ \E p \in Process : Inside(p, d)
  BY DEF Taking, Inside, DirentTypeOK

\* A step that neither opens nor closes d, nor begins or ends a call on it.
LEMMA StreamKept ==
  ASSUME DirentTypeOK, DirentTypeOK', NEW d \in Desc, InUse(d)' <=> InUse(d),
         torn'[d] = torn[d], returned'[d] = returned[d],
         \A p \in Process : Inside(p, d)' <=> Inside(p, d)
  PROVE  SameListing(d)
  <1>1. Listed(d)' <=> Listed(d)
    BY DEF Listed
  <1>2. Taking(d)' <=> Taking(d)
    <2>1. Taking(d)' <=> Listed(d)' /\ \E p \in Process : Inside(p, d)'
      BY DEF Taking, Inside, DirentTypeOK
    <2>2. QED
      BY <1>1, <2>1, TakingIsInside
  <1>3. QED
    BY <1>1, <1>2 DEF SameListing, Status, Seen

\* Without a change of any stream, a step returns as before or fails, or there is a
\* stream of which nothing is promised.
LEMMA NothingListed ==
  ASSUME \A d \in Desc : SameListing(d),
         ret' = ret \/ ret'.err # "0" \/ \E d \in Desc : Status(d) = "lost"
  PROVE  ListingRefines
  <1>1. /\ [d \in Desc |-> Status(d)]' = [d \in Desc |-> Status(d)]
        /\ [d \in Desc |-> Seen(d)]' = [d \in Desc |-> Seen(d)]
        /\ {d \in Desc : Taking(d)}' = {d \in Desc : Taking(d)}
    BY DEF SameListing
  <1>2. CASE ret' = ret
    BY <1>1, <1>2 DEF ListingRefines, L!listingVars
  <1>3. CASE ret'.err # "0"
    BY <1>1, <1>3 DEF ListingRefines, L!ListingNext, L!Fails
  <1>4. CASE \E d \in Desc : Status(d) = "lost"
    BY <1>1, <1>4 DEF ListingRefines, L!ListingNext, L!Strays
  <1>5. QED
    BY <1>2, <1>3, <1>4

\* The three values of module Listing after a step that changes stream d only.
LEMMA OnlyOne ==
  ASSUME NEW d \in Desc, \A e \in Desc \ {d} : SameListing(e)
  PROVE  /\ [e \in Desc |-> Status(e)]' = [[e \in Desc |-> Status(e)] EXCEPT ![d] = Status(d)']
         /\ [e \in Desc |-> Seen(e)]' = [[e \in Desc |-> Seen(e)] EXCEPT ![d] = Seen(d)']
         /\ Taking(d)' => {e \in Desc : Taking(e)}' = {e \in Desc : Taking(e)} \cup {d}
         /\ ~Taking(d)' => {e \in Desc : Taking(e)}' = {e \in Desc : Taking(e)} \ {d}
  BY DEF SameListing

\* opendir() of a stream that nobody has open.
LEMMA OpendirOpens ==
  ASSUME DirentInv, DirentInv', NEW p \in Process, Opendir(p)
  PROVE  ListingRefines
  <1>1. CASE OpendirFails(p)
    <2>1. \A d \in Desc : SameListing(d)
      BY <1>1 DEF OpendirFails, SameListing, Status, Seen, Taking, Listed, InUse
    <2>2. QED
      BY <1>1, <2>1, NothingListed DEF OpendirFails
  <1>2. ASSUME NEW fd \in Fd, NEW d \in Desc, OpendirAt(p, fd, d) PROVE ListingRefines
    <2>1. /\ p \in running /\ call[p] = NoCall /\ fds[p][fd] = Closed
      BY <1>2 DEF Opendir, Ready, OpendirAt, FreeFds
    <2>2. /\ fds' = [fds EXCEPT ![p][fd] = d]
          /\ returned' = [returned EXCEPT ![d] = <<>>] /\ torn' = [torn EXCEPT ![d] = FALSE]
          /\ running' = running /\ call' = call /\ ret' = ret /\ ~InUse(d)
      BY <1>2 DEF OpendirAt
    <2>3. \A q \in Process \ {p} : fds'[q] = fds[q]
      BY <2>2 DEF DirentInv, DirentTypeOK
    <2>4. \A q \in Process : \A e : Inside(q, e)' <=> Inside(q, e)
      BY <2>1, <2>2, <2>3, SameCalls DEF DirentInv
    <2>5. \A q \in Process : ~Inside(q, d)
      BY <2>2 DEF InUse, Inside, DirentInv, CallsAreOpen
    <2>6. ASSUME NEW e \in Desc \ {d} PROVE SameListing(e)
      <3>1. \A q \in Process, f \in Fd : fds'[q][f] = e <=> fds[q][f] = e
        BY <2>1, <2>2, DirentAssumption DEF DirentInv, DirentTypeOK
      <3>2. InUse(e)' <=> InUse(e)
        BY <2>2, <3>1 DEF InUse, DirentInv, DirentTypeOK
      <3>3. torn'[e] = torn[e] /\ returned'[e] = returned[e]
        BY <2>2 DEF DirentInv, DirentTypeOK
      <3>4. QED
        BY <2>4, <3>2, <3>3, StreamKept DEF DirentInv
    <2>7. Status(d) = "closed" /\ Seen(d) = <<>> /\ ~Taking(d)
      BY <2>2 DEF Status, Seen, Taking, Listed
    <2>8. Status(d)' = "listed" /\ Seen(d)' = <<>> /\ ~Taking(d)'
      <3>1. torn'[d] = FALSE /\ returned'[d] = <<>>
        BY <2>2 DEF DirentInv, DirentTypeOK
      <3>2. InUse(d)'
        BY <2>1, <2>2 DEF InUse, DirentInv, DirentTypeOK
      <3>3. ~Taking(d)'
        BY <2>4, <2>5 DEF Taking, Inside, DirentInv, DirentTypeOK
      <3>4. QED
        BY <3>1, <3>2, <3>3 DEF Status, Seen, Listed
    <2>9. L!Opens(d)
      BY <2>2, <2>6, <2>7, <2>8, OnlyOne DEF L!Opens
    <2>10. QED
      BY <2>9 DEF ListingRefines, L!ListingNext
  <1>3. QED
    BY <1>1, <1>2 DEF Opendir

\* closedir() by the last process that has the stream open closes it.
LEMMA ClosedirCloses ==
  ASSUME DirentInv, DirentInv', NEW p \in Process, NEW dirp \in Dirp, Closedir(p, dirp)
  PROVE  ListingRefines
  <1>1. CASE NotOpen(p, dirp)
    <2>1. \A d \in Desc : SameListing(d)
      BY <1>1 DEF Closedir, SameListing, Status, Seen, Taking, Listed, InUse
    <2>2. QED
      BY <2>1, NothingListed DEF Closedir
  <1>2. CASE ~NotOpen(p, dirp)
    <2> DEFINE fd == Complement(dirp)
    <2>1. /\ fds' = [fds EXCEPT ![p][fd] = Closed] /\ call[p] = NoCall
          /\ UNCHANGED <<running, call, ret, returned, torn>>
      BY <1>2 DEF Closedir, Ready
    <2>2. fd \in Fd /\ fds[p][fd] # Closed
      BY <1>2, DirentAssumption, SMT DEF NotOpen, Dirp, Complement, Fd
    <2> HIDE DEF fd
    <2>3. PICK d \in Desc : d = fds[p][fd]
      BY <2>2 DEF DirentInv, DirentTypeOK
    <2>4. \A q \in Process \ {p} : fds'[q] = fds[q]
      BY <2>1 DEF DirentInv, DirentTypeOK
    <2>5. \A q \in Process : \A e : Inside(q, e)' <=> Inside(q, e)
      BY <2>1, <2>4, SameCalls DEF DirentInv
    <2>6. ASSUME NEW e \in Desc, InUse(e)' <=> InUse(e) PROVE SameListing(e)
      BY <2>1, <2>5, <2>6, StreamKept DEF DirentInv
    <2>7. ASSUME NEW e \in Desc \ {d} PROVE SameListing(e)
      <3>1. \A q \in Process, f \in Fd : fds'[q][f] = e <=> fds[q][f] = e
        BY <2>1, <2>3, DirentAssumption DEF DirentInv, DirentTypeOK
      <3>2. InUse(e)' <=> InUse(e)
        BY <2>1, <3>1 DEF InUse, DirentInv, DirentTypeOK
      <3>3. QED
        BY <2>6, <3>2
    <2>8. CASE InUse(d)' <=> InUse(d)
      BY <2>1, <2>6, <2>7, <2>8, NothingListed
    <2>9. CASE InUse(d) /\ ~InUse(d)'
      <3>1. Status(d)' = "closed" /\ Seen(d)' = <<>> /\ ~Taking(d)'
        BY <2>9 DEF Status, Seen, Taking, Listed
      <3>2. ~Taking(d)
        <4>1. ASSUME NEW q \in Process, Inside(q, d) PROVE InUse(d)'
          BY <2>5, <4>1 DEF Inside, InUse, DirentInv, CallsAreOpen
        <4>2. QED
          BY <2>9, <4>1, TakingIsInside DEF DirentInv
      <3>3. L!Closes(d)
        BY <2>1, <2>7, <3>1, <3>2, OnlyOne DEF L!Closes
      <3>4. QED
        BY <3>3 DEF ListingRefines, L!ListingNext
    <2>10. InUse(d)
      BY <2>1, <2>2, <2>3, <1>2 DEF InUse, Closedir, Ready
    <2>11. QED
      BY <2>8, <2>9, <2>10
  <1>3. QED
    BY <1>1, <1>2

\* A child has the streams of its parent, and is in no call.
LEMMA ForkShares ==
  ASSUME DirentInv, DirentInv', NEW p \in Process, NEW child \in Process, Fork(p, child)
  PROVE  ListingRefines
  <1>1. /\ p \in running /\ child \notin running /\ running' = running \cup {child}
        /\ fds' = [fds EXCEPT ![child] = fds[p]]
        /\ UNCHANGED <<call, ret, returned, torn>>
    BY DEF Fork, Ready
  <1>2. call[child] = NoCall
    BY <1>1 DEF DirentInv, CallsAreOpen
  <1>3. fds'[child] = fds[p] /\ \A q \in Process \ {child} : fds'[q] = fds[q]
    BY <1>1 DEF DirentInv, DirentTypeOK
  <1>4. \A q \in Process : \A e : Inside(q, e)' <=> Inside(q, e)
    BY <1>1, <1>2, <1>3, SameCalls DEF DirentInv
  <1>5. \A d \in Desc : InUse(d)' <=> InUse(d)
    BY <1>1, <1>3 DEF InUse, DirentInv, DirentTypeOK
  <1>6. \A d \in Desc : SameListing(d)
    BY <1>1, <1>4, <1>5, StreamKept DEF DirentInv
  <1>7. QED
    BY <1>1, <1>6, NothingListed

\* The end is told when all entries were returned or a call is in progress.
LEMMA EndIsTold ==
  ASSUME DirentInv, NEW p \in Process, p \in running, NEW fd \in Fd, fds[p][fd] # Closed,
         ReaddirEnd(p, fds[p][fd])
  PROVE  ListingRefines
  <1>1. PICK d \in Desc : d = fds[p][fd]
    BY DEF DirentInv, DirentTypeOK
  <1>2. /\ UNCHANGED <<running, fds, call, returned, torn>>
        /\ ret' = [err |-> "0", result |-> Null] /\ pos[d] = NEntries
    BY <1>1 DEF ReaddirEnd, Returns
  <1>3. \A e \in Desc : SameListing(e)
    BY <1>2 DEF SameListing, Status, Seen, Taking, Listed, InUse
  <1>4. InUse(d)
    BY <1>1 DEF InUse
  <1>5. CASE torn[d]
    <2>1. Status(d) = "lost"
      BY <1>4, <1>5 DEF Status, Listed
    <2>2. QED
      BY <1>3, <2>1, NothingListed
  <1>6. CASE ~torn[d]
    <2>1. Listed(d) /\ Status(d) = "listed" /\ Seen(d) = returned[d]
      BY <1>4, <1>6 DEF Status, Seen, Listed
    <2>2. Ordered(d)
      BY <1>4, <1>6 DEF DirentInv, DirentTypeOK
    <2>3. Len(Seen(d)) = Len([i \in Entry |-> i]) \/ Taking(d)
      <3>1. CASE \E q \in Process : Inside(q, d)
        BY <2>1, <3>1, TakingIsInside DEF DirentInv
      <3>2. CASE \A q \in Process : ~Inside(q, d)
        <4>1. returned[d] = First(NEntries)
          BY <1>2, <2>2, <3>2 DEF Ordered
        <4>2. QED
          BY <2>1, <4>1 DEF First, Entry
      <3>3. QED
        BY <3>1, <3>2
    <2>4. L!TellsEnd(d)
      BY <1>2, <1>3, <2>1, <2>3 DEF L!TellsEnd, L!Answers, SameListing
    <2>5. QED
      BY <2>4 DEF ListingRefines, L!ListingNext
  <1>7. QED
    BY <1>5, <1>6

\* A call on a stream that was listed no longer is: it had begun, and the step says so
\* or returns nothing.  A stream that was not listed stays lost.
LEMMA BecomesLost ==
  ASSUME DirentInv, DirentInv', NEW d \in Desc, InUse(d), InUse(d)', torn'[d],
         ~torn[d] => \E q \in Process : Inside(q, d),
         ret' = ret \/ ret'.err = "E",
         \A f \in Desc \ {d} : SameListing(f)
  PROVE  ListingRefines
  <1>1. Status(d)' = "lost" /\ Seen(d)' = <<>> /\ ~Taking(d)'
    BY DEF Status, Seen, Taking, Listed
  <1>2. CASE torn[d]
    <2>1. SameListing(d)
      BY <1>1, <1>2 DEF SameListing, Status, Seen, Taking, Listed
    <2>2. QED
      BY <2>1, NothingListed
  <1>3. CASE ~torn[d]
    <2>1. Taking(d)
      BY <1>3, TakingIsInside DEF Listed, DirentInv
    <2>2. L!Loses(d)
      BY <1>1, <2>1, OnlyOne DEF L!Loses
    <2>3. QED
      BY <2>2 DEF ListingRefines, L!ListingNext
  <1>4. QED
    BY <1>2, <1>3

\* getdents64() by p, which was in no call: it begins to take the entry at the offset,
\* or finds another process inside.
LEMMA GetdentsBegins ==
  ASSUME DirentInv, DirentInv', NEW p \in Process, call[p] = NoCall, p \in running,
         NEW fd \in Fd, fds[p][fd] # Closed, NEW n \in 1 .. Batch, Getdents(p, fd, n)
  PROVE  ListingRefines
  <1>1. PICK d \in Desc : d = fds[p][fd] /\ pos[d] \in Nat
    BY DirentAssumption, SMT DEF DirentInv, DirentTypeOK
  <1> DEFINE new == [fd |-> fd, entry |-> pos[d] + 1]
  <1>2. new # NoCall /\ new.fd = fd
    BY <1>1, ACallIsNotNoCall, SMT
  <1> HIDE DEF new
  <1>3. /\ call' = [call EXCEPT ![p] = new] /\ running' = running /\ fds' = fds
        /\ returned' = returned /\ ret' = ret
        /\ torn' = [torn EXCEPT ![d] = @ \/ Busy(p, d)]
    BY <1>1 DEF Getdents, new
  <1>4. pos[d] + n <= NEntries
    BY <1>1 DEF Getdents
  <1>5. call'[p] = new /\ \A q \in Process \ {p} : call'[q] = call[q]
    BY <1>3 DEF DirentInv, DirentTypeOK
  <1>6. /\ \A q \in Process \ {p} : \A e : Inside(q, e)' <=> Inside(q, e)
        /\ \A e : Inside(p, e)' <=> e = d
        /\ \A e : ~Inside(p, e)
    BY <1>1, <1>2, <1>3, <1>5 DEF Inside
  <1>7. InUse(d) /\ \A e \in Desc : InUse(e)' <=> InUse(e)
    BY <1>1, <1>3 DEF InUse
  <1>8. ASSUME NEW e \in Desc \ {d} PROVE SameListing(e)
    <2>1. returned'[e] = returned[e] /\ torn'[e] = torn[e]
      BY <1>3 DEF DirentInv, DirentTypeOK
    <2>2. \A q \in Process : Inside(q, e)' <=> Inside(q, e)
      BY <1>6
    <2>3. QED
      BY <1>7, <2>1, <2>2, StreamKept DEF DirentInv
  <1>9. torn'[d] = (torn[d] \/ Busy(p, d)) /\ torn[d] \in BOOLEAN
    BY <1>3 DEF DirentInv, DirentTypeOK
  <1>10. CASE torn[d] \/ Busy(p, d)
    <2>1. torn'[d]
      BY <1>9, <1>10
    <2>2. ~torn[d] => \E q \in Process : Inside(q, d)
      BY <1>10 DEF Busy, Inside, DirentInv, DirentTypeOK
    <2>3. QED
      BY <1>3, <1>7, <1>8, <2>1, <2>2, BecomesLost
  <1>11. CASE ~torn[d] /\ ~Busy(p, d)
    <2>1. Listed(d) /\ Listed(d)' /\ torn[d] = FALSE
      BY <1>7, <1>9, <1>11 DEF Listed
    <2>2. \A q \in Process : ~Inside(q, d)
      BY <1>6, <1>11 DEF Busy, Inside
    <2>3. returned[d] = First(pos[d])
      BY <1>7, <2>1, <2>2 DEF DirentInv, Ordered
    <2>4. Len(Seen(d)) < Len([i \in Entry |-> i])
      <3>1. pos[d] < NEntries
        BY <1>1, <1>4, DirentAssumption, SMT
      <3>2. Len(First(pos[d])) = pos[d]
        BY <1>1 DEF First
      <3>3. Len([i \in Entry |-> i]) = NEntries
        BY DirentAssumption DEF Entry
      <3>4. QED
        BY <2>1, <2>3, <3>1, <3>2, <3>3 DEF Seen
    <2>5. Taking(d)' /\ ~Taking(d)
      <3>1. Taking(d)'
        BY <1>3, <1>6, <2>1 DEF Taking, Inside
      <3>2. ~Taking(d)
        BY <2>2, TakingIsInside DEF DirentInv
      <3>3. QED
        BY <3>1, <3>2
    <2>6. Status(d)' = Status(d) /\ Seen(d)' = Seen(d) /\ Status(d) = "listed"
      BY <1>3, <2>1 DEF Status, Seen
    <2>7. /\ [e \in Desc |-> Status(e)]' = [e \in Desc |-> Status(e)]
          /\ [e \in Desc |-> Seen(e)]' = [e \in Desc |-> Seen(e)]
      BY <1>8, <2>6 DEF SameListing
    <2>8. L!Begins(d)
      BY <1>3, <1>8, <2>4, <2>5, <2>6, <2>7, OnlyOne DEF L!Begins
    <2>9. QED
      BY <2>8 DEF ListingRefines, L!ListingNext
  <1>12. QED
    BY <1>10, <1>11

\* readdir_r() up to lseek(): a call that begins, ends without an entry, or fails.
LEMMA ReaddirListing ==
  ASSUME DirentInv, DirentInv', NEW p \in Process, NEW dirp \in Dirp, Readdir(p, dirp)
  PROVE  ListingRefines
  <1>1. p \in running /\ call[p] = NoCall
    BY DEF Readdir, Ready
  <1>2. CASE ReaddirBadDir(p, dirp) \/ GetdentsFails(p)
    <2>1. UNCHANGED <<running, fds, call, returned, torn>> /\ ret'.err = "E"
      BY <1>2 DEF ReaddirBadDir, GetdentsFails, Returns
    <2>2. \A d \in Desc : SameListing(d)
      BY <2>1 DEF SameListing, Status, Seen, Taking, Listed, InUse
    <2>3. QED
      BY <2>1, <2>2, NothingListed
  <1>3. ASSUME ~NotOpen(p, dirp) PROVE Complement(dirp) \in Fd /\ fds[p][Complement(dirp)] # Closed
    BY <1>3, DirentAssumption, SMT DEF NotOpen, Dirp, Complement, Fd
  <1>4. QED
    BY <1>1, <1>2, <1>3, EndIsTold, GetdentsBegins DEF Readdir

\* The call of p returns entry e of the stream it is inside.
LEMMA SeekTakes ==
  ASSUME DirentInv, DirentInv', NEW p \in Process, NEW d \in Desc, NEW e \in Entry,
         p \in running, Inside(p, d), e = call[p].entry, e \notin BadCookie, SeekBack(p)
  PROVE  ListingRefines
  <1>1. /\ call' = [call EXCEPT ![p] = NoCall] /\ running' = running /\ fds' = fds
        /\ torn' = torn /\ ret' = [err |-> "0", result |-> e]
        /\ returned' = [returned EXCEPT ![d] = IF torn[d] THEN <<>> ELSE Append(@, e)]
    BY DEF SeekBack, Inside, Returns
  <1>2. \A f : Inside(p, f) => f = d
    BY DEF Inside
  <1>3. call'[p] = NoCall /\ \A q \in Process \ {p} : call'[q] = call[q]
    BY <1>1 DEF DirentInv, DirentTypeOK
  <1>4. /\ \A q \in Process \ {p} : \A f : Inside(q, f)' <=> Inside(q, f)
        /\ \A f : ~Inside(p, f)'
    BY <1>1, <1>3 DEF Inside
  <1>5. \A f \in Desc : InUse(f)' <=> InUse(f)
    BY <1>1 DEF InUse
  <1>6. ASSUME NEW f \in Desc \ {d} PROVE SameListing(f)
    <2>1. returned'[f] = returned[f] /\ torn'[f] = torn[f]
      BY <1>1 DEF DirentInv, DirentTypeOK
    <2>2. \A q \in Process : Inside(q, f)' <=> Inside(q, f)
      BY <1>2, <1>4
    <2>3. QED
      BY <1>5, <2>1, <2>2, StreamKept DEF DirentInv
  <1>7. InUse(d)
    BY DEF Inside, InUse, DirentInv, CallsAreOpen
  <1>8. CASE torn[d]
    <2>1. ~Listed(d) /\ ~Listed(d)' /\ Status(d) = "lost"
      BY <1>1, <1>7, <1>8 DEF Listed, Status
    <2>2. SameListing(d)
      BY <1>1, <2>1, <1>5, <1>7 DEF SameListing, Status, Seen, Taking
    <2>3. QED
      BY <1>6, <2>1, <2>2, NothingListed
  <1>9. CASE ~torn[d]
    <2>1. Listed(d) /\ Listed(d)'
      BY <1>1, <1>5, <1>7, <1>9 DEF Listed
    <2>2. Ordered(d)
      BY <1>7, <1>9 DEF DirentInv, DirentTypeOK
    <2>3. returned[d] = First(e - 1)
      BY <2>2 DEF Ordered
    <2>4. returned'[d] = Append(returned[d], e)
      BY <1>1, <1>9 DEF DirentInv, DirentTypeOK
    <2>5. Taking(d) /\ ~Taking(d)'
      <3>1. ~\E q \in Process : Inside(q, d)'
        BY <1>4, <2>2 DEF Ordered
      <3>2. Taking(d)
        BY <2>1, TakingIsInside DEF DirentInv
      <3>3. ~Taking(d)'
        BY <3>1 DEF Taking, Inside, DirentInv, DirentTypeOK
      <3>4. QED
        BY <3>2, <3>3
    <2>6. Len(Seen(d)) + 1 = e /\ [i \in Entry |-> i][e] = e
      <3>1. e \in Nat /\ e - 1 \in Nat
        BY DirentAssumption, SMT DEF Entry
      <3>2. Len(First(e - 1)) = e - 1
        BY <3>1 DEF First
      <3>3. QED
        BY <2>1, <2>3, <3>1, <3>2 DEF Seen
    <2>7. Status(d)' = Status(d) /\ Seen(d)' = Append(Seen(d), e)
      BY <2>1, <2>4 DEF Status, Seen
    <2>8. [f \in Desc |-> Status(f)]' = [f \in Desc |-> Status(f)]
      BY <1>6, <2>7 DEF SameListing
    <2>9. L!Takes(d)
      BY <1>1, <1>6, <2>5, <2>6, <2>7, <2>8, OnlyOne DEF L!Takes, L!Answers
    <2>10. QED
      BY <2>9 DEF ListingRefines, L!ListingNext
  <1>10. QED
    BY <1>8, <1>9

\* lseek() fails: the rest of the batch is lost and the caller is told.
LEMMA SeekLoses ==
  ASSUME DirentInv, DirentInv', NEW p \in Process, NEW d \in Desc,
         p \in running, Inside(p, d), SeekFails(p)
  PROVE  ListingRefines
  <1>1. /\ call' = [call EXCEPT ![p] = NoCall] /\ running' = running /\ fds' = fds
        /\ torn' = [torn EXCEPT ![d] = TRUE] /\ returned' = returned /\ ret'.err = "E"
    BY DEF SeekFails, Inside, Returns
  <1>2. \A f : Inside(p, f) => f = d
    BY DEF Inside
  <1>3. call'[p] = NoCall /\ \A q \in Process \ {p} : call'[q] = call[q]
    BY <1>1 DEF DirentInv, DirentTypeOK
  <1>4. /\ \A q \in Process \ {p} : \A f : Inside(q, f)' <=> Inside(q, f)
        /\ \A f : ~Inside(p, f)'
    BY <1>1, <1>3 DEF Inside
  <1>5. \A f \in Desc : InUse(f)' <=> InUse(f)
    BY <1>1 DEF InUse
  <1>6. ASSUME NEW f \in Desc \ {d} PROVE SameListing(f)
    <2>1. returned'[f] = returned[f] /\ torn'[f] = torn[f]
      BY <1>1 DEF DirentInv, DirentTypeOK
    <2>2. \A q \in Process : Inside(q, f)' <=> Inside(q, f)
      BY <1>2, <1>4
    <2>3. QED
      BY <1>5, <2>1, <2>2, StreamKept DEF DirentInv
  <1>7. InUse(d) /\ torn'[d]
    BY <1>1 DEF Inside, InUse, DirentInv, CallsAreOpen, DirentTypeOK
  <1>8. QED
    BY <1>1, <1>5, <1>6, <1>7, BecomesLost

\* lseek() ends a call.
LEMMA SeekListing ==
  ASSUME BadCookie = {}, DirentInv, DirentInv', NEW p \in Process, ReaddirSeek(p)
  PROVE  ListingRefines
  <1>1. call[p] # NoCall /\ p \in running
    BY DEF ReaddirSeek
  <1>2. PICK d \in Desc, e \in Entry : d = fds[p][call[p].fd] /\ e = call[p].entry
    BY <1>1, CallType DEF DirentInv, CallsAreOpen
  <1>3. Inside(p, d)
    BY <1>1, <1>2 DEF Inside
  <1>4. QED
    BY <1>1, <1>2, <1>3, SeekTakes, SeekLoses DEF ReaddirSeek

\* Every step of the programs is a step of the queues or changes nothing of them.
LEMMA NextListing ==
  BadCookie = {} /\ DirentInv /\ DirentInv' /\ [DirentNext]_direntVars => ListingRefines
  <1> SUFFICES ASSUME BadCookie = {}, DirentInv, DirentInv', [DirentNext]_direntVars
               PROVE  ListingRefines
    OBVIOUS
  <1>1. ASSUME UNCHANGED <<running, fds, call, ret, returned, torn>> PROVE ListingRefines
    <2>1. \A d \in Desc : SameListing(d)
      BY <1>1 DEF SameListing, Status, Seen, Taking, Listed, InUse
    <2>2. QED
      BY <1>1, <2>1, NothingListed
  <1>2. ASSUME NEW p \in Process, Fdopendir(p, -1) PROVE ListingRefines
    BY <1>1, <1>2 DEF Fdopendir
  <1>3. CASE UNCHANGED direntVars
    BY <1>1, <1>3 DEF direntVars
  <1>4. CASE DirentNext
    BY <1>2, <1>4, OpendirOpens, ClosedirCloses, ReaddirListing, SeekListing, ForkShares
       DEF DirentNext
  <1>5. QED
    BY <1>3, <1>4

LEMMA ListingBegins == DirentInit => L!ListingInit
  <1> SUFFICES ASSUME DirentInit PROVE L!ListingInit
    OBVIOUS
  <1>1. \A d \in Desc : ~InUse(d)
    BY DirentAssumption DEF DirentInit, InUse
  <1>2. \A d \in Desc : Status(d) = "closed" /\ Seen(d) = <<>> /\ ~Taking(d)
    BY <1>1 DEF Status, Seen, Taking, Listed
  <1>3. ret.err # "0"
    BY DEF DirentInit
  <1>4. QED
    BY <1>2, <1>3 DEF L!ListingInit

\* For any number of processes that share streams, any batches and any errors of the
\* kernel: as long as no d_off looks like a failed lseek(), readdir_r() implements the
\* queues of module Listing.
THEOREM DirentImplementsListing ==
  ASSUME BadCookie = {}
  PROVE  DirentSpec => StreamsAreListings
  <1>1. DirentInv /\ [DirentNext]_direntVars => DirentInv'
    BY DirentInvNext
  <1>2. DirentInv /\ DirentInv' /\ [DirentNext]_direntVars => [L!ListingNext]_(L!listingVars)
    BY NextListing DEF ListingRefines
  <1>3. QED
    BY <1>1, <1>2, DirentInvInit, ListingBegins, PTL
       DEF DirentSpec, StreamsAreListings, L!ListingSpec

-----------------------------------------------------------------------------
(* The loops over write() and read(), for any number of writers, any capacity  *)
(* of the pipe, any quotas, line sizes and number of signals: counts are exact, *)
(* the bytes of a writer go in order and once, and none that was read is       *)
(* dropped.                                                                    *)

\* A call in progress has bytes left to write, and its writer has them.
Fits(w) ==
  InCall(w) => /\ wcall[w].size > 0
               /\ wcall[w].written < wcall[w].nmemb
               /\ wcall[w].done < wcall[w].size
               /\ given[w] + wcall[w].size * wcall[w].nmemb <= Quota[w]

TypeInv ==
  /\ TypeOK
  /\ \A w \in Writer : Fits(w) /\ given[w] <= Quota[w]
  /\ rsize = 0 => line = <<>>

-----------------------------------------------------------------------------
(* Items and bytes.                                                        *)

\* The items up to one have as many bytes as there are, and no more than those up to
\* a later one.
LEMMA ItemFacts ==
  ASSUME NEW a \in Nat, NEW b \in Nat, NEW s \in Nat
  PROVE  /\ a * s \in Nat /\ s * a = a * s
         /\ (a + 1) * s = a * s + s
         /\ a <= b => a * s <= b * s
         /\ a < b => a * s + s <= b * s
  <1>1. a * s \in Nat /\ s * a = a * s /\ (a + 1) * s = a * s + s
    BY SMT
  <1>2. \A m, n \in Nat : m <= n => m * s <= n * s
    BY SMT
  <1>3. a < b => (a + 1) * s <= b * s
    BY <1>2, SMT
  <1>4. QED
    BY <1>1, <1>2, <1>3, SMT

LEMMA IdleType == Idle \in Call
  BY StreamsAssumption, SMT DEF Idle, Call

\* Where the next byte of w comes from: behind the calls that returned and the items
\* and bytes that the call in progress has written.
Position(w) == given[w] + wcall[w].written * wcall[w].size + wcall[w].done

\* What write() makes of a call when it takes n of the bytes it was asked to.
LEMMA WroteFacts ==
  ASSUME TypeInv, NEW w \in Writer, InCall(w), NEW n \in Nat \ {0}, n <= Asked(wcall[w])
  PROVE  LET b == wcall[w]
             c == Wrote(b, n)
         IN  /\ b \in Call /\ c \in Call /\ c # Idle
             /\ c.size = b.size /\ c.nmemb = b.nmemb /\ c.done < c.size
             /\ c.written <= c.nmemb /\ (c.written = c.nmemb => c.done = 0)
             /\ c.written * c.size + c.done = b.written * b.size + b.done + n
             /\ Position(w) \in Nat
             /\ Position(w) + n <= given[w] + b.size * b.nmemb
             /\ b.size * b.nmemb \in Nat
  <1> DEFINE b == wcall[w]
             c == Wrote(b, n)
  <1>1. /\ b \in Call /\ b.size > 0 /\ b.written < b.nmemb /\ b.done < b.size
        /\ given[w] \in Nat
    BY StreamsAssumption DEF TypeInv, Fits, TypeOK
  <1>2. /\ b.size \in 0 .. MaxBytes /\ b.nmemb \in 0 .. MaxBytes
        /\ b.written \in 0 .. MaxBytes /\ b.done \in 0 .. MaxBytes /\ b.puts \in BOOLEAN
        /\ MaxBytes \in Nat
    BY <1>1, StreamsAssumption DEF Call
  <1>3. b.done + n <= b.size
    BY <1>1, <1>2, SMT DEF Asked
  <1>4. /\ (b.written + 1) * b.size = b.written * b.size + b.size
        /\ b.written * b.size \in Nat /\ b.size * b.nmemb = b.nmemb * b.size
        /\ b.nmemb * b.size \in Nat
        /\ b.written * b.size + b.size <= b.nmemb * b.size
    BY <1>1, <1>2, ItemFacts
  <1>5. CASE b.done + n = b.size
    <2>1. c = [b EXCEPT !.written = @ + 1, !.done = 0]
      BY <1>5 DEF Wrote
    <2>2. b.written + 1 \in 0 .. MaxBytes /\ 0 \in 0 .. MaxBytes
      BY <1>1, <1>2, SMT
    <2>3. /\ c \in Call /\ c.size = b.size /\ c.nmemb = b.nmemb
          /\ c.written = b.written + 1 /\ c.done = 0
      BY <1>1, <2>1, <2>2 DEF Call
    <2>4. QED
      BY <1>1, <1>2, <1>3, <1>4, <1>5, <2>3, SMT DEF Position, Idle
  <1>6. CASE b.done + n # b.size
    <2>1. c = [b EXCEPT !.done = @ + n]
      BY <1>6 DEF Wrote
    <2>2. b.done + n \in 0 .. MaxBytes
      BY <1>2, <1>3, SMT
    <2>3. /\ c \in Call /\ c.size = b.size /\ c.nmemb = b.nmemb
          /\ c.written = b.written /\ c.done = b.done + n
      BY <1>1, <2>1, <2>2 DEF Call
    <2>4. c # Idle
      BY <1>1, <2>3 DEF Idle
    <2> DEFINE whole == b.written * b.size
               all == b.nmemb * b.size
    <2> HIDE DEF c, whole, all
    <2>5. whole \in Nat /\ all \in Nat /\ whole + b.size <= all
      BY <1>4 DEF whole, all
    <2>6. /\ b.size * b.nmemb = all /\ c.written * c.size = whole
          /\ Position(w) = given[w] + whole + b.done
      BY <1>4, <2>3 DEF whole, all, Position
    <2>7. /\ c.done < c.size /\ c.written <= c.nmemb /\ c.written # c.nmemb
          /\ whole + c.done = whole + b.done + n
      BY <1>1, <1>2, <1>3, <1>6, <2>3, <2>5, SMT
    <2>8. /\ given[w] + whole + b.done \in Nat
          /\ given[w] + whole + b.done + n <= given[w] + all
      BY <1>1, <1>2, <1>3, <2>5, SMT
    <2>9. c.written * c.size + c.done = b.written * b.size + b.done + n
      BY <2>6, <2>7 DEF whole
    <2>10. /\ Position(w) \in Nat
           /\ Position(w) + n <= given[w] + b.size * b.nmemb
           /\ b.size * b.nmemb \in Nat
      BY <2>5, <2>6, <2>8
    <2>11. QED
      BY <1>1, <2>3, <2>4, <2>7, <2>9, <2>10 DEF c
  <1>7. QED
    BY <1>5, <1>6

\* What write() puts into the pipe: n bytes of w in order, the first of them the one
\* at its position.
LEMMA BytesFacts ==
  ASSUME TypeInv, NEW w \in Writer, InCall(w), NEW n \in Nat \ {0}, n <= Asked(wcall[w])
  PROVE  LET bytes == NextBytes(w, wcall[w], n)
             more  == sent \o bytes
         IN  /\ bytes \in Seq(Byte) /\ Len(bytes) = n
             /\ more \in Seq(Byte) /\ Len(more) = Len(sent) + n
             /\ \A i \in 1 .. Len(sent) : more[i] = sent[i]
             /\ \A i \in (Len(sent) + 1) .. (Len(sent) + n) :
                  more[i].writer = w /\ more[i].nr = Position(w) + (i - Len(sent))
  <1> DEFINE bytes == NextBytes(w, wcall[w], n)
             more  == sent \o bytes
             b == wcall[w]
             from == given[w] + b.written * b.size + b.done
  <1>1. sent \in Seq(Byte) /\ Len(sent) \in Nat
    BY DEF TypeInv, TypeOK
  <1>2. /\ from = Position(w) /\ Position(w) \in Nat
        /\ Position(w) + n <= given[w] + b.size * b.nmemb
        /\ given[w] + b.size * b.nmemb <= MaxBytes
    <2>1. /\ given[w] + b.size * b.nmemb <= Quota[w]
          /\ Quota[w] \in 0 .. MaxBytes /\ given[w] \in 0 .. MaxBytes
      BY StreamsAssumption DEF TypeInv, Fits, TypeOK
    <2>2. b.size * b.nmemb \in Nat
      BY WroteFacts
    <2>3. given[w] + b.size * b.nmemb <= MaxBytes
      BY <2>1, <2>2, StreamsAssumption, SMT
    <2>4. QED
      BY <2>3, WroteFacts DEF Position
  <1>3. bytes = [i \in 1 .. n |-> [writer |-> w, nr |-> from + i,
                                   newline |-> b.puts /\ b.done + i = b.size]]
    BY DEF NextBytes
  <1>4. \A i \in 1 .. n : from + i \in 1 .. MaxBytes
    <2>1. Position(w) + n <= MaxBytes
      <3>1. given[w] \in Nat /\ b.size * b.nmemb \in Nat
        BY WroteFacts, StreamsAssumption DEF TypeInv, TypeOK
      <3> DEFINE product == b.size * b.nmemb
      <3> HIDE DEF product
      <3>2. QED
        BY <1>2, <3>1, StreamsAssumption, SMT DEF product
    <2>2. from \in Nat
      BY <1>2
    <2> HIDE DEF from
    <2>3. QED
      BY <1>2, <2>1, <2>2, StreamsAssumption, SMT
  <1> HIDE DEF from
  <1>5. \A i \in 1 .. n : bytes[i] \in Byte
    <2> SUFFICES ASSUME NEW i \in 1 .. n PROVE bytes[i] \in Byte
      OBVIOUS
    <2>1. bytes[i] = [writer |-> w, nr |-> from + i, newline |-> b.puts /\ b.done + i = b.size]
      BY <1>3
    <2>2. (b.puts /\ b.done + i = b.size) \in BOOLEAN
      OBVIOUS
    <2>3. QED
      BY <1>4, <2>1, <2>2 DEF Byte
  <1>6. bytes \in Seq(Byte) /\ Len(bytes) = n
    <2>1. bytes \in [1 .. n -> Byte]
      BY <1>3, <1>5
    <2>2. QED
      BY <2>1, SMT
  <1>7. \A i \in 1 .. n : bytes[i].writer = w /\ bytes[i].nr = from + i
    BY <1>3
  <1> HIDE DEF bytes
  <1>8. /\ more \in Seq(Byte) /\ Len(more) = Len(sent) + n
        /\ \A i \in 1 .. Len(sent) + n :
             more[i] = IF i <= Len(sent) THEN sent[i] ELSE bytes[i - Len(sent)]
    BY <1>1, <1>6, ConcatProperties
  <1> HIDE DEF more
  <1>9. \A i \in 1 .. Len(sent) : more[i] = sent[i]
    BY <1>1, <1>8, SMT
  <1>10. ASSUME NEW i \in (Len(sent) + 1) .. (Len(sent) + n)
         PROVE  more[i].writer = w /\ more[i].nr = Position(w) + (i - Len(sent))
    <2>1. more[i] = bytes[i - Len(sent)] /\ i - Len(sent) \in 1 .. n
      BY <1>1, <1>8, SMT
    <2>2. QED
      BY <1>2, <1>7, <2>1
  <1>11. QED
    BY <1>6, <1>8, <1>9, <1>10 DEF bytes, more
-----------------------------------------------------------------------------
(* Types.                                                                  *)

\* A call for bytes is a call, and is in progress.
LEMMA StartFacts ==
  ASSUME NEW c \in Call, c.size > 0
  PROVE  c # Idle
  BY DEF Idle, Call

LEMMA InitTypes == Init => TypeInv
  <1> SUFFICES ASSUME Init PROVE TypeInv
    OBVIOUS
  <1>1. 0 \in 0 .. MaxBytes /\ 0 \in 0 .. MaxErrors /\ 0 <= Capacity
    BY StreamsAssumption, SMT
  <1>2. <<>> \in Seq(Byte) /\ Len(<<>>) = 0 /\ 0 \in 0 .. 0 /\ 0 - 0 = 0 /\ ~(0 > 0)
    BY SMT
  <1>3. \A i \in DOMAIN line : ~line[i].newline
    BY SMT DEF Init
  <1>4. TypeOK
    BY <1>1, <1>2, <1>3, IdleType DEF Init, TypeOK
  <1>5. \A w \in Writer : Fits(w) /\ given[w] <= Quota[w]
    <2> TAKE w \in Writer
    <2>1. wcall[w] = Idle /\ given[w] = 0
      BY DEF Init
    <2>2. 0 <= Quota[w]
      BY StreamsAssumption, SMT
    <2>3. QED
      BY <2>1, <2>2 DEF Fits, InCall
  <1>6. QED
    BY <1>4, <1>5 DEF Init, TypeInv

\* A step that leaves the writers alone and keeps the types of the rest.
LEMMA OtherTypes ==
  ASSUME TypeInv, UNCHANGED <<given, wcall, last, sent>>,
         open' \subseteq Writer \cup {Reader},
         rpos' \in 0 .. Len(sent), Len(sent) - rpos' <= Capacity,
         rsize' \in LineSize \cup {0}, line' \in Seq(Byte), out' \in Seq(Byte),
         rsize' > 0 => Len(line') + 2 <= rsize',
         \A i \in DOMAIN line' : ~line'[i].newline,
         rsize' = 0 => line' = <<>>,
         errors' \in 0 .. MaxErrors
  PROVE  TypeInv'
  BY DEF TypeInv, TypeOK, Fits, InCall

\* A step of w that begins or ends a call, or goes on with it.
LEMMA WriterTypes ==
  ASSUME TypeInv, NEW w \in Writer, NEW c \in Call, NEW d \in Call, NEW g \in Nat,
         UNCHANGED <<open, rpos, rsize, line, out>>, errors' \in 0 .. MaxErrors,
         sent' \in Seq(Byte), Len(sent') >= Len(sent), Len(sent') - rpos <= Capacity,
         wcall' = [wcall EXCEPT ![w] = c], last' = [last EXCEPT ![w] = d],
         given' = [given EXCEPT ![w] = g], g <= Quota[w],
         c # Idle => /\ c.size > 0 /\ c.written < c.nmemb /\ c.done < c.size
                     /\ g + c.size * c.nmemb <= Quota[w]
  PROVE  TypeInv'
  <1>1. g \in 0 .. MaxBytes
    BY StreamsAssumption, SMT
  <1>2. rpos' \in 0 .. Len(sent')
    <2>1. Len(sent) \in Nat /\ Len(sent') \in Nat
      BY DEF TypeInv, TypeOK
    <2>2. QED
      BY <2>1, SMT DEF TypeInv, TypeOK
  <1>3. /\ given' \in [Writer -> 0 .. MaxBytes] /\ wcall' \in [Writer -> Call]
        /\ last' \in [Writer -> Call]
    BY <1>1 DEF TypeInv, TypeOK
  <1>4. TypeOK'
    BY <1>2, <1>3 DEF TypeInv, TypeOK
  <1>5. ASSUME NEW v \in Writer PROVE Fits(v)' /\ given'[v] <= Quota[v]
    <2>1. CASE v = w
      <3>1. wcall'[v] = c /\ given'[v] = g
        BY <2>1 DEF TypeInv, TypeOK
      <3>2. QED
        BY <2>1, <3>1 DEF Fits, InCall
    <2>2. CASE v # w
      <3>1. wcall'[v] = wcall[v] /\ given'[v] = given[v]
        BY <2>2 DEF TypeInv, TypeOK
      <3>2. QED
        BY <3>1 DEF Fits, InCall, TypeInv
    <2>3. QED
      BY <2>1, <2>2
  <1>6. QED
    BY <1>4, <1>5 DEF TypeInv

\* What a writer has given and asks for now is a number of bytes.
LEMMA GivenFacts ==
  ASSUME TypeInv, NEW w \in Writer
  PROVE  /\ given[w] \in Nat /\ given[w] <= Quota[w] /\ wcall[w] \in Call
         /\ wcall[w].size * wcall[w].nmemb \in Nat
         /\ given[w] + wcall[w].size * wcall[w].nmemb <= Quota[w]
  <1>1. given[w] \in Nat /\ given[w] <= Quota[w] /\ wcall[w] \in Call
    BY StreamsAssumption DEF TypeInv, TypeOK
  <1>2. wcall[w].size \in Nat /\ wcall[w].nmemb \in Nat
    BY <1>1, StreamsAssumption DEF Call
  <1>3. CASE InCall(w)
    BY <1>1, <1>2, <1>3, ItemFacts DEF TypeInv, Fits
  <1>4. CASE ~InCall(w)
    <2>1. wcall[w].size = 0 /\ wcall[w].nmemb = 0
      BY <1>4 DEF InCall, Idle
    <2>2. 0 * 0 = 0 /\ given[w] + 0 = given[w]
      BY <1>1, SMT
    <2>3. QED
      BY <1>1, <2>1, <2>2
  <1>5. QED
    BY <1>3, <1>4

LEMMA StartTypes ==
  ASSUME TypeInv, NEW w \in Writer, NEW c \in Call, c.size > 0, c.nmemb > 0,
         c.written = 0, c.done = 0, Start(w, c)
  PROVE  TypeInv'
  <1>1. /\ given' = [given EXCEPT ![w] = given[w]] /\ last' = [last EXCEPT ![w] = last[w]]
        /\ last[w] \in Call
    BY DEF Start, TypeInv, TypeOK
  <1>2. given[w] + c.size * c.nmemb <= Quota[w]
    BY StreamsAssumption, SMT DEF Start, TypeInv, TypeOK
  <1>3. /\ Len(sent') >= Len(sent) /\ Len(sent') - rpos <= Capacity /\ sent' \in Seq(Byte)
        /\ errors' \in 0 .. MaxErrors
    BY SMT DEF Start, TypeInv, TypeOK
  <1>4. c.written < c.nmemb /\ c.done < c.size
    OBVIOUS
  <1>5. QED
    BY <1>1, <1>2, <1>3, <1>4, WriterTypes, GivenFacts DEF Start

\* A call that ends without another byte.
LEMMA FinishTypes ==
  ASSUME TypeInv, NEW w \in Writer, Finish(w, wcall[w]), errors' \in 0 .. MaxErrors,
         UNCHANGED <<open, sent, rpos, rsize, line, out>>
  PROVE  TypeInv'
  <1>1. given' = [given EXCEPT ![w] = given[w] + wcall[w].size * wcall[w].nmemb]
    BY DEF Finish
  <1>2. Len(sent') >= Len(sent) /\ Len(sent') - rpos <= Capacity /\ sent' \in Seq(Byte)
    BY SMT DEF TypeInv, TypeOK
  <1>3. given[w] + wcall[w].size * wcall[w].nmemb \in Nat
    BY GivenFacts
  <1>4. QED
    BY <1>1, <1>2, <1>3, WriterTypes, GivenFacts, IdleType DEF Finish

LEMMA WriteSomeTypes ==
  ASSUME TypeInv, NEW w \in Writer, InCall(w), NEW n \in Nat \ {0}, WriteSome(w, n)
  PROVE  TypeInv'
  <1> DEFINE c == Wrote(wcall[w], n)
             g == given[w] + c.size * c.nmemb
  <1>1. n <= Asked(wcall[w]) /\ sent' = sent \o NextBytes(w, wcall[w], n)
    BY DEF WriteSome
  <1>2. /\ c \in Call /\ c.size = wcall[w].size /\ c.nmemb = wcall[w].nmemb
        /\ c.done < c.size /\ c.written <= c.nmemb
    BY <1>1, WroteFacts
  <1>3. g \in Nat /\ g <= Quota[w]
    BY <1>2, GivenFacts
  <1>4. sent' \in Seq(Byte) /\ Len(sent') = Len(sent) + n
    BY <1>1, BytesFacts
  <1>5. Len(sent') >= Len(sent) /\ Len(sent') - rpos <= Capacity /\ errors' \in 0 .. MaxErrors
    <2>1. Len(sent) \in Nat /\ rpos \in Nat /\ Capacity \in Nat
      BY StreamsAssumption DEF TypeInv, TypeOK
    <2>2. n <= Capacity - (Len(sent) - rpos) /\ errors' = errors
      BY DEF WriteSome
    <2>3. QED
      BY <1>4, <2>1, <2>2, SMT DEF TypeInv, TypeOK
  <1>6. CASE c.written = c.nmemb
    <2>1. wcall' = [wcall EXCEPT ![w] = Idle] /\ last' = [last EXCEPT ![w] = c]
          /\ given' = [given EXCEPT ![w] = g]
      BY <1>6 DEF WriteSome, Finish
    <2> HIDE DEF c, g
    <2>2. QED
      BY <1>2, <1>3, <1>4, <1>5, <2>1, WriterTypes, IdleType DEF WriteSome
  <1>7. CASE c.written # c.nmemb
    <2>1. /\ wcall' = [wcall EXCEPT ![w] = c] /\ last' = [last EXCEPT ![w] = last[w]]
          /\ given' = [given EXCEPT ![w] = given[w]] /\ last[w] \in Call
      BY <1>7 DEF WriteSome, TypeInv, TypeOK
    <2>2. /\ c.size > 0 /\ c.written < c.nmemb
          /\ given[w] + c.size * c.nmemb <= Quota[w]
      <3>1. c.written \in Nat /\ c.nmemb \in Nat /\ c.size > 0
        BY <1>2, StreamsAssumption DEF Call, TypeInv, Fits
      <3> HIDE DEF c
      <3>2. QED
        BY <1>2, <1>3, <1>7, <3>1
    <2> HIDE DEF c, g
    <2>3. QED
      BY <1>2, <1>4, <1>5, <2>1, <2>2, WriterTypes, GivenFacts DEF WriteSome
  <1>8. QED
    BY <1>6, <1>7

\* The reader got the next byte of the pipe.
LEMMA NextByteFacts ==
  ASSUME TypeInv, rpos < Len(sent)
  PROVE  /\ sent[rpos + 1] \in Byte
         /\ rpos \in Nat /\ Len(sent) \in Nat
         /\ rpos + 1 \in 0 .. Len(sent) /\ Len(sent) - (rpos + 1) <= Capacity
  <1>1. sent \in Seq(Byte) /\ Len(sent) \in Nat /\ rpos \in Nat /\ Capacity \in Nat
    BY StreamsAssumption DEF TypeInv, TypeOK
  <1>2. rpos + 1 \in 1 .. Len(sent)
    BY <1>1, SMT
  <1>3. QED
    BY <1>1, <1>2, SMT DEF TypeInv, TypeOK

LEMMA ReadTypes == TypeInv /\ ReadCall => TypeInv'
  <1> SUFFICES ASSUME TypeInv, ReadCall PROVE TypeInv'
    OBVIOUS
  <1>1. /\ line \in Seq(Byte) /\ out \in Seq(Byte) /\ Len(line) \in Nat
        /\ rsize \in Nat /\ rsize \in LineSize \cup {0} /\ rsize > 0
        /\ \A i \in DOMAIN line : ~line[i].newline
    BY StreamsAssumption DEF ReadCall, TypeInv, TypeOK
  <1>2. ASSUME NEW str \in Seq(Byte), FgetsReturns(str)
        PROVE  /\ rsize' \in LineSize \cup {0} /\ line' \in Seq(Byte) /\ out' \in Seq(Byte)
               /\ (rsize' > 0 => Len(line') + 2 <= rsize')
               /\ \A i \in DOMAIN line' : ~line'[i].newline
               /\ rsize' = 0 => line' = <<>>
    <2>1. out' \in Seq(Byte)
      BY <1>1, <1>2, ConcatProperties DEF FgetsReturns
    <2>2. line' = <<>> /\ rsize' = 0 /\ ~(0 > 0)
      BY <1>2, SMT DEF FgetsReturns
    <2>3. \A i \in DOMAIN <<>> : ~line'[i].newline
      BY SMT
    <2>4. QED
      BY <2>1, <2>2, <2>3
  <1>3. /\ UNCHANGED <<given, wcall, last, sent>> /\ open' \subseteq Writer \cup {Reader}
        /\ rpos \in 0 .. Len(sent) /\ Len(sent) - rpos <= Capacity /\ errors \in 0 .. MaxErrors
    BY DEF ReadCall, TypeInv, TypeOK
  <1>4. CASE ReadByte
    <2> DEFINE c == sent[rpos + 1]
               str == Append(line, c)
    <2>1. c \in Byte /\ rpos' \in 0 .. Len(sent) /\ Len(sent) - rpos' <= Capacity
      BY <1>4, NextByteFacts DEF ReadByte
    <2>2. errors' \in 0 .. MaxErrors /\ FgetsGets(c)
      BY <1>3, <1>4 DEF ReadByte
    <2> HIDE DEF c
    <2>3. /\ str \in Seq(Byte) /\ Len(str) = Len(line) + 1
          /\ \A i \in 1 .. Len(line) : str[i] = line[i]
          /\ str[Len(line) + 1] = c
      BY <1>1, <2>1, AppendProperties
    <2> HIDE DEF str
    <2>4. CASE c.newline \/ Len(str) + 1 >= rsize
      <3>1. FgetsReturns(str)
        BY <2>2, <2>4 DEF FgetsGets, str
      <3>2. QED
        BY <1>2, <1>3, <2>1, <2>2, <2>3, <3>1, OtherTypes
    <2>5. CASE ~(c.newline \/ Len(str) + 1 >= rsize)
      <3>1. line' = str /\ rsize' = rsize /\ out' = out
        BY <2>2, <2>5 DEF FgetsGets, str
      <3>2. Len(str) + 2 <= rsize /\ rsize # 0
        BY <1>1, <2>3, <2>5, SMT
      <3>3. \A i \in DOMAIN str : ~str[i].newline
        <4>1. DOMAIN str = 1 .. (Len(line) + 1) /\ DOMAIN line = 1 .. Len(line)
          BY <1>1, <2>3, LenProperties
        <4>2. \A i \in 1 .. (Len(line) + 1) : i \in 1 .. Len(line) \/ i = Len(line) + 1
          BY <1>1, SMT
        <4>3. QED
          BY <1>1, <2>3, <2>5, <4>1, <4>2
      <3>4. QED
        BY <1>1, <1>3, <2>1, <2>2, <2>3, <3>1, <3>2, <3>3, OtherTypes
    <2>6. QED
      BY <2>4, <2>5
  <1>5. CASE ReadEnd
    BY <1>1, <1>2, <1>3, <1>5, OtherTypes DEF ReadEnd
  <1>6. CASE ReadInterrupted
    <2>1. errors' \in 0 .. MaxErrors
      BY <1>3, <1>6, StreamsAssumption, SMT DEF ReadInterrupted
    <2>2. QED
      BY <1>1, <1>2, <1>3, <1>6, <2>1, OtherTypes DEF ReadInterrupted
  <1>7. QED
    BY <1>4, <1>5, <1>6 DEF ReadCall

LEMMA FgetcTypes == TypeInv /\ Fgetc => TypeInv'
  <1> SUFFICES ASSUME TypeInv, Fgetc PROVE TypeInv'
    OBVIOUS
  <1>1. /\ UNCHANGED <<given, wcall, last, sent, open, rsize, line>>
        /\ out \in Seq(Byte) /\ rpos \in 0 .. Len(sent) /\ Len(sent) - rpos <= Capacity
        /\ errors \in 0 .. MaxErrors
    BY DEF Fgetc, TypeInv, TypeOK
  <1>2. CASE rpos < Len(sent) /\ rpos' = rpos + 1 /\ out' = Append(out, sent[rpos + 1])
             /\ UNCHANGED errors
    <2>1. out' \in Seq(Byte) /\ rpos' \in 0 .. Len(sent) /\ Len(sent) - rpos' <= Capacity
      BY <1>1, <1>2, NextByteFacts, AppendProperties
    <2>2. QED
      BY <1>1, <1>2, <2>1, OtherTypes DEF TypeInv, TypeOK
  <1>3. CASE errors < MaxErrors /\ errors' = errors + 1 /\ UNCHANGED <<rpos, out>>
    <2>1. errors' \in 0 .. MaxErrors
      BY <1>1, <1>3, StreamsAssumption, SMT
    <2>2. QED
      BY <1>1, <1>3, <2>1, OtherTypes DEF TypeInv, TypeOK
  <1>4. QED
    BY <1>2, <1>3 DEF Fgetc

LEMMA NextTypes == TypeInv /\ [Next]_vars => TypeInv'
  <1> SUFFICES ASSUME TypeInv, [Next]_vars PROVE TypeInv'
    OBVIOUS
  <1>1. ASSUME NEW w \in Writer, NEW size \in 1 .. MaxBytes, NEW nmemb \in 1 .. MaxBytes,
               Fwrite(w, size, nmemb)
        PROVE  TypeInv'
    <2> DEFINE c == [Idle EXCEPT !.size = size, !.nmemb = nmemb]
    <2>1. /\ size \in 0 .. MaxBytes /\ nmemb \in 0 .. MaxBytes
          /\ size > 0 /\ nmemb > 0
      BY StreamsAssumption, SMT
    <2>2. /\ c \in Call /\ c.size = size /\ c.nmemb = nmemb /\ c.written = 0 /\ c.done = 0
      BY <2>1, IdleType DEF Idle, Call
    <2>3. Start(w, c)
      BY <1>1 DEF Fwrite
    <2> HIDE DEF c
    <2>4. QED
      BY <2>1, <2>2, <2>3, StartTypes
  <1>2. ASSUME NEW w \in Writer, FwriteNothing(w, 1) PROVE TypeInv'
    <2> DEFINE d == [Idle EXCEPT !.nmemb = 1, !.written = 1]
    <2>1. 1 \in 0 .. MaxBytes
      BY StreamsAssumption, SMT
    <2>2. d \in Call /\ d.size = 0 /\ d.nmemb = 1
      BY <2>1, IdleType DEF Idle, Call
    <2>3. 0 * 1 = 0 /\ given[w] + 0 = given[w]
      BY GivenFacts, SMT
    <2>4. /\ wcall' = [wcall EXCEPT ![w] = Idle] /\ last' = [last EXCEPT ![w] = d]
          /\ given' = [given EXCEPT ![w] = given[w]]
      BY <1>2, <2>2, <2>3 DEF FwriteNothing, Finish
    <2>5. Len(sent') >= Len(sent) /\ Len(sent') - rpos <= Capacity /\ sent' \in Seq(Byte)
          /\ errors' \in 0 .. MaxErrors
      BY <1>2, SMT DEF FwriteNothing, TypeInv, TypeOK
    <2> HIDE DEF d
    <2>6. QED
      BY <1>2, <2>2, <2>4, <2>5, GivenFacts, WriterTypes, IdleType DEF FwriteNothing
  <1>3. ASSUME NEW w \in Writer, NEW len \in 0 .. (MaxBytes - 1), Puts(w, len) PROVE TypeInv'
    <2> DEFINE c == [Idle EXCEPT !.puts = TRUE, !.size = len + 1, !.nmemb = 1]
    <2>1. len + 1 \in 0 .. MaxBytes /\ 1 \in 0 .. MaxBytes /\ len + 1 > 0 /\ 1 > 0
      BY StreamsAssumption, SMT
    <2>2. c \in Call /\ c.size = len + 1 /\ c.nmemb = 1 /\ c.written = 0 /\ c.done = 0
      BY <2>1, IdleType DEF Idle, Call
    <2>3. Start(w, c)
      BY <1>3 DEF Puts
    <2> HIDE DEF c
    <2>4. QED
      BY <2>1, <2>2, <2>3, StartTypes
  <1>4. ASSUME NEW w \in Writer, Fputc(w) PROVE TypeInv'
    <2> DEFINE c == [Idle EXCEPT !.size = 1, !.nmemb = 1]
    <2>1. 1 \in 0 .. MaxBytes /\ 1 > 0
      BY StreamsAssumption, SMT
    <2>2. c \in Call /\ c.size = 1 /\ c.nmemb = 1 /\ c.written = 0 /\ c.done = 0
      BY <2>1, IdleType DEF Idle, Call
    <2>3. Start(w, c)
      BY <1>4 DEF Fputc
    <2> HIDE DEF c
    <2>4. QED
      BY <2>1, <2>2, <2>3, StartTypes
  <1>5. ASSUME NEW w \in Writer, WriteCall(w) PROVE TypeInv'
    <2>1. ASSUME NEW n \in 1 .. MinOf(Capacity, MaxBytes), WriteSome(w, n) PROVE TypeInv'
      <3>1. n \in Nat \ {0}
        BY StreamsAssumption, SMT DEF MinOf
      <3>2. QED
        BY <1>5, <2>1, <3>1, WriteSomeTypes DEF WriteCall
    <2>2. CASE WriteInterrupted(w)
      <3>1. errors' \in 0 .. MaxErrors
        BY <2>2, StreamsAssumption, SMT DEF WriteInterrupted, TypeInv, TypeOK
      <3>2. QED
        BY <2>2, <3>1, FinishTypes DEF WriteInterrupted
    <2>3. CASE WriteBroken(w)
      BY <2>3, FinishTypes DEF WriteBroken, TypeInv, TypeOK
    <2>4. QED
      BY <1>5, <2>1, <2>2, <2>3 DEF WriteCall
  <1>6. ASSUME NEW size \in LineSize, Fgets(size) PROVE TypeInv'
    <2>1. size \in Nat /\ Len(<<>>) = 0
      BY StreamsAssumption
    <2>2. size > 1 /\ 0 + 2 <= size /\ size # 0
      BY <1>6, <2>1, SMT DEF Fgets
    <2>3. QED
      BY <1>6, <2>1, <2>2, OtherTypes DEF Fgets, TypeInv, TypeOK
  <1>7. ASSUME NEW p \in Writer \cup {Reader}, Fclose(p) PROVE TypeInv'
    BY <1>7, OtherTypes DEF Fclose, TypeInv, TypeOK
  <1>8. CASE UNCHANGED vars
    BY <1>8, OtherTypes DEF vars, TypeInv, TypeOK
  <1>9. QED
    BY <1>1, <1>2, <1>3, <1>4, <1>5, <1>6, <1>7, <1>8, ReadTypes, FgetcTypes DEF Next

LEMMA TypesAlways == Spec => []TypeInv
  BY InitTypes, NextTypes, PTL DEF Spec

\* The pipe holds no more than its capacity, a line fits its buffer with the terminator
\* of fgets(), and calls ask for what their writer has.
THEOREM StreamsTypes == Spec => []TypeOK
  <1>1. TypeInv => TypeOK
    BY DEF TypeInv
  <1>2. QED
    BY <1>1, TypesAlways, PTL

-----------------------------------------------------------------------------
(* What was read.                                                          *)

\* What was read stays what it was when bytes are put behind it.
LEMMA ReadKept ==
  ASSUME NEW s \in Seq(Byte), NEW t \in Seq(Byte), NEW n \in 0 .. Len(s)
  PROVE  SubSeq(s \o t, 1, n) = SubSeq(s, 1, n)
  <1>1. Len(s) \in Nat /\ n \in Nat
    BY SMT
  <1>2. CASE n = 0
    <2>1. SubSeq(s \o t, 1, n) = <<>> /\ SubSeq(s, 1, n) = <<>>
      BY <1>2, SubSeqEmpty
    <2>2. QED
      BY <2>1
  <1>3. CASE n # 0
    <2>1. 1 \in 1 .. Len(s) /\ n \in 1 .. Len(s)
      BY <1>1, <1>3, SMT
    <2>2. QED
      BY <2>1, SubSeqOfConcat1
  <1>4. QED
    BY <1>2, <1>3

\* What was read with the next byte.
LEMMA ReadOneMore ==
  ASSUME NEW s \in Seq(Byte), NEW n \in Nat, n < Len(s)
  PROVE  SubSeq(s, 1, n + 1) = Append(SubSeq(s, 1, n), s[n + 1])
  <1>1. Len(s) \in Nat /\ 1 \in 1 .. (n + 1) /\ 1 \in 1 .. Len(s)
        /\ n + 1 \in 1 .. Len(s) /\ (n + 1) - 1 = n
    BY SMT
  <1>2. SubSeq(s, 1, n + 1) = SubSeq(s, 1, n) \o <<s[n + 1]>>
    BY <1>1, SubSeqRecursiveSecond
  <1>3. SubSeq(s, 1, n) \in Seq(Byte) /\ s[n + 1] \in Byte
    <2>1. s[n + 1] \in Byte /\ \A i \in 1 .. n : s[i] \in Byte
      BY <1>1
    <2>2. QED
      BY <2>1, SubSeqProperties
  <1>4. QED
    BY <1>2, <1>3, AppendIsConcat

\* A byte behind the line is behind all that was read.
LEMMA AppendBehind ==
  ASSUME NEW s \in Seq(Byte), NEW t \in Seq(Byte), NEW c \in Byte
  PROVE  s \o Append(t, c) = Append(s \o t, c)
  <1>1. Append(t, c) = t \o <<c>> /\ <<c>> \in Seq(Byte) /\ s \o t \in Seq(Byte)
    BY AppendIsConcat, ConcatProperties
  <1>2. s \o (t \o <<c>>) = (s \o t) \o <<c>>
    BY <1>1, ConcatAssociative
  <1>3. QED
    BY <1>1, <1>2, AppendIsConcat

LEMMA DroppedStep == TypeInv /\ NothingDropped /\ [Next]_vars => NothingDropped'
  <1> SUFFICES ASSUME TypeInv, NothingDropped, [Next]_vars PROVE NothingDropped'
    OBVIOUS
  <1>1. /\ sent \in Seq(Byte) /\ line \in Seq(Byte) /\ out \in Seq(Byte)
        /\ rpos \in 0 .. Len(sent) /\ rpos \in Nat
    BY DEF TypeInv, TypeOK
  <1>2. out \o line = SubSeq(sent, 1, rpos) /\ out \o <<>> = out
    BY <1>1, ConcatEmptySeq DEF NothingDropped
  <1>3. ASSUME UNCHANGED <<out, line, rpos, sent>> PROVE NothingDropped'
    BY <1>3 DEF NothingDropped
  <1>4. ASSUME NEW str \in Seq(Byte), FgetsReturns(str)
        PROVE  out' \o line' = out \o str
    <2>1. out \o str \in Seq(Byte)
      BY <1>1, ConcatProperties
    <2>2. QED
      BY <1>4, <2>1, ConcatEmptySeq DEF FgetsReturns
  <1>5. ASSUME NEW w \in Writer, NEW n \in Nat \ {0}, InCall(w), WriteSome(w, n)
        PROVE  NothingDropped'
    <2>1. NextBytes(w, wcall[w], n) \in Seq(Byte)
      BY <1>5, BytesFacts DEF WriteSome
    <2>2. SubSeq(sent', 1, rpos) = SubSeq(sent, 1, rpos)
      BY <1>1, <1>5, <2>1, ReadKept DEF WriteSome
    <2>3. QED
      BY <1>2, <1>5, <2>2 DEF WriteSome, NothingDropped
  <1>6. ASSUME NEW w \in Writer, WriteCall(w) PROVE NothingDropped'
    <2>1. \A n \in 1 .. MinOf(Capacity, MaxBytes) : n \in Nat \ {0}
      BY StreamsAssumption, SMT DEF MinOf
    <2>2. QED
      BY <1>3, <1>5, <1>6, <2>1 DEF WriteCall, WriteInterrupted, WriteBroken
  <1>7. CASE ReadCall
    <2>1. sent' = sent
      BY <1>7 DEF ReadCall
    <2>2. CASE ReadByte
      <3> DEFINE c == sent[rpos + 1]
                 str == Append(line, c)
      <3>1. c \in Byte /\ str \in Seq(Byte) /\ rpos < Len(sent)
        BY <1>1, <2>2, NextByteFacts, AppendProperties DEF ReadByte
      <3>2. out \o str = SubSeq(sent, 1, rpos + 1)
        BY <1>1, <1>2, <3>1, AppendBehind, ReadOneMore
      <3>3. rpos' = rpos + 1 /\ FgetsGets(c)
        BY <2>2 DEF ReadByte
      <3>4. out' \o line' = out \o str
        <4>1. FgetsReturns(str) \/ (line' = str /\ out' = out)
          BY <3>3 DEF FgetsGets
        <4> HIDE DEF str
        <4>2. QED
          BY <1>4, <3>1, <4>1
      <3>5. QED
        BY <2>1, <3>2, <3>3, <3>4 DEF NothingDropped
    <2>3. CASE ReadEnd \/ ReadInterrupted
      <3>1. FgetsReturns(line) /\ rpos' = rpos
        BY <2>3 DEF ReadEnd, ReadInterrupted
      <3>2. QED
        BY <1>1, <1>2, <1>4, <2>1, <3>1 DEF NothingDropped
    <2>4. QED
      BY <1>7, <2>2, <2>3 DEF ReadCall
  <1>8. CASE Fgetc
    <2>1. line = <<>> /\ line' = <<>> /\ sent' = sent
      BY <1>8 DEF Fgetc, TypeInv
    <2>2. CASE rpos < Len(sent) /\ rpos' = rpos + 1 /\ out' = Append(out, sent[rpos + 1])
      <3>1. out' = SubSeq(sent, 1, rpos + 1)
        BY <1>1, <1>2, <2>1, <2>2, ReadOneMore
      <3>2. out' \in Seq(Byte)
        BY <1>1, <2>2, NextByteFacts, AppendProperties
      <3>3. out' \o <<>> = out'
        BY <3>2, ConcatEmptySeq
      <3>4. QED
        BY <2>1, <2>2, <3>1, <3>3 DEF NothingDropped
    <2>3. CASE UNCHANGED <<rpos, out>>
      BY <1>3, <2>1, <2>3
    <2>4. QED
      BY <1>8, <2>2, <2>3 DEF Fgetc
  <1>9. ASSUME NEW size \in LineSize, Fgets(size) PROVE NothingDropped'
    BY <1>3, <1>9 DEF Fgets
  <1>10. ASSUME NEW p \in Writer \cup {Reader}, Fclose(p) PROVE NothingDropped'
    BY <1>3, <1>10 DEF Fclose
  <1>11. ASSUME NEW w \in Writer,
                \/ \E size, nmemb \in 1 .. MaxBytes : Fwrite(w, size, nmemb)
                \/ FwriteNothing(w, 1)
                \/ \E len \in 0 .. (MaxBytes - 1) : Puts(w, len)
                \/ Fputc(w)
         PROVE  NothingDropped'
    BY <1>3, <1>11 DEF Fwrite, FwriteNothing, Puts, Fputc, Start
  <1>12. CASE UNCHANGED vars
    BY <1>3, <1>12 DEF vars
  <1>13. QED
    BY <1>6, <1>7, <1>8, <1>9, <1>10, <1>11, <1>12 DEF Next

\* All that read() took out of the pipe has reached the program or is in the line in
\* progress: fgets() loses nothing at a signal, at the end of the file or at the end of
\* its buffer.
THEOREM NothingReadIsDropped == Spec => []NothingDropped
  <1>1. Init => NothingDropped
    <2> SUFFICES ASSUME Init PROVE NothingDropped
      OBVIOUS
    <2>1. SubSeq(<<>>, 1, 0) = <<>>
      BY SubSeqEmpty
    <2>2. <<>> \o <<>> = <<>>
      BY ConcatEmptySeq
    <2>3. QED
      BY <2>1, <2>2 DEF Init, NothingDropped
  <1>2. QED
    BY <1>1, TypesAlways, DroppedStep, PTL DEF Spec

-----------------------------------------------------------------------------
(* What was written.                                                       *)

\* The bytes of w that were sent come before its position.
Behind(w) == \A k \in Sent(w) : k <= Position(w)

\* All that the call in progress has written was sent.
Written(w) == InCall(w) => (given[w] + 1) .. Position(w) \subseteq Sent(w)

\* Of the bytes of the call that returned last, those were sent that it counts, and
\* less than an item more.
Counted(w) ==
  LET c == last[w]
      start == given[w] - c.size * c.nmemb
  IN  ~InCall(w) => /\ \A k \in (start + 1) .. given[w] :
                         k \in Sent(w) <=> k <= start + (c.written * c.size + c.done)
                    /\ c.size > 0 => c.done < c.size
                    /\ c.size = 0 => c.written = c.nmemb
                    /\ start \in Nat

Progress(w) == Behind(w) /\ Written(w) /\ Counted(w)

OrderInv == InOrderOnce /\ \A w \in Writer : Progress(w)

\* The bytes of w in a sequence.
BytesOf(s, w) == {s[i].nr : i \in {j \in DOMAIN s : s[j].writer = w}}

LEMMA BytesAre ==
  ASSUME NEW s \in Seq(Byte), NEW w \in Writer
  PROVE  /\ BytesOf(s, w) \subseteq Nat
         /\ \A k : k \in BytesOf(s, w) <=>
                  \E i \in 1 .. Len(s) : s[i].writer = w /\ s[i].nr = k
  <1>1. DOMAIN s = 1 .. Len(s) /\ \A i \in 1 .. Len(s) : s[i] \in Byte
    BY LenProperties
  <1>2. \A c \in Byte : c.nr \in Nat
    <2>1. \A c \in Byte : c.nr \in 1 .. MaxBytes
      BY DEF Byte
    <2>2. 1 .. MaxBytes \subseteq Nat
      BY StreamsAssumption, SMT
    <2>3. QED
      BY <2>1, <2>2
  <1>3. QED
    BY <1>1, <1>2 DEF BytesOf

\* Nothing of w changes.
LEMMA ProgressSame ==
  ASSUME NEW w \in Writer, Progress(w), Sent(w)' = Sent(w),
         given'[w] = given[w], wcall'[w] = wcall[w], last'[w] = last[w]
  PROVE  Progress(w)'
  BY DEF Progress, Behind, Written, Counted, Position, InCall

\* A call that has written a part c of its bytes returns.
LEMMA FinishProgress ==
  ASSUME TypeInv, NEW w \in Writer, NEW c \in Call, NEW g \in Nat,
         c.size > 0, c.done < c.size,
         g + (c.written * c.size + c.done) <= g + c.size * c.nmemb,
         Sent(w)' \subseteq Nat,
         \A k \in Sent(w)' : k <= g + (c.written * c.size + c.done),
         (g + 1) .. (g + (c.written * c.size + c.done)) \subseteq Sent(w)',
         wcall'[w] = Idle, last'[w] = c, given'[w] = g + c.size * c.nmemb
  PROVE  Progress(w)'
  <1> DEFINE part == c.written * c.size + c.done
             all == c.size * c.nmemb
  <1>1. part \in Nat /\ all \in Nat /\ c.size \in Nat
    <2>1. c.size \in Nat /\ c.nmemb \in Nat /\ c.written \in Nat /\ c.done \in Nat
      BY StreamsAssumption DEF Call
    <2>2. c.written * c.size \in Nat
      BY <2>1, ItemFacts
    <2>3. QED
      BY <2>1, <2>2, ItemFacts
  <1>2. /\ \A k \in Sent(w)' : k <= g + part
        /\ (g + 1) .. (g + part) \subseteq Sent(w)'
        /\ g + part <= g + all /\ given'[w] = g + all
    OBVIOUS
  <1>3. ~InCall(w)' /\ Position(w)' = given'[w]
    <2>1. wcall'[w].written = 0 /\ wcall'[w].size = 0 /\ wcall'[w].done = 0
      BY DEF Idle
    <2>2. 0 * 0 = 0 /\ given'[w] + 0 + 0 = given'[w]
      BY <1>1, <1>2, SMT
    <2>3. QED
      BY <2>1, <2>2 DEF Position, InCall
  <1> HIDE DEF part, all
  <1>4. Behind(w)'
    <2>1. \A k \in Sent(w)' : k <= g + all
      BY <1>1, <1>2, SMT
    <2>2. QED
      BY <1>2, <1>3, <2>1 DEF Behind
  <1>5. Counted(w)'
    <2>1. given'[w] - all = g
      BY <1>1, <1>2, SMT
    <2>2. \A k \in (g + 1) .. (g + all) : k \in Sent(w)' <=> k <= g + part
      BY <1>1, <1>2, SMT
    <2>3. c.size # 0
      BY <1>1, SMT
    <2>4. QED
      BY <1>2, <2>1, <2>2, <2>3 DEF Counted, part, all
  <1>6. QED
    BY <1>3, <1>4, <1>5 DEF Progress, Written

\* The position in a call counts from what was given before.
LEMMA PositionIs ==
  ASSUME TypeInv, NEW w \in Writer
  PROVE  /\ Position(w) = given[w] + (wcall[w].written * wcall[w].size + wcall[w].done)
         /\ wcall[w].written * wcall[w].size + wcall[w].done \in Nat
         /\ ~InCall(w) => Position(w) = given[w]
  <1>1. given[w] \in Nat /\ wcall[w] \in Call
    BY GivenFacts
  <1>2. wcall[w].written \in Nat /\ wcall[w].size \in Nat /\ wcall[w].done \in Nat
    BY <1>1, StreamsAssumption DEF Call
  <1>3. wcall[w].written * wcall[w].size \in Nat
    BY <1>2, ItemFacts
  <1>4. ~InCall(w) => wcall[w].written = 0 /\ wcall[w].size = 0 /\ wcall[w].done = 0
    BY DEF InCall, Idle
  <1>5. 0 * 0 = 0 /\ given[w] + 0 + 0 = given[w]
    BY <1>1, SMT
  <1> DEFINE items == wcall[w].written * wcall[w].size
  <1>6. Position(w) = given[w] + items + wcall[w].done
    BY DEF Position
  <1> HIDE DEF items
  <1>7. items \in Nat
    BY <1>3 DEF items
  <1>8. Position(w) = given[w] + (items + wcall[w].done) /\ items + wcall[w].done \in Nat
    BY <1>1, <1>2, <1>6, <1>7, SMT
  <1>9. ~InCall(w) => Position(w) = given[w]
    BY <1>4, <1>5, <1>6 DEF items
  <1>10. QED
    BY <1>8, <1>9 DEF items

\* A call begins: nothing of it was sent.
LEMMA StartProgress ==
  ASSUME TypeInv, NEW w \in Writer, NEW c \in Call, c.size > 0, c.written = 0, c.done = 0,
         Progress(w), Start(w, c)
  PROVE  Progress(w)'
  <1>1. /\ ~InCall(w) /\ wcall'[w] = c /\ given'[w] = given[w] /\ Sent(w)' = Sent(w)
        /\ given[w] \in Nat /\ c.size \in Nat
    BY StreamsAssumption DEF Start, Sent, TypeInv, TypeOK, Call
  <1>2. Position(w)' = given[w]
    <2>1. 0 * c.size = 0 /\ given[w] + 0 + 0 = given[w]
      BY <1>1, SMT
    <2>2. QED
      BY <1>1, <2>1 DEF Position
  <1>3. Behind(w)'
    BY <1>1, <1>2, PositionIs DEF Progress, Behind
  <1>4. InCall(w)'
    BY <1>1, StartFacts DEF InCall
  <1>5. (given[w] + 1) .. given[w] = {}
    BY <1>1, SMT
  <1>6. QED
    BY <1>1, <1>2, <1>3, <1>4, <1>5 DEF Progress, Written, Counted

\* A call for no bytes.
LEMMA NothingProgress ==
  ASSUME TypeInv, NEW w \in Writer, Progress(w), FwriteNothing(w, 1)
  PROVE  Progress(w)'
  <1> DEFINE d == [Idle EXCEPT !.nmemb = 1, !.written = 1]
  <1>1. d.size = 0 /\ d.nmemb = 1 /\ d.written = 1 /\ d.done = 0
    BY DEF Idle
  <1>2. given[w] \in Nat /\ 0 * 1 = 0 /\ given[w] + 0 = given[w] /\ given[w] - 0 = given[w]
    BY GivenFacts, SMT
  <1>3. /\ ~InCall(w) /\ wcall'[w] = wcall[w] /\ last'[w] = d /\ given'[w] = given[w]
        /\ Sent(w)' = Sent(w)
    BY <1>1, <1>2 DEF FwriteNothing, Finish, InCall, Sent, TypeInv, TypeOK
  <1> HIDE DEF d
  <1>4. Behind(w)' /\ Written(w)'
    BY <1>3 DEF Progress, Behind, Written, Position, InCall
  <1>5. (given[w] + 1) .. given[w] = {} /\ ~(0 > 0)
    BY <1>2, SMT
  <1>6. Counted(w)'
    BY <1>1, <1>2, <1>3, <1>5 DEF Counted
  <1>7. QED
    BY <1>4, <1>6 DEF Progress

\* The pipe after write() has put bytes of w into it.
LEMMA SentAfter ==
  ASSUME TypeInv, NEW w \in Writer, InCall(w), NEW n \in Nat \ {0}, WriteSome(w, n)
  PROVE  /\ sent \in Seq(Byte) /\ sent' \in Seq(Byte) /\ Len(sent) \in Nat
         /\ Position(w) \in Nat
         /\ Len(sent') = Len(sent) + n
         /\ \A i \in 1 .. Len(sent) : sent'[i] = sent[i]
         /\ \A i \in (Len(sent) + 1) .. (Len(sent) + n) :
              sent'[i].writer = w /\ sent'[i].nr = Position(w) + (i - Len(sent))
  <1> DEFINE more == sent \o NextBytes(w, wcall[w], n)
  <1>1. n <= Asked(wcall[w]) /\ sent' = more
    BY DEF WriteSome
  <1>2. Position(w) \in Nat
    BY <1>1, WroteFacts
  <1>3. /\ more \in Seq(Byte) /\ Len(more) = Len(sent) + n
        /\ \A i \in 1 .. Len(sent) : more[i] = sent[i]
        /\ \A i \in (Len(sent) + 1) .. (Len(sent) + n) :
             more[i].writer = w /\ more[i].nr = Position(w) + (i - Len(sent))
    BY <1>1, BytesFacts
  <1> HIDE DEF more
  <1>4. sent \in Seq(Byte) /\ Len(sent) \in Nat
    BY DEF TypeInv, TypeOK
  <1>5. QED
    BY <1>1, <1>2, <1>3, <1>4

\* The bytes of w after write() has put some into the pipe: those and no others.
LEMMA SentGrows ==
  ASSUME TypeInv, NEW w \in Writer, InCall(w), NEW n \in Nat \ {0}, WriteSome(w, n)
  PROVE  /\ Sent(w)' = Sent(w) \cup ((Position(w) + 1) .. (Position(w) + n))
         /\ \A v \in Writer \ {w} : Sent(v)' = Sent(v)
         /\ Sent(w) \subseteq Nat /\ Sent(w)' \subseteq Nat
  <1> DEFINE s == sent
             t == sent'
             at == Position(w)
  <1>2. /\ s \in Seq(Byte) /\ t \in Seq(Byte) /\ Len(s) \in Nat /\ at \in Nat
        /\ Len(t) = Len(s) + n
        /\ \A i \in 1 .. Len(s) : t[i] = s[i]
        /\ \A i \in (Len(s) + 1) .. (Len(s) + n) : t[i].writer = w /\ t[i].nr = at + (i - Len(s))
    BY SentAfter
  <1>3. \A v : Sent(v) = BytesOf(s, v) /\ Sent(v)' = BytesOf(t, v)
    BY DEF Sent, BytesOf
  <1> HIDE DEF s, t, at
  <1>4. \A i \in 1 .. Len(t) : i \in 1 .. Len(s) \/ i \in (Len(s) + 1) .. (Len(s) + n)
    BY <1>2, SMT
  <1>5. 1 .. Len(s) \subseteq 1 .. Len(t)
    BY <1>2, SMT
  <1>6. ASSUME NEW v \in Writer PROVE BytesOf(s, v) \subseteq BytesOf(t, v)
    <2> SUFFICES ASSUME NEW k \in BytesOf(s, v) PROVE k \in BytesOf(t, v)
      OBVIOUS
    <2>1. PICK i \in 1 .. Len(s) : s[i].writer = v /\ s[i].nr = k
      BY <1>2, BytesAre
    <2>2. i \in 1 .. Len(t) /\ t[i].writer = v /\ t[i].nr = k
      BY <1>2, <1>5, <2>1
    <2>3. QED
      BY <1>2, <2>2, BytesAre
  <1>7. ASSUME NEW v \in Writer \ {w} PROVE BytesOf(t, v) = BytesOf(s, v)
    <2>1. ASSUME NEW k \in BytesOf(t, v) PROVE k \in BytesOf(s, v)
      <3>1. PICK i \in 1 .. Len(t) : t[i].writer = v /\ t[i].nr = k
        BY <1>2, BytesAre
      <3>2. i \in 1 .. Len(s)
        BY <1>2, <1>4, <3>1
      <3>3. s[i].writer = v /\ s[i].nr = k
        BY <1>2, <3>1, <3>2
      <3>4. QED
        BY <1>2, <3>2, <3>3, BytesAre
    <2>2. BytesOf(s, v) \subseteq BytesOf(t, v)
      BY <1>6
    <2>3. QED
      BY <2>1, <2>2
  <1>8. BytesOf(t, w) = BytesOf(s, w) \cup ((at + 1) .. (at + n))
    <2>1. ASSUME NEW k \in BytesOf(t, w), k \notin BytesOf(s, w)
          PROVE  k \in (at + 1) .. (at + n)
      <3>1. PICK i \in 1 .. Len(t) : t[i].writer = w /\ t[i].nr = k
        BY <1>2, <2>1, BytesAre
      <3>2. i \in (Len(s) + 1) .. (Len(s) + n)
        <4>1. ASSUME i \in 1 .. Len(s) PROVE FALSE
          <5>1. s[i].writer = w /\ s[i].nr = k
            BY <1>2, <3>1, <4>1
          <5>2. QED
            BY <1>2, <2>1, <4>1, <5>1, BytesAre
        <4>2. QED
          BY <1>2, <3>1, <4>1, SMT
      <3>3. k = at + (i - Len(s))
        BY <1>2, <3>1, <3>2
      <3>4. QED
        BY <1>2, <3>2, <3>3, SMT
    <2>2. ASSUME NEW k \in (at + 1) .. (at + n) PROVE k \in BytesOf(t, w)
      <3> DEFINE i == Len(s) + (k - at)
      <3>1. i \in 1 .. Len(t) /\ i \in (Len(s) + 1) .. (Len(s) + n) /\ at + (i - Len(s)) = k
        BY <1>2, SMT
      <3>2. t[i].writer = w /\ t[i].nr = k
        BY <1>2, <3>1
      <3> HIDE DEF i
      <3>3. QED
        BY <1>2, <3>1, <3>2, BytesAre
    <2>3. QED
      BY <1>6, <2>1, <2>2
  <1>9. BytesOf(s, w) \subseteq Nat /\ BytesOf(t, w) \subseteq Nat
    BY <1>2, BytesAre
  <1>10. QED
    BY <1>3, <1>7, <1>8, <1>9 DEF at

\* The bytes of w come in order: its next ones are behind those that were sent.
LEMMA OrderGrows ==
  ASSUME TypeInv, OrderInv, NEW w \in Writer, InCall(w), NEW n \in Nat \ {0}, WriteSome(w, n)
  PROVE  InOrderOnce'
  <1> DEFINE s == sent
             t == sent'
             at == Position(w)
  <1>2. /\ s \in Seq(Byte) /\ t \in Seq(Byte) /\ Len(s) \in Nat /\ at \in Nat
        /\ Len(t) = Len(s) + n
        /\ \A i \in 1 .. Len(s) : t[i] = s[i]
        /\ \A i \in (Len(s) + 1) .. (Len(s) + n) : t[i].writer = w /\ t[i].nr = at + (i - Len(s))
    BY SentAfter
  <1>3. /\ DOMAIN s = 1 .. Len(s) /\ DOMAIN t = 1 .. Len(t)
    BY <1>2, LenProperties
  <1>4. \A i, j \in 1 .. Len(s) : i < j /\ s[i].writer = s[j].writer => s[i].nr < s[j].nr
    BY <1>3 DEF OrderInv, InOrderOnce
  <1>5. \A i \in 1 .. Len(s) : s[i].writer = w => s[i].nr <= at /\ s[i].nr \in Nat
    <2>1. \A i \in 1 .. Len(s) : s[i].writer = w => s[i].nr \in BytesOf(s, w)
      BY <1>2, BytesAre
    <2>2. \A k \in BytesOf(s, w) : k <= at /\ k \in Nat
      BY <1>2, BytesAre DEF OrderInv, Progress, Behind, Sent, BytesOf
    <2>3. QED
      BY <2>1, <2>2
  <1> SUFFICES ASSUME NEW i \in 1 .. Len(t), NEW j \in 1 .. Len(t), i < j,
                      t[i].writer = t[j].writer
               PROVE  t[i].nr < t[j].nr
    BY <1>3 DEF InOrderOnce
  <1> HIDE DEF s, t, at
  <1>6. CASE j \in 1 .. Len(s)
    <2>1. i \in 1 .. Len(s)
      BY <1>2, <1>6, SMT
    <2>2. QED
      BY <1>2, <1>4, <1>6, <2>1
  <1>7. CASE j \notin 1 .. Len(s)
    <2>1. j \in (Len(s) + 1) .. (Len(s) + n)
      BY <1>2, <1>7, SMT
    <2>2. t[j].writer = w /\ t[j].nr = at + (j - Len(s))
      BY <1>2, <2>1
    <2>3. CASE i \in 1 .. Len(s)
      <3>1. t[i].nr <= at /\ t[i].nr \in Nat
        BY <1>2, <1>5, <2>2, <2>3
      <3>2. QED
        BY <1>2, <2>1, <2>2, <3>1, SMT
    <2>4. CASE i \notin 1 .. Len(s)
      <3>1. i \in (Len(s) + 1) .. (Len(s) + n)
        BY <1>2, <2>4, SMT
      <3>2. t[i].nr = at + (i - Len(s))
        BY <1>2, <3>1
      <3>3. QED
        BY <1>2, <2>1, <2>2, <3>1, <3>2, SMT
    <2>5. QED
      BY <2>3, <2>4
  <1>8. QED
    BY <1>6, <1>7

LEMMA WriteSomeProgress ==
  ASSUME TypeInv, OrderInv, NEW w \in Writer, InCall(w), NEW n \in Nat \ {0}, WriteSome(w, n)
  PROVE  Progress(w)'
  <1> DEFINE b == wcall[w]
             c == Wrote(b, n)
             at == Position(w)
             g == given[w]
             part == c.written * c.size + c.done
  <1>1. n <= Asked(b)
    BY DEF WriteSome
  <1>2. /\ c \in Call /\ c # Idle /\ c.size = b.size /\ c.nmemb = b.nmemb /\ c.done < c.size
        /\ c.written <= c.nmemb
        /\ part = b.written * b.size + b.done + n
    BY <1>1, WroteFacts
  <1>3. /\ at \in Nat /\ at + n <= g + b.size * b.nmemb
    BY <1>1, WroteFacts
  <1>4. g \in Nat /\ at = g + (b.written * b.size + b.done)
        /\ b.written * b.size + b.done \in Nat
    BY PositionIs, GivenFacts
  <1>5. part \in Nat /\ g + part = at + n
    <2> DEFINE done == b.written * b.size + b.done
    <2>1. done \in Nat /\ at = g + done /\ part = done + n
      BY <1>2, <1>4
    <2> HIDE DEF done, part, at, g
    <2>2. QED
      BY <1>4, <2>1, SMT
  <1>6. g + part <= g + c.size * c.nmemb
    BY <1>2, <1>3, <1>5
  <1>7. c.size > 0
    BY <1>2 DEF TypeInv, Fits
  <1>8. /\ Sent(w)' = Sent(w) \cup ((at + 1) .. (at + n))
        /\ Sent(w) \subseteq Nat /\ Sent(w)' \subseteq Nat
    BY SentGrows
  <1>9. \A k \in Sent(w) : k <= at
    BY DEF OrderInv, Progress, Behind
  <1>10. (g + 1) .. at \subseteq Sent(w)
    BY DEF OrderInv, Progress, Written
  <1>11. given[w] = g /\ given \in [Writer -> 0 .. MaxBytes] /\ wcall \in [Writer -> Call]
         /\ last \in [Writer -> Call]
    BY DEF TypeInv, TypeOK
  <1>12. CASE c.written = c.nmemb
    <2>1. wcall'[w] = Idle /\ last'[w] = c /\ given'[w] = g + c.size * c.nmemb
      BY <1>11, <1>12 DEF WriteSome, Finish
    <2> HIDE DEF c, at, g, part
    <2>2. \A k \in Sent(w)' : k <= g + part
      BY <1>3, <1>5, <1>8, <1>9, SMT
    <2>3. (g + 1) .. (g + part) \subseteq Sent(w)'
      BY <1>3, <1>4, <1>5, <1>8, <1>10, SMT
    <2>4. /\ \A k \in Sent(w)' : k <= g + (c.written * c.size + c.done)
          /\ (g + 1) .. (g + (c.written * c.size + c.done)) \subseteq Sent(w)'
          /\ g + (c.written * c.size + c.done) <= g + c.size * c.nmemb
      BY <1>6, <2>2, <2>3 DEF part
    <2>5. QED
      BY <1>2, <1>4, <1>7, <1>8, <2>1, <2>4, FinishProgress
  <1>13. CASE c.written # c.nmemb
    <2>1. wcall'[w] = c /\ given'[w] = g
      BY <1>11, <1>13 DEF WriteSome
    <2>2. InCall(w)'
      BY <1>2, <2>1 DEF InCall
    <2>3. Position(w)' = at + n
      <3>1. Position(w)' = given'[w] + wcall'[w].written * wcall'[w].size + wcall'[w].done
        BY DEF Position
      <3> DEFINE items == c.written * c.size
      <3>2. items \in Nat /\ c.done \in Nat
        BY <1>2, ItemFacts, StreamsAssumption DEF Call
      <3>3. Position(w)' = g + items + c.done /\ part = items + c.done
        BY <2>1, <3>1
      <3> HIDE DEF items, part, c, g, at
      <3>4. QED
        BY <1>4, <1>5, <3>2, <3>3, SMT
    <2> HIDE DEF c, at, g, part
    <2>4. \A k \in Sent(w)' : k <= at + n
      BY <1>3, <1>8, <1>9, SMT
    <2>5. (g + 1) .. (at + n) \subseteq Sent(w)'
      BY <1>3, <1>4, <1>8, <1>10, SMT
    <2>6. QED
      BY <2>1, <2>2, <2>3, <2>4, <2>5 DEF Progress, Behind, Written, Counted
  <1>14. QED
    BY <1>12, <1>13

\* A call ends without another byte.
LEMMA FinishedProgress ==
  ASSUME TypeInv, OrderInv, NEW w \in Writer, InCall(w), Finish(w, wcall[w]), sent' = sent
  PROVE  Progress(w)'
  <1> DEFINE c == wcall[w]
             g == given[w]
             part == c.written * c.size + c.done
             all == c.size * c.nmemb
  <1>1. c \in Call /\ c.size > 0 /\ c.done < c.size /\ c.written < c.nmemb
    BY GivenFacts DEF TypeInv, Fits
  <1>2. c.size \in Nat /\ c.nmemb \in Nat /\ c.written \in Nat /\ c.done \in Nat
    BY <1>1, StreamsAssumption DEF Call
  <1>3. part <= all /\ part \in Nat /\ all \in Nat
    <2> DEFINE items == c.written * c.size
    <2>1. items \in Nat /\ items + c.size <= c.nmemb * c.size /\ c.nmemb * c.size = all
          /\ all \in Nat
      BY <1>1, <1>2, ItemFacts
    <2>2. part = items + c.done
      OBVIOUS
    <2> HIDE DEF items, all, part
    <2>3. items + c.size <= all
      BY <2>1
    <2>4. QED
      BY <1>1, <1>2, <2>1, <2>2, <2>3, SMT
  <1>4. g \in Nat /\ Position(w) = g + part
    BY PositionIs, GivenFacts
  <1>5. g + part <= g + all
    <2> HIDE DEF g, part, all
    <2>1. QED
      BY <1>3, <1>4, SMT
  <1>6. /\ Sent(w)' = Sent(w) /\ Sent(w)' \subseteq Nat
    <2>1. sent \in Seq(Byte)
      BY DEF TypeInv, TypeOK
    <2>2. QED
      BY <2>1, BytesAre DEF Sent, BytesOf
  <1>7. /\ \A k \in Sent(w)' : k <= g + part
        /\ (g + 1) .. (g + part) \subseteq Sent(w)'
    BY <1>4, <1>6 DEF OrderInv, Progress, Behind, Written
  <1>8. wcall'[w] = Idle /\ last'[w] = c /\ given'[w] = g + all
    BY DEF Finish, TypeInv, TypeOK
  <1>9. QED
    BY <1>1, <1>4, <1>5, <1>6, <1>7, <1>8, FinishProgress

LEMMA OrderInit == Init => OrderInv
  <1> SUFFICES ASSUME Init PROVE OrderInv
    OBVIOUS
  <1>1. DOMAIN sent = {} /\ sent \in Seq(Byte)
    BY SMT DEF Init
  <1>2. \A w \in Writer : Sent(w) = {}
    BY <1>1 DEF Sent
  <1>3. InOrderOnce
    BY <1>1 DEF InOrderOnce
  <1>4. ASSUME NEW w \in Writer PROVE Progress(w)
    <2>1. wcall[w] = Idle /\ last[w] = Idle /\ given[w] = 0
      BY DEF Init
    <2>2. /\ Idle.size = 0 /\ Idle.nmemb = 0 /\ Idle.written = 0 /\ Idle.done = 0
      BY DEF Idle
    <2>3. 0 - 0 * 0 = 0 /\ (0 + 1) .. 0 = {} /\ 0 \in Nat /\ ~(0 > 0)
      BY SMT
    <2>4. QED
      BY <1>2, <2>1, <2>2, <2>3 DEF Progress, Behind, Written, Counted, InCall
  <1>5. QED
    BY <1>3, <1>4 DEF OrderInv

LEMMA OrderStep == TypeInv /\ OrderInv /\ [Next]_vars => OrderInv'
  <1> SUFFICES ASSUME TypeInv, OrderInv, [Next]_vars PROVE OrderInv'
    OBVIOUS
  <1>1. ASSUME sent' = sent PROVE InOrderOnce' /\ \A v \in Writer : Sent(v)' = Sent(v)
    BY <1>1 DEF OrderInv, InOrderOnce, Sent
  <1>2. ASSUME UNCHANGED <<sent, given, wcall, last>> PROVE OrderInv'
    BY <1>1, <1>2, ProgressSame DEF OrderInv
  <1>3. ASSUME NEW w \in Writer, Progress(w)', InOrderOnce',
               \A v \in Writer \ {w} : /\ Sent(v)' = Sent(v) /\ given'[v] = given[v]
                                        /\ wcall'[v] = wcall[v] /\ last'[v] = last[v]
        PROVE  OrderInv'
    BY <1>3, ProgressSame DEF OrderInv
  <1>4. ASSUME NEW w \in Writer, NEW c \in Call, c.size > 0, c.written = 0, c.done = 0, Start(w, c)
        PROVE  OrderInv'
    <2>1. Progress(w)'
      BY <1>4, StartProgress DEF OrderInv
    <2>2. sent' = sent /\ \A v \in Writer \ {w} : /\ given'[v] = given[v] /\ last'[v] = last[v]
                                                  /\ wcall'[v] = wcall[v]
      BY <1>4 DEF Start, TypeInv, TypeOK
    <2>3. QED
      BY <1>1, <1>3, <2>1, <2>2
  <1>5. ASSUME NEW w \in Writer, NEW c, Finish(w, c)
        PROVE  \A v \in Writer \ {w} : /\ given'[v] = given[v] /\ last'[v] = last[v]
                                        /\ wcall'[v] = wcall[v]
    BY <1>5 DEF Finish, TypeInv, TypeOK
  <1>6. ASSUME NEW w \in Writer, NEW size \in 1 .. MaxBytes, NEW nmemb \in 1 .. MaxBytes,
               Fwrite(w, size, nmemb)
        PROVE  OrderInv'
    <2> DEFINE c == [Idle EXCEPT !.size = size, !.nmemb = nmemb]
    <2>1. size \in 0 .. MaxBytes /\ nmemb \in 0 .. MaxBytes /\ size > 0
      BY StreamsAssumption, SMT
    <2>2. c \in Call /\ c.size = size /\ c.written = 0 /\ c.done = 0
      BY <2>1, IdleType DEF Idle, Call
    <2>3. Start(w, c)
      BY <1>6 DEF Fwrite
    <2> HIDE DEF c
    <2>4. QED
      BY <1>4, <2>1, <2>2, <2>3
  <1>7. ASSUME NEW w \in Writer, NEW len \in 0 .. (MaxBytes - 1), Puts(w, len) PROVE OrderInv'
    <2> DEFINE c == [Idle EXCEPT !.puts = TRUE, !.size = len + 1, !.nmemb = 1]
    <2>1. len + 1 \in 0 .. MaxBytes /\ 1 \in 0 .. MaxBytes /\ len + 1 > 0
      BY StreamsAssumption, SMT
    <2>2. c \in Call /\ c.size = len + 1 /\ c.written = 0 /\ c.done = 0
      BY <2>1, IdleType DEF Idle, Call
    <2>3. Start(w, c)
      BY <1>7 DEF Puts
    <2> HIDE DEF c
    <2>4. QED
      BY <1>4, <2>1, <2>2, <2>3
  <1>8. ASSUME NEW w \in Writer, Fputc(w) PROVE OrderInv'
    <2> DEFINE c == [Idle EXCEPT !.size = 1, !.nmemb = 1]
    <2>1. 1 \in 0 .. MaxBytes /\ 1 > 0
      BY StreamsAssumption, SMT
    <2>2. c \in Call /\ c.size = 1 /\ c.written = 0 /\ c.done = 0
      BY <2>1, IdleType DEF Idle, Call
    <2>3. Start(w, c)
      BY <1>8 DEF Fputc
    <2> HIDE DEF c
    <2>4. QED
      BY <1>4, <2>1, <2>2, <2>3
  <1>9. ASSUME NEW w \in Writer, FwriteNothing(w, 1) PROVE OrderInv'
    <2>1. Progress(w)'
      BY <1>9, NothingProgress DEF OrderInv
    <2>2. sent' = sent
      BY <1>9 DEF FwriteNothing
    <2>3. QED
      BY <1>1, <1>3, <1>5, <1>9, <2>1, <2>2 DEF FwriteNothing
  <1>10. ASSUME NEW w \in Writer, WriteCall(w) PROVE OrderInv'
    <2>1. ASSUME NEW n \in 1 .. MinOf(Capacity, MaxBytes), WriteSome(w, n) PROVE OrderInv'
      <3>1. n \in Nat \ {0} /\ InCall(w)
        BY <1>10, StreamsAssumption, SMT DEF MinOf, WriteCall
      <3>2. Progress(w)' /\ InOrderOnce' /\ \A v \in Writer \ {w} : Sent(v)' = Sent(v)
        BY <2>1, <3>1, WriteSomeProgress, OrderGrows, SentGrows
      <3>3. \A v \in Writer \ {w} : /\ given'[v] = given[v] /\ last'[v] = last[v]
                                     /\ wcall'[v] = wcall[v]
        BY <1>5, <2>1 DEF WriteSome, TypeInv, TypeOK
      <3>4. QED
        BY <1>3, <3>2, <3>3
    <2>2. ASSUME Finish(w, wcall[w]), sent' = sent PROVE OrderInv'
      BY <1>1, <1>3, <1>5, <1>10, <2>2, FinishedProgress DEF WriteCall
    <2>3. QED
      BY <1>10, <2>1, <2>2 DEF WriteCall, WriteInterrupted, WriteBroken
  <1>11. CASE ReadCall \/ Fgetc \/ (\E size \in LineSize : Fgets(size))
              \/ (\E p \in Writer \cup {Reader} : Fclose(p)) \/ UNCHANGED vars
    BY <1>2, <1>11 DEF ReadCall, Fgetc, Fgets, Fclose, vars
  <1>12. QED
    BY <1>6, <1>7, <1>8, <1>9, <1>10, <1>11 DEF Next

LEMMA OrderAlways == Spec => [](TypeInv /\ OrderInv)
  <1>1. TypeInv /\ OrderInv /\ [Next]_vars => (TypeInv /\ OrderInv)'
    BY NextTypes, OrderStep
  <1>2. QED
    BY <1>1, InitTypes, OrderInit, PTL DEF Spec

\* Each writer's bytes go into the pipe in order and once, with any interleaving of
\* writers and any short writes: the retry of _fwrite() starts where the write stopped.
THEOREM BytesInOrderOnce == Spec => []InOrderOnce
  <1>1. OrderInv => InOrderOnce
    BY DEF OrderInv
  <1>2. QED
    BY <1>1, OrderAlways, PTL

\* A call returns the number of its items that went into the pipe whole: fwrite() counts
\* none that a signal or a closed pipe cut, and misses none.
THEOREM ItemsAreCounted == Spec => []ItemsCounted
  <1>1. TypeInv /\ OrderInv => ItemsCounted
    <2> SUFFICES ASSUME TypeInv, OrderInv, NEW w \in Writer, ~InCall(w)
                 PROVE  LET c == last[w]
                            start == given[w] - c.size * c.nmemb
                        IN  \A i \in 1 .. c.nmemb :
                              i <= c.written <=>
                                ((start + (i - 1) * c.size + 1) .. (start + i * c.size))
                                  \subseteq Sent(w)
      BY DEF ItemsCounted
    <2> DEFINE c == last[w]
               start == given[w] - c.size * c.nmemb
    <2>1. /\ c \in Call /\ c.size \in Nat /\ c.nmemb \in Nat /\ c.written \in Nat /\ c.done \in Nat
      <3>1. c \in Call
        BY DEF TypeInv, TypeOK
      <3>2. QED
        BY <3>1, StreamsAssumption DEF Call
    <2>2. /\ \A k \in (start + 1) .. given[w] :
               k \in Sent(w) <=> k <= start + (c.written * c.size + c.done)
          /\ c.size > 0 => c.done < c.size
          /\ c.size = 0 => c.written = c.nmemb
          /\ start \in Nat
      BY DEF OrderInv, Progress, Counted
    <2>3. given[w] \in Nat /\ c.size * c.nmemb \in Nat /\ c.size * c.nmemb = c.nmemb * c.size
      BY <2>1, ItemFacts, GivenFacts
    <2>4. ASSUME NEW i \in 1 .. c.nmemb
          PROVE  i <= c.written <=>
                   ((start + (i - 1) * c.size + 1) .. (start + i * c.size)) \subseteq Sent(w)
      <3> DEFINE before == (i - 1) * c.size
                 upto == i * c.size
                 whole == c.written * c.size
                 all == c.nmemb * c.size
      <3>1. i \in Nat /\ i - 1 \in Nat /\ (i - 1) + 1 = i /\ i <= c.nmemb
        BY <2>1, SMT
      <3>2. /\ before \in Nat /\ upto \in Nat /\ whole \in Nat /\ all \in Nat
            /\ upto = before + c.size /\ upto <= all
        <4> DEFINE j == i - 1
        <4>1. j \in Nat /\ j + 1 = i
          BY <3>1
        <4> HIDE DEF j
        <4>2. j * c.size \in Nat /\ (j + 1) * c.size = j * c.size + c.size
          BY <2>1, <4>1, ItemFacts
        <4>3. upto \in Nat /\ whole \in Nat /\ all \in Nat /\ upto <= all
          BY <2>1, <3>1, ItemFacts
        <4>4. upto = j * c.size + c.size
          BY <4>1, <4>2
        <4>5. QED
          BY <4>2, <4>3, <4>4 DEF j
      <3>3. /\ i <= c.written => upto <= whole
            /\ c.written < i => whole + c.size <= upto
        BY <2>1, <3>1, ItemFacts
      <3>4. /\ \A k \in (start + 1) .. given[w] : k \in Sent(w) <=> k <= start + (whole + c.done)
            /\ given[w] = start + all
        <4>1. start = given[w] - all
          BY <2>3
        <4> HIDE DEF start, all
        <4>2. given[w] = start + all
          BY <2>2, <2>3, <3>2, <4>1, SMT
        <4>3. QED
          BY <2>2, <4>2
      <3> HIDE DEF before, upto, whole, all, start, c
      <3>5. CASE c.size = 0
        <4>1. i <= c.written
          BY <2>2, <3>1, <3>5
        <4>2. (start + before + 1) .. (start + upto) = {}
          BY <2>2, <3>2, <3>5, SMT
        <4>3. QED
          BY <4>1, <4>2 DEF before, upto
      <3>6. CASE c.size # 0 /\ i <= c.written
        <4>1. \A k \in (start + before + 1) .. (start + upto) :
                k \in (start + 1) .. given[w] /\ k <= start + (whole + c.done)
          BY <2>1, <2>2, <3>2, <3>3, <3>4, <3>6, SMT
        <4>2. (start + before + 1) .. (start + upto) \subseteq Sent(w)
          BY <3>4, <4>1
        <4>3. QED
          BY <3>6, <4>2 DEF before, upto
      <3>7. CASE c.size # 0 /\ ~(i <= c.written)
        <4>1. c.size > 0 /\ c.done < c.size /\ c.written < i
          BY <2>1, <2>2, <3>1, <3>7, SMT
        <4> DEFINE k == start + upto
        <4>2. /\ k \in (start + before + 1) .. (start + upto)
              /\ k \in (start + 1) .. given[w] /\ ~(k <= start + (whole + c.done))
          BY <2>1, <2>2, <3>2, <3>3, <3>4, <4>1, SMT
        <4>3. k \notin Sent(w)
          BY <3>4, <4>2
        <4>4. QED
          BY <3>7, <4>2, <4>3 DEF before, upto
      <3>8. QED
        BY <3>5, <3>6, <3>7
    <2>5. QED
      BY <2>4
  <1>2. QED
    BY <1>1, OrderAlways, PTL
=============================================================================
