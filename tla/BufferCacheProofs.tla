------------------------- MODULE BufferCacheProofs -------------------------
(* Proofs about BufferCache for any processes, blocks, contents and NBUF. *)
EXTENDS BufferCache, TLAPS, SequenceTheorems, FiniteSetTheorems, WellFoundedInduction,
        NaturalsInduction

(***************************************************************************)
(* The inductive invariant.  HoldInv: who has a buffer, and what it may    *)
(* rely on.  QueueInv: the driver's queue holds the buffers whose owners   *)
(* wait, and the disk works on its head.  PinInv: the dirty buffers that   *)
(* nobody is writing are the ones log_write pinned.                        *)
(***************************************************************************)
Waiting == {"ide_asleep", "ide_test"}
Holding == {"bread", "have", "changed", "iderw"} \cup Waiting

LruInv == \A i, j \in Bufs : lru[i] = lru[j] => i = j

\* Of a process: when it has a buffer and its lock, and what it may rely on.
HoldP(p) ==
  /\ pc[p] = "idle" <=> buf[p] = NoBuf
  /\ pc[p] # "idle" => blockno[buf[p]] \in Blocks
  /\ pc[p] \in Holding <=> (pc[p] # "idle" /\ owner[buf[p]] = p)
  /\ pc[p] = "lock_asleep" => owner[buf[p]] # NoProc
  /\ pc[p] \in {"have", "changed"} => valid[buf[p]]
  /\ pc[p] = "iderw" => ~InSync(buf[p])

\* Of a buffer: who owns it uses it, and its flags are those of a block.
HoldB(b) ==
  /\ owner[b] # NoProc => buf[owner[b]] = b
  /\ valid[b] => blockno[b] \in Blocks
  /\ dirty[b] => valid[b]

HoldInv == (\A p \in Users : HoldP(p)) /\ (\A b \in Bufs : HoldB(b))

In(s, b)    == \E i \in 1..Len(s) : s[i] = b
Distinct(s) == \A i, j \in 1..Len(s) : s[i] = s[j] => i = j
Queued(b)   == In(idequeue, b)

\* Of a buffer in the queue: there is work to do, and its owner waits for it.
QueueB(b) == Queued(b) => ~InSync(b) /\ owner[b] # NoProc /\ pc[owner[b]] \in Waiting

\* Of a process that waits: its buffer is in the queue until the work is done.
QueueP(p) == pc[p] = "ide_asleep" \/ (pc[p] = "ide_test" /\ ~InSync(buf[p])) => Queued(buf[p])

QueueInv ==
  /\ Distinct(idequeue)
  /\ \A b \in Bufs : QueueB(b)
  /\ \A p \in Users : QueueP(p)
  /\ cmd = IF idequeue = <<>> THEN NoCmd ELSE idestart(Head(idequeue))
  /\ irq => idequeue # <<>> /\ (cmd.write => disk[cmd.blk] = cmd.data)

Writing(b) == \E p \in Users : buf[p] = b /\ pc[p] \in {"iderw"} \cup Waiting
AtRest     == {b \in Pinned : ~Writing(b)}

PinInv == Cardinality(AtRest) <= MaxPinned

CleanInv == TRUE \notin DiskErrors => CleanIsOnDisk

IInv == TypeOK /\ LruInv /\ OneBufferPerBlock /\ HoldInv /\ QueueInv /\ PinInv /\ CleanInv /\ NoPanic

-----------------------------------------------------------------------------
\* There are two users for each process.
LEMMA UsersFacts ==
  /\ IsFiniteSet(Users) /\ Cardinality(Users) = 2 * Cardinality(Procs)
  /\ Cardinality(Procs) \in Nat /\ NoProc \notin Users
<1>1. IsFiniteSet({1, 2}) /\ Cardinality({1, 2}) = 2
  <2>1. IsFiniteSet({1}) /\ Cardinality({1}) = 1
    BY FS_Singleton
  <2>2. {1, 2} = {1} \cup {2} /\ 2 \notin {1}
    OBVIOUS
  <2> QED
    BY <2>1, <2>2, FS_AddElement
<1>2. IsFiniteSet(Procs \X {1, 2}) /\ Cardinality(Procs \X {1, 2}) = Cardinality(Procs) * 2
  BY <1>1, FS_Product, BufferCacheAssumption
<1>3. Cardinality(Procs) \in Nat
  BY FS_CardinalityType, BufferCacheAssumption
<1> QED
  BY <1>2, <1>3, BufferCacheAssumption DEF Users

\* What appending to a queue does to it.
LEMMA AppendIn ==
  ASSUME NEW s \in Seq(Bufs), NEW b \in Bufs
  PROVE  /\ Append(s, b) \in Seq(Bufs) /\ Append(s, b) # <<>>
         /\ Head(Append(s, b)) = IF s = <<>> THEN b ELSE Head(s)
         /\ \A c : In(Append(s, b), c) <=> In(s, c) \/ c = b
         /\ Distinct(s) /\ ~In(s, b) => Distinct(Append(s, b))
<1>1. /\ Append(s, b) \in Seq(Bufs) /\ Len(Append(s, b)) = Len(s) + 1 /\ Len(s) \in Nat
      /\ \A i \in 1..Len(s) : Append(s, b)[i] = s[i]
      /\ Append(s, b)[Len(s) + 1] = b
  BY AppendProperties, LenProperties
<1>2. Append(s, b) # <<>>
  BY <1>1, EmptySeq
<1>3. Head(Append(s, b)) = IF s = <<>> THEN b ELSE Head(s)
  <2>1. Head(Append(s, b)) = Append(s, b)[1]
    BY <1>1, <1>2
  <2>2. CASE s = <<>>
    BY <1>1, <2>1, <2>2
  <2>3. CASE s # <<>>
    <3>1. 1 \in 1..Len(s) /\ Head(s) = s[1]
      BY <1>1, <2>3, EmptySeq
    <3> QED
      BY <1>1, <2>1, <2>3, <3>1
  <2> QED
    BY <2>2, <2>3
<1>4. ASSUME NEW c PROVE In(Append(s, b), c) <=> In(s, c) \/ c = b
  BY <1>1 DEF In
<1>5. ASSUME Distinct(s), ~In(s, b) PROVE Distinct(Append(s, b))
  BY <1>1, <1>5 DEF Distinct, In
<1> QED
  BY <1>1, <1>2, <1>3, <1>4, <1>5

\* What taking the head off a queue does to it.
LEMMA TailIn ==
  ASSUME NEW s \in Seq(Bufs), s # <<>>, Distinct(s)
  PROVE  /\ Tail(s) \in Seq(Bufs) /\ Distinct(Tail(s)) /\ Head(s) \in Bufs /\ In(s, Head(s))
         /\ \A c : In(Tail(s), c) <=> In(s, c) /\ c # Head(s)
<1>1. /\ Head(s) \in Bufs /\ Tail(s) \in Seq(Bufs) /\ Len(Tail(s)) = Len(s) - 1
      /\ \A i \in 1..Len(Tail(s)) : Tail(s)[i] = s[i + 1]
      /\ Len(s) \in Nat \ {0} /\ Head(s) = s[1]
  BY HeadTailProperties, EmptySeq
<1>2. Distinct(Tail(s))
  <2> SUFFICES ASSUME NEW i \in 1..Len(Tail(s)), NEW j \in 1..Len(Tail(s)), Tail(s)[i] = Tail(s)[j]
               PROVE  i = j
    BY DEF Distinct
  <2>1. i + 1 \in 1..Len(s) /\ j + 1 \in 1..Len(s) /\ s[i + 1] = s[j + 1]
    BY <1>1
  <2>2. i + 1 = j + 1
    BY <2>1 DEF Distinct
  <2> QED
    BY <1>1, <2>2
<1>3. In(s, Head(s))
  BY <1>1 DEF In
<1>4. ASSUME NEW c, In(Tail(s), c) PROVE In(s, c) /\ c # Head(s)
  <2>1. PICK i \in 1..Len(Tail(s)) : Tail(s)[i] = c
    BY <1>4 DEF In
  <2>2. i + 1 \in 1..Len(s) /\ s[i + 1] = c /\ i + 1 # 1 /\ 1 \in 1..Len(s)
    BY <1>1, <2>1
  <2> QED
    BY <1>1, <2>2 DEF In, Distinct
<1>5. ASSUME NEW c, In(s, c), c # Head(s) PROVE In(Tail(s), c)
  <2>1. PICK i \in 1..Len(s) : s[i] = c
    BY <1>5 DEF In
  <2>2. i - 1 \in 1..Len(Tail(s)) /\ (i - 1) + 1 = i
    BY <1>1, <1>5, <2>1
  <2> QED
    BY <1>1, <2>1, <2>2 DEF In
<1> QED
  BY <1>1, <1>2, <1>3, <1>4, <1>5

\* A set of buffer indices that is not empty has a last member.
LEMMA LastOf ==
  ASSUME NEW S \in SUBSET Bufs, S # {}
  PROVE  \E i \in S : \A j \in (i + 1)..NBUF : j \notin S
<1> DEFINE T == {n \in Nat : \E i \in S : n = NBUF - i}
<1>1. NBUF \in Nat /\ \A i \in S : i \in 1..NBUF
  BY BufferCacheAssumption DEF Bufs
<1>2. T \subseteq Nat /\ T # {}
  BY <1>1
<1>3. PICK n \in T : \A m \in T : ~(<<m, n>> \in OpToRel(<, Nat))
  BY <1>2, NatLessThanWellFounded, WFMin
<1>4. \A m \in T : ~(m < n)
  BY <1>2, <1>3 DEF OpToRel
<1>5. PICK i \in S : n = NBUF - i
  BY <1>3
<1>6. ASSUME NEW j \in (i + 1)..NBUF, j \in S PROVE FALSE
  <2>1. NBUF - j \in T /\ NBUF - j < n
    BY <1>1, <1>5, <1>6
  <2> QED
    BY <1>4, <2>1
<1> QED
  BY <1>6


\* A buffer with no reference has no user, no owner and no request.
LEMMA Unused ==
  ASSUME IInv, NEW b \in Bufs, refcnt[b] = 0
  PROVE  owner[b] = NoProc /\ ~Queued(b) /\ \A q \in Users : buf[q] # b
<1>1. IsFiniteSet({q \in Users : buf[q] = b}) /\ Cardinality({q \in Users : buf[q] = b}) = 0
  <2>1. {q \in Users : buf[q] = b} \in SUBSET Users
    OBVIOUS
  <2> QED
    BY <2>1, FS_Subset, UsersFacts DEF IInv, OneBufferPerBlock
<1>2. \A q \in Users : buf[q] # b
  BY <1>1, FS_EmptySet
<1>3. owner[b] = NoProc
  BY <1>2 DEF IInv, HoldInv, HoldP, HoldB, TypeOK
<1> QED
  BY <1>2, <1>3 DEF IInv, QueueInv, QueueB

\* Only one buffer holds a block.
LEMMA OneHolder ==
  ASSUME IInv, NEW k \in Blocks, NEW b \in Bufs, NEW c \in Bufs, blockno[b] = k, blockno[c] = k
  PROVE  b = c
BY BufferCacheAssumption DEF IInv, OneBufferPerBlock

\* What bget does to the buffer b that it returns to p, cached or recycled.
Takes(p, b) ==
  /\ pc[p] = "idle"
  /\ buf' = [buf EXCEPT ![p] = b] /\ pc' = [pc EXCEPT ![p] = "lock"]
  /\ UNCHANGED <<lru, data, owner, idequeue, cmd, irq, disk, panicked>>

Hits(p, k, b) ==
  /\ blockno[b] = k /\ Takes(p, b)
  /\ refcnt' = [refcnt EXCEPT ![b] = @ + 1]
  /\ UNCHANGED <<blockno, valid, dirty>>

Recycles(p, k, b) ==
  /\ \A c \in Bufs : blockno[c] # k
  /\ refcnt[b] = 0 /\ ~dirty[b] /\ Takes(p, b)
  /\ blockno' = [blockno EXCEPT ![b] = k]
  /\ valid' = [valid EXCEPT ![b] = FALSE] /\ dirty' = [dirty EXCEPT ![b] = FALSE]
  /\ refcnt' = [refcnt EXCEPT ![b] = 1]

NoBuffers(p) ==
  /\ pc[p] = "idle" /\ \A b \in Bufs : ~Recyclable(b)
  /\ panicked' = "bget: no buffers"
  /\ UNCHANGED <<lru, blockno, refcnt, valid, dirty, data, owner, idequeue, cmd, irq, disk, pc, buf>>

\* bget of a cached block finds the buffer that holds it.
LEMMA HitStep ==
  ASSUME IInv, NEW p \in Users, NEW k \in Blocks, bget_hit(p, k)
  PROVE  \E b \in Bufs : Hits(p, k, b)
<1> DEFINE Found(i) == blockno[lru[i]] = k /\ \A j \in 1..(i - 1) : blockno[lru[j]] # k
<1>1. PICK c \in Bufs : blockno[c] = k
  BY DEF bget_hit, Cached
<1>2. PICK i \in Bufs : lru[i] = c
  BY DEF IInv, TypeOK
<1>3. ASSUME NEW j \in 1..(i - 1), blockno[lru[j]] = k PROVE FALSE
  <2>0. j \in Bufs /\ j # i
    BY BufferCacheAssumption DEF Bufs
  <2>1. j \in Bufs /\ j # i /\ lru[j] \in Bufs
    BY <2>0 DEF IInv, TypeOK
  <2>2. lru[j] = c
    BY <1>1, <1>3, <2>1, OneHolder
  <2> QED
    BY <1>2, <2>1, <2>2 DEF IInv, LruInv
<1>4. Found(i)
  BY <1>1, <1>2, <1>3
<1>5. /\ (CHOOSE j \in Bufs : Found(j)) \in Bufs
      /\ Found(CHOOSE j \in Bufs : Found(j))
  BY <1>4
<1>6. PICK j \in Bufs : j = CHOOSE m \in Bufs : Found(m)
  BY <1>5
<1>7. lru[j] \in Bufs /\ blockno[lru[j]] = k
  BY <1>5, <1>6 DEF IInv, TypeOK
<1>8. refcnt' = [refcnt EXCEPT ![lru[j]] = @ + 1] /\ buf' = [buf EXCEPT ![p] = lru[j]]
  BY <1>6 DEF bget_hit
<1> QED
  BY <1>7, <1>8 DEF bget_hit, Goto, flags, ide, Hits, Takes

\* bget of a block that is not cached recycles a buffer, unless there is none.
LEMMA RecycleStep ==
  ASSUME IInv, NEW p \in Users, NEW k \in Blocks, bget_recycle(p, k)
  PROVE  NoBuffers(p) \/ \E b \in Bufs : Recycles(p, k, b)
<1> DEFINE Last(i) == Recyclable(lru[i]) /\ \A j \in (i + 1)..NBUF : ~Recyclable(lru[j])
<1>1. pc[p] = "idle" /\ \A b \in Bufs : blockno[b] # k
  BY ZenonT(60) DEF bget_recycle, Cached
<1>2. CASE \E b \in Bufs : Recyclable(b)
  <2>1. PICK c \in Bufs : Recyclable(c)
    BY <1>2
  <2>2. PICK a \in Bufs : lru[a] = c
    BY DEF IInv, TypeOK
  <2> DEFINE S == {i \in Bufs : Recyclable(lru[i])}
  <2>3. S \in SUBSET Bufs /\ S # {}
    BY <2>1, <2>2
  <2>4. PICK i \in S : \A j \in (i + 1)..NBUF : j \notin S
    BY <2>3, LastOf
  <2>5. \A j \in (i + 1)..NBUF : j \in Bufs
    BY BufferCacheAssumption DEF Bufs
  <2>6. i \in Bufs /\ Last(i)
    BY <2>4, <2>5
  <2>7. /\ (CHOOSE j \in Bufs : Last(j)) \in Bufs
        /\ Last(CHOOSE j \in Bufs : Last(j))
    BY <2>6
  <2>8. PICK j \in Bufs : j = CHOOSE m \in Bufs : Last(m)
    BY <2>7
  <2>9. lru[j] \in Bufs /\ Recyclable(lru[j])
    BY <2>7, <2>8 DEF IInv, TypeOK
  <2>10. /\ blockno' = [blockno EXCEPT ![lru[j]] = k]
         /\ valid' = [valid EXCEPT ![lru[j]] = FALSE] /\ dirty' = [dirty EXCEPT ![lru[j]] = FALSE]
         /\ refcnt' = [refcnt EXCEPT ![lru[j]] = 1]
         /\ buf' = [buf EXCEPT ![p] = lru[j]] /\ pc' = [pc EXCEPT ![p] = "lock"]
         /\ UNCHANGED panicked
    BY <1>2, <2>8 DEF bget_recycle, Goto
  <2> QED
    BY <1>1, <2>9, <2>10 DEF bget_recycle, ide, Recycles, Takes, Recyclable
<1>3. CASE ~\E b \in Bufs : Recyclable(b)
  BY <1>1, <1>3 DEF bget_recycle, ide, flags, bcache, NoBuffers
<1> QED
  BY <1>2, <1>3

\* brelse moves a buffer to the head of the list and keeps the others in it.
LEMMA ToFrontIs ==
  ASSUME TypeOK, LruInv, NEW b \in Bufs
  PROVE  /\ ToFront(b) \in [Bufs -> Bufs]
         /\ \A c \in Bufs : \E i \in Bufs : ToFront(b)[i] = c
         /\ \A i, j \in Bufs : ToFront(b)[i] = ToFront(b)[j] => i = j
<1> DEFINE at == CHOOSE i \in Bufs : lru[i] = b
<1>1. at \in Bufs /\ lru[at] = b
  BY DEF TypeOK
<1> HIDE DEF at
<1> DEFINE f == [i \in Bufs |-> IF i = 1 THEN b ELSE IF i <= at THEN lru[i - 1] ELSE lru[i]]
<1>2. ToFront(b) = f
  BY DEF ToFront, at
<1>3. \A i \in Bufs : i > 1 => i - 1 \in Bufs
  BY BufferCacheAssumption DEF Bufs
<1>4. NBUF \in Nat /\ 1 \in Bufs /\ \A i \in Bufs : i \in Nat /\ i >= 1 /\ i <= NBUF
  BY BufferCacheAssumption DEF Bufs
<1>5. f \in [Bufs -> Bufs]
  <2>1. lru \in [Bufs -> Bufs]
    BY DEF TypeOK
  <2>2. ASSUME NEW i \in Bufs PROVE (IF i = 1 THEN b ELSE IF i <= at THEN lru[i - 1] ELSE lru[i]) \in Bufs
    <3>1. i = 1 \/ i - 1 \in Bufs
      BY <1>3, <1>4
    <3> QED
      BY <2>1, <3>1
  <2> QED
    BY <2>2
<1>6. ASSUME NEW c \in Bufs PROVE \E i \in Bufs : f[i] = c
  <2>1. PICK m \in Bufs : lru[m] = c
    BY DEF TypeOK
  <2>2. CASE m = at
    BY <1>1, <1>4, <2>1, <2>2
  <2>3. CASE m > at
    BY <1>1, <1>4, <2>1, <2>3
  <2>4. CASE m < at
    <3>1. m + 1 \in Bufs /\ m + 1 # 1 /\ m + 1 <= at /\ (m + 1) - 1 = m
      BY <1>1, <1>4, <2>4 DEF Bufs
    <3> QED
      BY <2>1, <3>1
  <2> QED
    BY <1>1, <1>4, <2>2, <2>3, <2>4
<1>7. ASSUME NEW i \in Bufs, NEW j \in Bufs, f[i] = f[j], i < j PROVE FALSE
  <2>1. \A m \in Bufs : f[m] = IF m = 1 THEN b ELSE IF m <= at THEN lru[m - 1] ELSE lru[m]
    OBVIOUS
  <2>2. CASE i = 1
    <3>1. CASE j <= at
      <4>1. j - 1 \in Bufs /\ j - 1 # at /\ lru[j - 1] = lru[at]
        BY <1>1, <1>3, <1>4, <1>7, <2>1, <2>2, <3>1
      <4> QED
        BY <1>1, <4>1 DEF LruInv
    <3>2. CASE j > at
      <4>1. j # at /\ lru[j] = lru[at]
        BY <1>1, <1>4, <1>7, <2>1, <2>2, <3>2
      <4> QED
        BY <1>1, <4>1 DEF LruInv
    <3> QED
      BY <1>1, <1>4, <3>1, <3>2
  <2>3. CASE i # 1
    <3>1. PICK m \in Bufs : m = IF i <= at THEN i - 1 ELSE i
      BY <1>1, <1>3, <1>4, <2>3
    <3>2. PICK o \in Bufs : o = IF j <= at THEN j - 1 ELSE j
      BY <1>1, <1>3, <1>4, <1>7, <2>3
    <3>3. lru[m] = lru[o]
      BY <1>1, <1>4, <1>7, <2>1, <2>3, <3>1, <3>2
    <3>4. m # o
      BY <1>1, <1>4, <1>7, <3>1, <3>2
    <3> QED
      BY <3>3, <3>4 DEF LruInv
  <2> QED
    BY <2>2, <2>3
<1>8. ASSUME NEW i \in Bufs, NEW j \in Bufs, f[i] = f[j] PROVE i = j
  BY <1>4, <1>7, <1>8
<1> QED
  BY <1>2, <1>5, <1>6, <1>8

\* How a process that takes a buffer changes the counts of the users.
LEMMA UserAdded ==
  ASSUME TypeOK, NEW p \in Users, NEW b \in Bufs, buf[p] = NoBuf, buf' = [buf EXCEPT ![p] = b],
         NEW c \in Bufs
  PROVE  Cardinality({q \in Users : buf'[q] = c})
           = IF c = b THEN Cardinality({q \in Users : buf[q] = c}) + 1
                      ELSE Cardinality({q \in Users : buf[q] = c})
<1> DEFINE U == {q \in Users : buf[q] = c}
<1> DEFINE V == {q \in Users : buf'[q] = c}
<1>1. NoBuf # c
  BY DEF NoBuf, Bufs
<1>2. p \notin U /\ U \in SUBSET Users
  BY <1>1
<1>3. V = IF c = b THEN U \cup {p} ELSE U
  BY ZenonT(60), <1>1 DEF TypeOK
<1>4. IsFiniteSet(U)
  BY <1>2, FS_Subset, UsersFacts
<1>5. Cardinality(U \cup {p}) = Cardinality(U) + 1
  BY <1>2, <1>4, FS_AddElement
<1> QED
  BY <1>3, <1>5

\* How a process that gives its buffer back changes the counts of the users.
LEMMA UserDropped ==
  ASSUME TypeOK, NEW p \in Users, NEW b \in Bufs, buf[p] = b, buf' = [buf EXCEPT ![p] = NoBuf],
         NEW c \in Bufs
  PROVE  Cardinality({q \in Users : buf'[q] = c})
           = IF c = b THEN Cardinality({q \in Users : buf[q] = c}) - 1
                      ELSE Cardinality({q \in Users : buf[q] = c})
<1> DEFINE U == {q \in Users : buf[q] = c}
<1> DEFINE V == {q \in Users : buf'[q] = c}
<1>1. NoBuf # c
  BY DEF NoBuf, Bufs
<1>2. U \in SUBSET Users /\ (p \in U <=> c = b)
  OBVIOUS
<1>3. V = IF c = b THEN U \ {p} ELSE U
  BY <1>1 DEF TypeOK
<1>4. IsFiniteSet(U)
  BY <1>2, FS_Subset, UsersFacts
<1>5. c = b => Cardinality(U \ {p}) = Cardinality(U) - 1
  BY <1>2, <1>4, FS_RemoveElement
<1> QED
  BY <1>3, <1>5

\* A reference count is at most the number of processes.
LEMMA CountRange ==
  ASSUME NEW S \in SUBSET Users
  PROVE  Cardinality(S) \in 0..Cardinality(Users)
<1>1. IsFiniteSet(S) /\ Cardinality(S) <= Cardinality(Users)
  BY FS_Subset, UsersFacts
<1>2. Cardinality(S) \in Nat /\ Cardinality(Users) \in Nat
  BY <1>1, FS_CardinalityType, UsersFacts
<1> QED
  BY <1>1, <1>2

\* What is in bounds stays in bounds when the counts are the numbers of users.
LEMMA RefType ==
  ASSUME OneBufferPerBlock', refcnt' \in [Bufs -> Int]
  PROVE  refcnt' \in [Bufs -> 0..Cardinality(Users)]
<1>1. ASSUME NEW c \in Bufs PROVE refcnt'[c] \in 0..Cardinality(Users)
  <2>1. refcnt'[c] = Cardinality({q \in Users : buf'[q] = c})
    BY DEF OneBufferPerBlock
  <2>2. {q \in Users : buf'[q] = c} \in SUBSET Users
    OBVIOUS
  <2> QED
    BY <2>1, <2>2, CountRange
<1> QED
  BY <1>1

\* A process that is somewhere in the cache has a buffer.
LEMMA HasBuf ==
  ASSUME TypeOK, HoldInv, NEW p \in Users, pc[p] # "idle"
  PROVE  buf[p] \in Bufs /\ blockno[buf[p]] \in Blocks
BY DEF TypeOK, HoldInv, HoldP, HoldB

\* The request at the head of the queue is the disk's command, and its owner waits.
LEMMA HeadOwner ==
  ASSUME TypeOK, HoldInv, QueueInv, idequeue # <<>>
  PROVE  /\ Head(idequeue) \in Bufs /\ Queued(Head(idequeue)) /\ cmd = idestart(Head(idequeue))
         /\ blockno[Head(idequeue)] \in Blocks
         /\ owner[Head(idequeue)] \in Users /\ buf[owner[Head(idequeue)]] = Head(idequeue)
         /\ pc[owner[Head(idequeue)]] \in Waiting
<1>1. idequeue \in Seq(Bufs) /\ Distinct(idequeue)
  BY DEF TypeOK, QueueInv, QueueB
<1>2. Head(idequeue) \in Bufs /\ Queued(Head(idequeue))
  BY <1>1, TailIn DEF Queued
<1> DEFINE b == Head(idequeue)
<1>3. owner[b] # NoProc /\ pc[owner[b]] \in Waiting
  BY <1>2 DEF QueueInv, QueueB
<1>4. owner[b] \in Users /\ buf[owner[b]] = b
  BY SMTT(60), <1>2, <1>3 DEF TypeOK, HoldInv, HoldP, HoldB
<1>5. blockno[b] \in Blocks
  BY <1>3, <1>4 DEF HoldInv, HoldP, HoldB, Waiting
<1>6. cmd = idestart(b)
  BY DEF QueueInv, QueueB
<1> QED
  BY <1>2, <1>3, <1>4, <1>5, <1>6

\* So does the owner of the one behind it.
LEMMA NextWaits ==
  ASSUME TypeOK, HoldInv, QueueInv, idequeue # <<>>, Tail(idequeue) # <<>>
  PROVE  Head(Tail(idequeue)) \in Bufs /\ blockno[Head(Tail(idequeue))] \in Blocks
<1>1. idequeue \in Seq(Bufs) /\ Distinct(idequeue)
  BY DEF TypeOK, QueueInv
<1>2. Tail(idequeue) \in Seq(Bufs) /\ Distinct(Tail(idequeue))
  BY <1>1, TailIn
<1> DEFINE b == Head(Tail(idequeue))
<1>3. b \in Bufs /\ Queued(b)
  BY <1>1, <1>2, TailIn DEF Queued
<1>4. owner[b] \in Users /\ buf[owner[b]] = b /\ pc[owner[b]] \in Waiting
  BY SMTT(60), <1>3 DEF QueueInv, QueueB, TypeOK, HoldInv, HoldB
<1> QED
  BY <1>3, <1>4 DEF HoldInv, HoldP, Waiting

\* What ideintr does with the request b at the head of the queue.
Serves(b, err) ==
  /\ irq /\ idequeue # <<>> /\ b = Head(idequeue)
  /\ irq' = FALSE /\ idequeue' = Tail(idequeue)
  /\ data' = IF dirty[b] \/ err THEN data ELSE [data EXCEPT ![b] = disk[blockno[b]]]
  /\ valid' = [valid EXCEPT ![b] = TRUE] /\ dirty' = [dirty EXCEPT ![b] = FALSE]
  /\ pc' = wakeup_buf(b)
  /\ cmd' = IF Tail(idequeue) = <<>> THEN NoCmd ELSE idestart(Head(Tail(idequeue)))
  /\ UNCHANGED <<lru, blockno, refcnt, owner, disk, buf>>
  /\ panicked' = IF Tail(idequeue) = <<>> THEN panicked ELSE idestart_panic(Head(Tail(idequeue)))

\* An interrupt comes for the request at the head of the queue.
LEMMA IntrStep ==
  ASSUME IInv, NEW err \in DiskErrors, ideintr(err)
  PROVE  \E b \in Bufs : Serves(b, err)
<1>1. irq /\ idequeue # <<>>
  BY DEF ideintr, IInv, QueueInv, QueueB
<1>2. Head(idequeue) \in Bufs /\ cmd = idestart(Head(idequeue))
  BY <1>1, HeadOwner DEF IInv
<1>3. cmd.blk = blockno[Head(idequeue)]
  BY <1>2 DEF idestart
<1>4. Serves(Head(idequeue), err)
  BY <1>1, <1>3 DEF ideintr, Serves, bcache
<1> QED
  BY <1>2, <1>4

\* The tests of bwrite, brelse and iderw for the lock never fail.
LEMMA HoldsLock ==
  ASSUME IInv, NEW p \in Users
  PROVE  /\ pc[p] \in {"have", "changed", "iderw"} => owner[buf[p]] = p /\ holdingsleep(buf[p], p)
         /\ pc[p] = "iderw" => ~InSync(buf[p])
<1>1. pc[p] \in {"have", "changed", "iderw"} => owner[buf[p]] = p
  BY DEF IInv, HoldInv, HoldP, Holding
<1>2. pc[p] = "iderw" => ~InSync(buf[p])
  BY DEF IInv, HoldInv, HoldP
<1> QED
  BY <1>1, <1>2, UsersFacts DEF holdingsleep

\* What iderw does: it puts its buffer into the queue, or there is no disk 1.
Enqueues(p) ==
  /\ pc[p] = "iderw" /\ owner[buf[p]] = p /\ ~InSync(buf[p])
  /\ idequeue' = Append(idequeue, buf[p])
  /\ cmd' = IF idequeue = <<>> THEN idestart(buf[p]) ELSE cmd
  /\ panicked' = IF idequeue = <<>> THEN idestart_panic(buf[p]) ELSE panicked
  /\ pc' = [pc EXCEPT ![p] = "ide_asleep"]
  /\ UNCHANGED <<lru, blockno, refcnt, valid, dirty, data, owner, irq, disk, buf>>

NoDisk ==
  /\ ~havedisk1 /\ panicked' = "iderw: ide disk 1 not present"
  /\ UNCHANGED <<lru, blockno, refcnt, valid, dirty, data, owner, idequeue, cmd, irq, disk, pc, buf>>

LEMMA IderwStep ==
  ASSUME IInv, NEW p \in Users, iderw(p)
  PROVE  Enqueues(p) \/ NoDisk
<1>1. pc[p] = "iderw" /\ owner[buf[p]] = p /\ holdingsleep(buf[p], p) /\ ~InSync(buf[p])
  BY HoldsLock DEF iderw
<1>2. CASE havedisk1
  BY <1>1, <1>2 DEF iderw, Enqueues, Goto, bcache, flags
<1>3. CASE ~havedisk1
  BY <1>1, <1>3 DEF iderw, NoDisk, bcache, flags, ide
<1> QED
  BY <1>2, <1>3

\* The queue is not disturbed by a step that leaves the waiting owners and their buffers alone.
LEMMA QueueKept ==
  ASSUME TypeOK, HoldInv, QueueInv, UNCHANGED <<idequeue, cmd, irq, disk>>,
         \A c \in Bufs : owner[c] # NoProc /\ pc[owner[c]] \in Waiting =>
           /\ blockno'[c] = blockno[c] /\ valid'[c] = valid[c] /\ dirty'[c] = dirty[c]
           /\ data'[c] = data[c] /\ owner'[c] = owner[c],
         \A q \in Users : pc[q] \in Waiting \/ pc'[q] \in Waiting =>
           pc'[q] = pc[q] /\ buf'[q] = buf[q]
  PROVE  QueueInv'
<1>1. ASSUME NEW c \in Bufs PROVE QueueB(c)'
  <2>1. QueueB(c) /\ (owner[c] # NoProc => owner[c] \in Users)
    BY DEF QueueInv, TypeOK
  <2> QED
    BY <2>1 DEF QueueB, Queued, InSync
<1>2. ASSUME NEW q \in Users PROVE QueueP(q)'
  <2>1. QueueP(q) /\ HoldP(q)
    BY DEF QueueInv, HoldInv
  <2>2. CASE pc'[q] \notin Waiting
    BY <2>2 DEF QueueP, Waiting
  <2>3. CASE pc'[q] \in Waiting
    <3>1. pc'[q] = pc[q] /\ buf'[q] = buf[q] /\ pc[q] # "idle" /\ pc[q] \in Holding
      BY <2>3 DEF Waiting, Holding
    <3>2. buf[q] \in Bufs /\ owner[buf[q]] = q /\ q # NoProc
      BY <2>1, <3>1, HasBuf, UsersFacts DEF HoldP
    <3>3. valid'[buf[q]] = valid[buf[q]] /\ dirty'[buf[q]] = dirty[buf[q]]
      BY <2>3, <3>1, <3>2
    <3> QED
      BY <2>1, <3>1, <3>3 DEF QueueP, InSync, Queued
  <2> QED
    BY <2>2, <2>3
<1>3. cmd' = IF idequeue' = <<>> THEN NoCmd ELSE idestart(Head(idequeue))'
  <2>1. CASE idequeue = <<>>
    BY <2>1 DEF QueueInv
  <2>2. CASE idequeue # <<>>
    <3>1. PICK b \in Bufs : b = Head(idequeue)
      BY <2>2, HeadOwner
    <3>2. owner[b] # NoProc /\ pc[owner[b]] \in Waiting
      BY <2>2, <3>1, HeadOwner, UsersFacts
    <3>3. blockno'[b] = blockno[b] /\ dirty'[b] = dirty[b] /\ data'[b] = data[b]
      BY <3>2
    <3>4. cmd' = idestart(b) /\ idequeue' # <<>> /\ Head(idequeue') = b
      BY <2>2, <3>1 DEF QueueInv
    <3> QED
      BY <3>3, <3>4 DEF idestart
  <2> QED
    BY <2>1, <2>2
<1> QED
  BY <1>1, <1>2, <1>3 DEF QueueInv

\* The cache is finite.
LEMMA BufsFinite == /\ IsFiniteSet(Bufs) /\ Cardinality(Bufs) = NBUF
                    /\ \A S \in SUBSET Bufs : IsFiniteSet(S) /\ Cardinality(S) \in Nat
<1>1. 1 \in Int /\ NBUF \in Int /\ NBUF >= 1
  BY BufferCacheAssumption
<1>2. IsFiniteSet(Bufs) /\ Cardinality(Bufs) = NBUF
  BY <1>1, FS_Interval DEF Bufs
<1>3. ASSUME NEW S \in SUBSET Bufs PROVE IsFiniteSet(S) /\ Cardinality(S) \in Nat
  BY <1>2, FS_Subset, FS_CardinalityType
<1> QED
  BY <1>2, <1>3

\* Pinned buffers stay few while no step but log_write pins one.
LEMMA AtRestFewer ==
  ASSUME PinInv, AtRest' \subseteq AtRest
  PROVE  PinInv'
<1>1. AtRest \in SUBSET Bufs /\ AtRest' \in SUBSET AtRest
  BY DEF AtRest, Pinned
<1>2. IsFiniteSet(AtRest) /\ Cardinality(AtRest) \in Nat /\ Cardinality(AtRest') \in Nat
  BY <1>1, BufsFinite
<1>3. Cardinality(AtRest') <= Cardinality(AtRest)
  BY <1>1, <1>2, FS_Subset
<1>4. MaxPinned \in Nat
  BY BufferCacheAssumption
<1> QED
  BY <1>2, <1>3, <1>4 DEF PinInv

\* No more buffers are in use than there are processes other than p, which has none.
LEMMA UsedFew ==
  ASSUME IInv, NEW p \in Users, buf[p] = NoBuf
  PROVE  Cardinality({b \in Bufs : refcnt[b] # 0}) <= Cardinality(Users) - 1
<1> DEFINE U == {b \in Bufs : refcnt[b] # 0}
<1> DEFINE f == [b \in U |-> CHOOSE q \in Users : buf[q] = b]
<1>1. ASSUME NEW b \in U PROVE f[b] \in Users \ {p} /\ buf[f[b]] = b
  <2>1. \E q \in Users : buf[q] = b
    <3>1. SUFFICES ASSUME \A q \in Users : buf[q] # b PROVE FALSE
      OBVIOUS
    <3>2. {q \in Users : buf[q] = b} = {}
      BY <3>1
    <3>3. refcnt[b] = 0
      BY <3>2, FS_EmptySet DEF IInv, OneBufferPerBlock
    <3> QED
      BY <3>3
  <2>2. f[b] = CHOOSE q \in Users : buf[q] = b
    OBVIOUS
  <2>3. f[b] \in Users /\ buf[f[b]] = b
    BY <2>1, <2>2
  <2>4. b # NoBuf
    BY DEF NoBuf, Bufs
  <2> QED
    BY <2>3, <2>4
<1>2. f \in Injection(U, Users \ {p})
  <2>1. f \in [U -> Users \ {p}]
    BY <1>1
  <2>2. \A a, b \in U : f[a] = f[b] => a = b
    BY <1>1
  <2> QED
    BY <2>1, <2>2 DEF Injection, IsInjective
<1>3. IsFiniteSet(Users \ {p}) /\ Cardinality(Users \ {p}) = Cardinality(Users) - 1
  BY FS_RemoveElement, UsersFacts
<1>4. Cardinality(U) <= Cardinality(Users \ {p})
  BY <1>2, <1>3, FS_Injection
<1> QED
  BY <1>3, <1>4

\* While NBUF covers the pinned blocks and two more for each process, bget finds a buffer.
LEMMA SomeRecyclable ==
  ASSUME IInv, NEW p \in Users, pc[p] = "idle", NBUF >= MaxPinned + 2 * Cardinality(Procs)
  PROVE  \E b \in Bufs : Recyclable(b)
<1> SUFFICES ASSUME \A b \in Bufs : ~Recyclable(b) PROVE FALSE
  OBVIOUS
<1> DEFINE U == {b \in Bufs : refcnt[b] # 0}
<1>1. buf[p] = NoBuf
  BY DEF IInv, HoldInv, HoldP
<1>2. Cardinality(U) <= Cardinality(Users) - 1
  BY <1>1, UsedFew
<1>3. ASSUME NEW b \in Bufs PROVE b \in U \/ b \in AtRest
  <2>1. CASE refcnt[b] = 0
    <3>1. dirty[b] /\ \A q \in Users : buf[q] # b
      BY <2>1, Unused DEF Recyclable
    <3> QED
      BY <3>1 DEF AtRest, Pinned, Writing
  <2>2. CASE refcnt[b] # 0
    BY <2>2
  <2> QED
    BY <2>1, <2>2
<1>4. U \in SUBSET Bufs /\ AtRest \in SUBSET Bufs
  BY DEF AtRest, Pinned
<1>5. Bufs = U \cup AtRest
  BY <1>3, <1>4
<1>6. IsFiniteSet(U) /\ IsFiniteSet(AtRest) /\ (U \cap AtRest) \in SUBSET Bufs
  BY <1>4, BufsFinite
<1>7. Cardinality(Bufs) = Cardinality(U) + Cardinality(AtRest) - Cardinality(U \cap AtRest)
  BY <1>5, <1>6, FS_Union
<1>8. /\ Cardinality(Bufs) = NBUF /\ Cardinality(U) \in Nat /\ Cardinality(AtRest) \in Nat
      /\ Cardinality(U \cap AtRest) \in Nat
  BY <1>4, <1>6, BufsFinite
<1>9. Cardinality(AtRest) <= MaxPinned /\ MaxPinned \in Nat /\ NBUF \in Nat
      /\ Cardinality(Users) = 2 * Cardinality(Procs) /\ Cardinality(Procs) \in Nat
  BY UsersFacts, BufferCacheAssumption DEF IInv, PinInv
<1> QED
  BY <1>2, <1>7, <1>8, <1>9

\* A block stays in one buffer, and a reference count is the number of its users.
LEMMA RefStep == IInv /\ [Next]_vars => OneBufferPerBlock'
<1> SUFFICES ASSUME IInv, [Next]_vars PROVE OneBufferPerBlock'
  OBVIOUS
<1> USE BufferCacheAssumption
<1>1. ASSUME NEW p \in Users, NEW k \in Blocks, bget_hit(p, k) PROVE OneBufferPerBlock'
  <2>0. PICK b \in Bufs : Hits(p, k, b)
    BY <1>1, HitStep
  <2>1. /\ refcnt' = [refcnt EXCEPT ![b] = @ + 1] /\ buf' = [buf EXCEPT ![p] = b]
        /\ UNCHANGED blockno /\ pc[p] = "idle"
    BY <2>0 DEF Hits, Takes
  <2>2. buf[p] = NoBuf
    BY <2>1 DEF IInv, HoldInv, HoldP, HoldB
  <2>3. ASSUME NEW c \in Bufs PROVE refcnt'[c] = Cardinality({q \in Users : buf'[q] = c})
    <3>1. refcnt[c] = Cardinality({q \in Users : buf[q] = c}) /\ refcnt[c] \in Int
      BY DEF IInv, OneBufferPerBlock, TypeOK
    <3>2. refcnt'[c] = IF c = b THEN refcnt[c] + 1 ELSE refcnt[c]
      BY <2>1 DEF IInv, TypeOK
    <3> QED
      BY <2>1, <2>2, <3>1, <3>2, UserAdded DEF IInv
  <2> QED
    BY <2>1, <2>3 DEF IInv, OneBufferPerBlock
<1>2. ASSUME NEW p \in Users, NEW k \in Blocks, bget_recycle(p, k) PROVE OneBufferPerBlock'
  <2>1. CASE NoBuffers(p)
    BY <2>1 DEF NoBuffers, IInv, OneBufferPerBlock
  <2>2. ASSUME NEW b \in Bufs, Recycles(p, k, b) PROVE OneBufferPerBlock'
    <3>1. /\ refcnt' = [refcnt EXCEPT ![b] = 1]
          /\ buf' = [buf EXCEPT ![p] = b] /\ blockno' = [blockno EXCEPT ![b] = k]
          /\ pc[p] = "idle" /\ refcnt[b] = 0 /\ \A c \in Bufs : blockno[c] # k
      BY <2>2 DEF Recycles, Takes
    <3>2. buf[p] = NoBuf /\ refcnt[b] = 0
      BY <3>1 DEF IInv, HoldInv, HoldP, HoldB
    <3>3. ASSUME NEW c \in Bufs PROVE refcnt'[c] = Cardinality({q \in Users : buf'[q] = c})
      <4>1. refcnt[c] = Cardinality({q \in Users : buf[q] = c}) /\ refcnt[c] \in Int
        BY DEF IInv, OneBufferPerBlock, TypeOK
      <4>2. refcnt'[c] = IF c = b THEN refcnt[c] + 1 ELSE refcnt[c]
        BY <3>1, <3>2 DEF IInv, TypeOK
      <4> QED
        BY <3>1, <3>2, <4>1, <4>2, UserAdded DEF IInv
    <3>4. ASSUME NEW c \in Bufs, NEW d \in Bufs, blockno'[c] = blockno'[d], c # d
          PROVE  blockno'[c] = NoBlock
      <4>1. /\ blockno'[c] = IF c = b THEN k ELSE blockno[c]
            /\ blockno'[d] = IF d = b THEN k ELSE blockno[d]
        BY <3>1 DEF IInv, TypeOK
      <4> QED
        BY <3>1, <3>4, <4>1 DEF IInv, OneBufferPerBlock
    <3> QED
      BY <3>3, <3>4 DEF OneBufferPerBlock
  <2> QED
    BY <1>2, <2>1, <2>2, RecycleStep
<1>3. ASSUME NEW p \in Users, NEW v \in Values, Modify(p, v) PROVE OneBufferPerBlock'
  BY <1>3 DEF Modify, Goto, bcache, IInv, OneBufferPerBlock
<1>4. ASSUME NEW p \in Users, acquiresleep(p) PROVE OneBufferPerBlock'
  BY <1>4 DEF acquiresleep, Goto, bcache, IInv, OneBufferPerBlock
<1>5. ASSUME NEW p \in Users, bread(p) PROVE OneBufferPerBlock'
  BY <1>5 DEF bread, Goto, bcache, IInv, OneBufferPerBlock
<1>6. ASSUME NEW p \in Users, log_write(p) PROVE OneBufferPerBlock'
  BY <1>6 DEF log_write, Goto, bcache, IInv, OneBufferPerBlock
<1>7. ASSUME NEW p \in Users, bwrite(p) PROVE OneBufferPerBlock'
  BY <1>7 DEF bwrite, Goto, bcache, IInv, OneBufferPerBlock
<1>8. ASSUME NEW p \in Users, brelse_unlock(p) PROVE OneBufferPerBlock'
  BY <1>8 DEF brelse_unlock, wakeup_lock, bcache, IInv, OneBufferPerBlock
<1>9. ASSUME NEW p \in Users, brelse_put(p) PROVE OneBufferPerBlock'
  <2>1. /\ refcnt' = [refcnt EXCEPT ![buf[p]] = @ - 1] /\ buf' = [buf EXCEPT ![p] = NoBuf]
        /\ UNCHANGED blockno /\ pc[p] = "brelse"
    BY <1>9 DEF brelse_put
  <2>2. buf[p] \in Bufs
    BY <2>1 DEF IInv, HoldInv, HoldP, HoldB, TypeOK
  <2>3. ASSUME NEW c \in Bufs PROVE refcnt'[c] = Cardinality({q \in Users : buf'[q] = c})
    <3>1. refcnt[c] = Cardinality({q \in Users : buf[q] = c}) /\ refcnt[c] \in Int
      BY DEF IInv, OneBufferPerBlock, TypeOK
    <3>2. refcnt'[c] = IF c = buf[p] THEN refcnt[c] - 1 ELSE refcnt[c]
      BY <2>1, <2>2 DEF IInv, TypeOK
    <3> QED
      BY <2>1, <2>2, <3>1, <3>2, UserDropped DEF IInv
  <2> QED
    BY <2>1, <2>3 DEF IInv, OneBufferPerBlock
<1>10. ASSUME NEW p \in Users, iderw(p) PROVE OneBufferPerBlock'
  BY <1>10 DEF iderw, Goto, bcache, IInv, OneBufferPerBlock
<1>11. ASSUME NEW p \in Users, iderw_woken(p) PROVE OneBufferPerBlock'
  BY <1>11 DEF iderw_woken, Goto, bcache, IInv, OneBufferPerBlock
<1>12. ASSUME NEW p \in Users, Kill(p) PROVE OneBufferPerBlock'
  BY <1>12 DEF Kill, Goto, bcache, IInv, OneBufferPerBlock
<1>13. CASE DiskDone
  BY <1>13 DEF DiskDone, bcache, IInv, OneBufferPerBlock
<1>14. ASSUME NEW err \in DiskErrors, ideintr(err) PROVE OneBufferPerBlock'
  BY <1>14 DEF ideintr, wakeup_buf, bcache, IInv, OneBufferPerBlock
<1>15. CASE UNCHANGED vars
  BY <1>15 DEF vars, bcache, IInv, OneBufferPerBlock
<1> QED
  BY <1>1, <1>2, <1>3, <1>4, <1>5, <1>6, <1>7, <1>8, <1>9, <1>10, <1>11, <1>12, <1>13, <1>14, <1>15 DEF Next

\* Every step keeps the types.
LEMMA TypeStep == IInv /\ [Next]_vars /\ OneBufferPerBlock' => TypeOK'
<1> SUFFICES ASSUME IInv, [Next]_vars, OneBufferPerBlock' PROVE TypeOK'
  OBVIOUS
<1> USE BufferCacheAssumption DEF IInv
<1>1. ASSUME NEW p \in Users, NEW k \in Blocks, bget_hit(p, k) PROVE TypeOK'
  <2>0. PICK b \in Bufs : Hits(p, k, b)
    BY <1>1, HitStep
  <2>1. refcnt' = [refcnt EXCEPT ![b] = @ + 1] /\ refcnt' \in [Bufs -> Int]
    BY <2>0 DEF Hits, TypeOK
  <2>2. refcnt' \in [Bufs -> 0..Cardinality(Users)]
    BY <2>1, RefType
  <2>3. buf' \in [Users -> Bufs \cup {NoBuf}] /\ pc' \in [Users -> PCs]
    BY <2>0 DEF Hits, Takes, TypeOK, PCs
  <2> QED
    BY <2>0, <2>2, <2>3 DEF Hits, Takes, TypeOK
<1>2. ASSUME NEW p \in Users, NEW k \in Blocks, bget_recycle(p, k) PROVE TypeOK'
  <2>1. CASE NoBuffers(p)
    BY <2>1 DEF NoBuffers, TypeOK, Panics
  <2>2. ASSUME NEW b \in Bufs, Recycles(p, k, b) PROVE TypeOK'
    <3>1. refcnt' = [refcnt EXCEPT ![b] = 1] /\ refcnt' \in [Bufs -> Int]
      BY <2>2 DEF Recycles, TypeOK
    <3>2. refcnt' \in [Bufs -> 0..Cardinality(Users)]
      BY <3>1, RefType
    <3>3. buf' \in [Users -> Bufs \cup {NoBuf}] /\ pc' \in [Users -> PCs]
      BY <2>2 DEF Recycles, Takes, TypeOK, PCs
    <3>4. /\ blockno' \in [Bufs -> Blocks \cup {NoBlock}]
          /\ valid' \in [Bufs -> BOOLEAN] /\ dirty' \in [Bufs -> BOOLEAN]
      BY <2>2 DEF Recycles, TypeOK
    <3> QED
      BY <2>2, <3>2, <3>3, <3>4 DEF Recycles, Takes, TypeOK
  <2> QED
    BY <1>2, <2>1, <2>2, RecycleStep
<1>3. ASSUME NEW p \in Users, NEW v \in Values, Modify(p, v) PROVE TypeOK'
  BY <1>3 DEF Modify, Goto, TypeOK, PCs, bcache, flags, ide
<1>4. ASSUME NEW p \in Users, acquiresleep(p) PROVE TypeOK'
  <2>1. buf[p] \in Bufs
    BY <1>4, HasBuf DEF acquiresleep
  <2>2. owner' \in [Bufs -> Users \cup {NoProc}] /\ pc' \in [Users -> PCs]
    <3>1. CASE owner[buf[p]] # NoProc
      BY ZenonT(60), <1>4, <3>1 DEF acquiresleep, Goto, TypeOK, PCs
    <3>2. CASE owner[buf[p]] = NoProc
      <4>1. owner' = [owner EXCEPT ![buf[p]] = p] /\ pc' = [pc EXCEPT ![p] = "bread"]
        BY <1>4, <3>2 DEF acquiresleep, Goto
      <4> QED
        BY <4>1 DEF TypeOK, PCs
    <3> QED
      BY <3>1, <3>2
  <2> QED
    BY <1>4, <2>2 DEF acquiresleep, TypeOK, bcache, flags, ide
<1>5. ASSUME NEW p \in Users, bread(p) PROVE TypeOK'
  BY <1>5 DEF bread, Goto, TypeOK, PCs, bcache, flags, ide
<1>6. ASSUME NEW p \in Users, log_write(p) PROVE TypeOK'
  BY <1>6 DEF log_write, Goto, TypeOK, PCs, bcache, flags, ide
<1>7. ASSUME NEW p \in Users, bwrite(p) PROVE TypeOK'
  <2>1. dirty' = [dirty EXCEPT ![buf[p]] = TRUE] /\ pc' = [pc EXCEPT ![p] = "iderw"] /\ panicked' = panicked
    BY <1>7, HoldsLock DEF bwrite, Goto
  <2> QED
    BY <1>7, <2>1 DEF bwrite, TypeOK, PCs, bcache, ide
<1>8. ASSUME NEW p \in Users, brelse_unlock(p) PROVE TypeOK'
  <2>1. owner' \in [Bufs -> Users \cup {NoProc}]
    BY <1>8 DEF brelse_unlock, TypeOK
  <2>2. pc' \in [Users -> PCs]
    BY <1>8 DEF brelse_unlock, wakeup_lock, TypeOK, PCs
  <2>3. panicked' = panicked
    BY <1>8, HoldsLock DEF brelse_unlock
  <2> QED
    BY <1>8, <2>1, <2>2, <2>3 DEF brelse_unlock, TypeOK, bcache, flags, ide
<1>9. ASSUME NEW p \in Users, brelse_put(p) PROVE TypeOK'
  <2>1. buf[p] \in Bufs
    BY <1>9, HasBuf DEF brelse_put
  <2>2. refcnt' = [refcnt EXCEPT ![buf[p]] = @ - 1] /\ refcnt' \in [Bufs -> Int]
    BY <1>9, <2>1 DEF brelse_put, TypeOK
  <2>3. refcnt' \in [Bufs -> 0..Cardinality(Users)]
    BY <2>2, RefType
  <2>4. lru' \in [Bufs -> Bufs] /\ \A b \in Bufs : \E i \in Bufs : lru'[i] = b
    <3>1. lru' = lru \/ lru' = ToFront(buf[p])
      BY <1>9 DEF brelse_put
    <3>2. lru \in [Bufs -> Bufs] /\ \A b \in Bufs : \E i \in Bufs : lru[i] = b
      BY DEF TypeOK
    <3>3. /\ ToFront(buf[p]) \in [Bufs -> Bufs]
          /\ \A c \in Bufs : \E i \in Bufs : ToFront(buf[p])[i] = c
      BY <2>1, ToFrontIs
    <3> QED
      BY <3>1, <3>2, <3>3
  <2>5. buf' \in [Users -> Bufs \cup {NoBuf}] /\ pc' \in [Users -> PCs]
    BY <1>9 DEF brelse_put, Goto, TypeOK, PCs
  <2> QED
    BY <1>9, <2>3, <2>4, <2>5 DEF brelse_put, TypeOK, flags, ide
<1>10. ASSUME NEW p \in Users, iderw(p) PROVE TypeOK'
  <2>1. buf[p] \in Bufs
    BY <1>10, HasBuf DEF iderw
  <2>2. idequeue' \in Seq(Bufs)
    <3>1. idequeue \in Seq(Bufs)
      BY DEF TypeOK
    <3>2. Append(idequeue, buf[p]) \in Seq(Bufs)
      BY <2>1, <3>1, AppendIn
    <3> QED
      BY <1>10, <3>1, <3>2 DEF iderw, ide
  <2>3. cmd' \in [blk : Blocks \cup {NoBlock}, write : BOOLEAN, data : Values \cup {NoData}]
    <3>1. idestart(buf[p]) \in [blk : Blocks \cup {NoBlock}, write : BOOLEAN, data : Values \cup {NoData}]
      BY <2>1 DEF idestart, TypeOK
    <3>2. cmd' \in {cmd, idestart(buf[p])}
      BY <1>10, IderwStep DEF Enqueues, NoDisk
    <3> QED
      BY <3>1, <3>2 DEF TypeOK
  <2>4. pc' \in [Users -> PCs] /\ irq' \in BOOLEAN
    BY ZenonT(60), <1>10 DEF iderw, Goto, ide, TypeOK, PCs
  <2>5. panicked' \in Panics \cup {"no"}
    BY <1>10, IderwStep DEF Enqueues, NoDisk, idestart_panic, TypeOK, Panics
  <2> QED
    BY <1>10, <2>2, <2>3, <2>4, <2>5 DEF iderw, TypeOK, bcache, flags
<1>11. ASSUME NEW p \in Users, iderw_woken(p) PROVE TypeOK'
  BY <1>11 DEF iderw_woken, Goto, TypeOK, PCs, bcache, flags, ide
<1>12. ASSUME NEW p \in Users, Kill(p) PROVE TypeOK'
  BY <1>12 DEF Kill, Goto, TypeOK, PCs, bcache, flags, ide
<1>13. CASE DiskDone
  <2>1. disk' \in [Blocks -> Values]
    <3>1. CASE cmd.write
      <4>1. idequeue # <<>> /\ cmd = idestart(Head(idequeue))
        BY <1>13 DEF DiskDone, QueueInv, QueueB
      <4>2. Head(idequeue) \in Bufs /\ dirty[Head(idequeue)] /\ cmd.data = data[Head(idequeue)]
        BY <3>1, <4>1, TailIn DEF idestart, QueueInv, QueueB, TypeOK
      <4> QED
        BY <1>13, <4>2 DEF DiskDone, TypeOK
    <3>2. CASE ~cmd.write
      BY <1>13, <3>2 DEF DiskDone, TypeOK
    <3> QED
      BY <3>1, <3>2
  <2> QED
    BY <1>13, <2>1 DEF DiskDone, TypeOK, bcache, flags
<1>14. ASSUME NEW err \in DiskErrors, ideintr(err) PROVE TypeOK'
  <2>1. PICK b \in Bufs : Serves(b, err)
    BY <1>14, IntrStep
  <2>2. blockno[b] \in Blocks /\ Tail(idequeue) \in Seq(Bufs)
    BY <2>1, HeadOwner, TailIn DEF Serves, TypeOK, QueueInv, QueueB
  <2>3. data' \in [Bufs -> Values]
    BY <2>1, <2>2 DEF Serves, TypeOK
  <2>4. valid' \in [Bufs -> BOOLEAN] /\ dirty' \in [Bufs -> BOOLEAN] /\ irq' \in BOOLEAN
    BY <2>1 DEF Serves, TypeOK
  <2>5. pc' \in [Users -> PCs]
    BY <2>1 DEF Serves, wakeup_buf, TypeOK, PCs
  <2>6. cmd' \in [blk : Blocks \cup {NoBlock}, write : BOOLEAN, data : Values \cup {NoData}]
    <3>1. CASE Tail(idequeue) = <<>>
      BY <2>1, <3>1 DEF Serves, NoCmd
    <3>2. CASE Tail(idequeue) # <<>>
      <4>1. Head(Tail(idequeue)) \in Bufs
        BY <2>2, <3>2, HeadTailProperties
      <4>2. cmd' = idestart(Head(Tail(idequeue)))
        BY <2>1, <3>2 DEF Serves
      <4> QED
        BY <4>1, <4>2 DEF idestart, TypeOK
    <3> QED
      BY <3>1, <3>2
  <2>7. /\ idequeue' \in Seq(Bufs)
        /\ UNCHANGED <<lru, blockno, refcnt, owner, disk, buf>>
    BY <2>1, <2>2 DEF Serves
  <2>8. panicked' \in Panics \cup {"no"}
    BY <2>1 DEF Serves, idestart_panic, TypeOK, Panics
  <2> QED
    BY <2>3, <2>4, <2>5, <2>6, <2>7, <2>8 DEF TypeOK
<1>15. CASE UNCHANGED vars
  BY <1>15 DEF vars, TypeOK, PCs, bcache, flags, ide
<1> QED
  BY <1>1, <1>2, <1>3, <1>4, <1>5, <1>6, <1>7, <1>8, <1>9, <1>10, <1>11, <1>12, <1>13, <1>14, <1>15 DEF Next

\* The list never holds a buffer twice.
LEMMA LruStep == IInv /\ [Next]_vars => LruInv'
<1> SUFFICES ASSUME IInv, [Next]_vars PROVE LruInv'
  OBVIOUS
<1> USE BufferCacheAssumption DEF IInv
<1>1. ASSUME NEW p \in Users, NEW k \in Blocks, bget_hit(p, k) PROVE LruInv'
  BY <1>1, HitStep DEF bget_hit, Goto, LruInv, Hits, Takes
<1>2. ASSUME NEW p \in Users, NEW k \in Blocks, bget_recycle(p, k) PROVE LruInv'
  BY <1>2, RecycleStep DEF bget_recycle, Goto, LruInv, NoBuffers, Recycles, Takes
<1>3. ASSUME NEW p \in Users, NEW v \in Values, Modify(p, v) PROVE LruInv'
  BY <1>3 DEF Modify, Goto, LruInv, bcache
<1>4. ASSUME NEW p \in Users, acquiresleep(p) PROVE LruInv'
  BY <1>4 DEF acquiresleep, Goto, LruInv, bcache
<1>5. ASSUME NEW p \in Users, bread(p) PROVE LruInv'
  BY <1>5 DEF bread, Goto, LruInv, bcache
<1>6. ASSUME NEW p \in Users, log_write(p) PROVE LruInv'
  BY <1>6 DEF log_write, Goto, LruInv, bcache
<1>7. ASSUME NEW p \in Users, bwrite(p) PROVE LruInv'
  BY <1>7 DEF bwrite, Goto, LruInv, bcache
<1>8. ASSUME NEW p \in Users, brelse_unlock(p) PROVE LruInv'
  BY <1>8 DEF brelse_unlock, wakeup_lock, LruInv, bcache
<1>9. ASSUME NEW p \in Users, brelse_put(p) PROVE LruInv'
  <2>1. buf[p] \in Bufs
    BY <1>9, HasBuf DEF brelse_put
  <2>2. lru' = lru \/ lru' = ToFront(buf[p])
    BY <1>9 DEF brelse_put
  <2>3. \A i, j \in Bufs : ToFront(buf[p])[i] = ToFront(buf[p])[j] => i = j
    BY <2>1, ToFrontIs
  <2> QED
    BY <2>2, <2>3 DEF LruInv
<1>10. ASSUME NEW p \in Users, iderw(p) PROVE LruInv'
  BY <1>10 DEF iderw, Goto, LruInv, bcache
<1>11. ASSUME NEW p \in Users, iderw_woken(p) PROVE LruInv'
  BY <1>11 DEF iderw_woken, Goto, LruInv, bcache
<1>12. ASSUME NEW p \in Users, Kill(p) PROVE LruInv'
  BY <1>12 DEF Kill, Goto, LruInv, bcache
<1>13. CASE DiskDone
  BY <1>13 DEF DiskDone, LruInv, bcache
<1>14. ASSUME NEW err \in DiskErrors, ideintr(err) PROVE LruInv'
  BY <1>14 DEF ideintr, wakeup_buf, LruInv, bcache
<1>15. CASE UNCHANGED vars
  BY <1>15 DEF vars, LruInv, bcache
<1> QED
  BY SMTT(60), <1>1, <1>2, <1>3, <1>4, <1>5, <1>6, <1>7, <1>8, <1>9, <1>10, <1>11, <1>12, <1>13, <1>14, <1>15 DEF Next

\* Who owns a buffer, who waits for it, and what its flags promise.
LEMMA HoldStep == IInv /\ [Next]_vars => HoldInv'
<1> SUFFICES ASSUME IInv, [Next]_vars PROVE HoldInv'
  OBVIOUS
<1> USE BufferCacheAssumption DEF IInv
<1>1. ASSUME NEW p \in Users, NEW k \in Blocks, bget_hit(p, k) PROVE HoldInv'
  <2>0. PICK b \in Bufs : Hits(p, k, b)
    BY <1>1, HitStep
  <2>1. owner[b] # p /\ \A c \in Bufs : owner[c] # p
    BY UsersFacts, <2>0 DEF Hits, Takes, HoldInv, HoldP, HoldB, NoBuf, Bufs
  <2>2. ASSUME NEW q \in Users PROVE HoldP(q)'
    <3>1. HoldP(q) /\ HoldP(p)
      BY DEF HoldInv
    <3> QED
      BY <2>0, <2>1, <3>1 DEF HoldP, Hits, Takes, InSync, TypeOK, Holding, Waiting, NoBuf, Bufs
  <2>3. ASSUME NEW c \in Bufs PROVE HoldB(c)'
    <3>1. HoldB(c) /\ HoldP(p)
      BY DEF HoldInv
    <3> QED
      BY <2>0, <2>1, <3>1 DEF HoldB, Hits, Takes, TypeOK
  <2> QED
    BY <2>2, <2>3 DEF HoldInv
<1>2. ASSUME NEW p \in Users, NEW k \in Blocks, bget_recycle(p, k) PROVE HoldInv'
  <2>1. CASE NoBuffers(p)
    BY <2>1 DEF NoBuffers, HoldInv, HoldP, HoldB, InSync
  <2>2. ASSUME NEW b \in Bufs, Recycles(p, k, b) PROVE HoldInv'
    <3>1. owner[b] = NoProc /\ \A q \in Users : buf[q] # b
      BY <2>2, Unused DEF Recycles
    <3>2. /\ pc[p] = "idle" /\ buf' = [buf EXCEPT ![p] = b] /\ pc' = [pc EXCEPT ![p] = "lock"]
          /\ blockno' = [blockno EXCEPT ![b] = k] /\ UNCHANGED owner
          /\ valid' = [valid EXCEPT ![b] = FALSE] /\ dirty' = [dirty EXCEPT ![b] = FALSE]
      BY <2>2 DEF Recycles, Takes
    <3>3. ASSUME NEW q \in Users PROVE HoldP(q)'
      <4>1. HoldP(q)
        BY DEF HoldInv
      <4>2. CASE q = p
        <5>1. /\ pc'[p] = "lock" /\ buf'[p] = b /\ blockno'[b] = k /\ owner'[b] = NoProc
              /\ b # NoBuf /\ p # NoProc
          <6>1. b # NoBuf /\ p # NoProc
            BY UsersFacts DEF NoBuf, Bufs
          <6> QED
            BY <3>1, <3>2, <6>1 DEF TypeOK
        <5> QED
          BY <4>2, <5>1 DEF HoldP, Holding, Waiting
      <4>3. CASE q # p
        <5>1. /\ buf'[q] = buf[q] /\ pc'[q] = pc[q] /\ buf[q] # b
              /\ pc[q] # "idle" => buf[q] \in Bufs
          BY <3>1, <3>2, <4>3, HasBuf DEF TypeOK
        <5>2. /\ pc[q] # "idle" => /\ blockno'[buf[q]] = blockno[buf[q]]
                                   /\ valid'[buf[q]] = valid[buf[q]]
                                   /\ dirty'[buf[q]] = dirty[buf[q]]
          BY <3>2, <5>1 DEF TypeOK
        <5> QED
          BY <3>2, <4>1, <5>1, <5>2 DEF HoldP, InSync, Holding, Waiting
      <4> QED
        BY <4>2, <4>3
    <3>4. ASSUME NEW c \in Bufs PROVE HoldB(c)'
      <4>1. HoldB(c) /\ owner[c] # p
        BY UsersFacts, <3>2 DEF HoldInv, HoldP, HoldB, NoBuf, Bufs
      <4> QED
        BY <3>1, <3>2, <4>1 DEF HoldB, TypeOK
    <3> QED
      BY <3>3, <3>4 DEF HoldInv
  <2> QED
    BY <1>2, <2>1, <2>2, RecycleStep
<1>3. ASSUME NEW p \in Users, NEW v \in Values, Modify(p, v) PROVE HoldInv'
  BY SMTT(60), <1>3 DEF Modify, Goto, HoldInv, HoldP, HoldB, InSync, TypeOK, Holding, Waiting, bcache, flags, ide
<1>4. ASSUME NEW p \in Users, acquiresleep(p) PROVE HoldInv'
  <2>0. buf[p] \in Bufs
    BY <1>4, HasBuf DEF acquiresleep
  <2>1. CASE owner[buf[p]] # NoProc
    <3>1. pc[p] = "lock" /\ pc' = [pc EXCEPT ![p] = "lock_asleep"] /\ UNCHANGED <<blockno, owner, buf, valid, dirty>>
      BY <1>4, <2>1 DEF acquiresleep, Goto, bcache, flags
    <3> QED
      BY <2>1, <3>1 DEF HoldInv, HoldP, HoldB, InSync, TypeOK, Holding, Waiting
  <2>2. CASE owner[buf[p]] = NoProc
    <3>1. /\ pc[p] = "lock" /\ pc' = [pc EXCEPT ![p] = "bread"] /\ owner' = [owner EXCEPT ![buf[p]] = p]
          /\ UNCHANGED <<blockno, buf, valid, dirty>>
      BY <1>4, <2>2 DEF acquiresleep, Goto, bcache, flags
    <3>2. ASSUME NEW q \in Users PROVE HoldP(q)'
      <4>1. HoldP(q) /\ HoldP(p)
        BY DEF HoldInv
      <4> QED
        BY SMTT(60), UsersFacts, <2>0, <2>2, <3>1, <4>1 DEF HoldP, InSync, TypeOK, Holding, Waiting
    <3>3. ASSUME NEW c \in Bufs PROVE HoldB(c)'
      <4>1. HoldB(c)
        BY DEF HoldInv
      <4> QED
        BY SMTT(60), <2>0, <3>1, <4>1 DEF HoldB, TypeOK
    <3> QED
      BY <3>2, <3>3 DEF HoldInv
  <2> QED
    BY <2>1, <2>2
<1>5. ASSUME NEW p \in Users, bread(p) PROVE HoldInv'
  BY <1>5 DEF bread, Goto, HoldInv, HoldP, HoldB, InSync, TypeOK, Holding, Waiting, bcache, flags, ide
<1>6. ASSUME NEW p \in Users, log_write(p) PROVE HoldInv'
  BY SMTT(60), <1>6 DEF log_write, Goto, HoldInv, HoldP, HoldB, InSync, TypeOK, Holding, Waiting, bcache, flags, ide
<1>7. ASSUME NEW p \in Users, bwrite(p) PROVE HoldInv'
  <2>1. /\ pc[p] \in {"have", "changed"} /\ dirty' = [dirty EXCEPT ![buf[p]] = TRUE]
        /\ pc' = [pc EXCEPT ![p] = "iderw"] /\ UNCHANGED <<blockno, owner, buf, valid>>
    BY <1>7, HoldsLock DEF bwrite, Goto, bcache
  <2>4. buf[p] \in Bufs
    BY <2>1, HasBuf
  <2>2. ASSUME NEW q \in Users PROVE HoldP(q)'
    <3>1. HoldP(q) /\ HoldP(p)
      BY DEF HoldInv
    <3> QED
      BY <2>1, <2>4, <3>1 DEF HoldP, InSync, TypeOK, Holding, Waiting
  <2>3. ASSUME NEW c \in Bufs PROVE HoldB(c)'
    <3>1. HoldB(c) /\ HoldP(p)
      BY DEF HoldInv
    <3> QED
      BY <2>1, <2>4, <3>1 DEF HoldB, HoldP, TypeOK
  <2> QED
    BY <2>2, <2>3 DEF HoldInv
<1>8. ASSUME NEW p \in Users, brelse_unlock(p) PROVE HoldInv'
  <2>1. /\ pc[p] = "have" /\ owner' = [owner EXCEPT ![buf[p]] = NoProc] /\ owner[buf[p]] = p
        /\ pc' = wakeup_lock(buf[p], p, "brelse") /\ UNCHANGED <<blockno, buf, valid, dirty>>
    BY <1>8, HoldsLock DEF brelse_unlock, bcache, flags
  <2>4. buf[p] \in Bufs
    BY <2>1, HasBuf
  <2>2. ASSUME NEW q \in Users PROVE HoldP(q)'
    <3>1. HoldP(q) /\ HoldP(p)
      BY DEF HoldInv
    <3>2. pc'[q] = IF q = p THEN "brelse"
                   ELSE IF pc[q] = "lock_asleep" /\ buf[q] = buf[p] THEN "lock" ELSE pc[q]
      BY <2>1 DEF wakeup_lock
    <3>3. CASE buf[q] = buf[p]
      <4>1. owner'[buf[q]] = NoProc
        BY <2>1, <2>4, <3>3 DEF TypeOK
      <4> QED
        BY UsersFacts, <2>1, <3>1, <3>2, <3>3, <4>1 DEF HoldP, InSync, Holding, Waiting
    <3>4. CASE buf[q] # buf[p]
      <4>1. pc'[q] = pc[q]
        BY <3>2, <3>4
      <4>2. pc[q] # "idle" => owner'[buf[q]] = owner[buf[q]]
        BY <2>1, <2>4, <3>4, HasBuf DEF TypeOK
      <4> QED
        BY <2>1, <3>1, <3>4, <4>1, <4>2 DEF HoldP, InSync, Holding, Waiting
    <3> QED
      BY <3>3, <3>4
  <2>3. ASSUME NEW c \in Bufs PROVE HoldB(c)'
    <3>1. HoldB(c) /\ HoldP(p)
      BY DEF HoldInv
    <3> QED
      BY <2>1, <2>4, <3>1 DEF HoldB, TypeOK
  <2> QED
    BY <2>2, <2>3 DEF HoldInv
<1>9. ASSUME NEW p \in Users, brelse_put(p) PROVE HoldInv'
  <2>1. /\ pc[p] = "brelse" /\ buf' = [buf EXCEPT ![p] = NoBuf] /\ pc' = [pc EXCEPT ![p] = "idle"]
        /\ UNCHANGED <<blockno, owner, valid, dirty>>
    BY <1>9 DEF brelse_put, Goto, flags
  <2>2. ASSUME NEW q \in Users PROVE HoldP(q)'
    <3>1. HoldP(q) /\ HoldP(p)
      BY DEF HoldInv
    <3> QED
      BY <2>1, <3>1 DEF HoldP, InSync, TypeOK, Holding, Waiting
  <2>3. ASSUME NEW c \in Bufs PROVE HoldB(c)'
    <3>1. HoldB(c) /\ HoldP(p)
      BY DEF HoldInv
    <3>2. owner[c] # p
      BY UsersFacts, <2>1, <3>1 DEF HoldB, HoldP, Holding, Waiting
    <3> QED
      BY <2>1, <3>1, <3>2 DEF HoldB, TypeOK
  <2> QED
    BY <2>2, <2>3 DEF HoldInv
<1>10. ASSUME NEW p \in Users, iderw(p) PROVE HoldInv'
  <2>1. CASE Enqueues(p)
    BY <2>1 DEF Enqueues, HoldInv, HoldP, HoldB, InSync, TypeOK, Holding, Waiting
  <2>2. CASE NoDisk
    BY <2>2 DEF NoDisk, HoldInv, HoldP, HoldB, InSync
  <2> QED
    BY <1>10, <2>1, <2>2, IderwStep
<1>11. ASSUME NEW p \in Users, iderw_woken(p) PROVE HoldInv'
  BY <1>11 DEF iderw_woken, Goto, HoldInv, HoldP, HoldB, InSync, TypeOK, Holding, Waiting, bcache, flags, ide
<1>12. ASSUME NEW p \in Users, Kill(p) PROVE HoldInv'
  BY <1>12 DEF Kill, Goto, HoldInv, HoldP, HoldB, InSync, TypeOK, Holding, Waiting, bcache, flags, ide
<1>13. CASE DiskDone
  BY <1>13 DEF DiskDone, HoldInv, HoldP, HoldB, InSync, TypeOK, Holding, Waiting, bcache, flags, ide
<1>14. ASSUME NEW err \in DiskErrors, ideintr(err) PROVE HoldInv'
  <2>0. PICK b \in Bufs : Serves(b, err)
    BY <1>14, IntrStep
  <2>1. /\ owner[b] \in Users /\ buf[owner[b]] = b /\ pc[owner[b]] \in Waiting
        /\ blockno[b] \in Blocks
    BY <2>0, HeadOwner DEF Serves
  <2>4. /\ valid' = [valid EXCEPT ![b] = TRUE] /\ dirty' = [dirty EXCEPT ![b] = FALSE]
        /\ UNCHANGED <<blockno, owner, buf>>
    BY <2>0 DEF Serves
  <2>2. ASSUME NEW q \in Users PROVE HoldP(q)'
    <3>1. HoldP(q)
      BY DEF HoldInv
    <3>2. pc'[q] = IF pc[q] = "ide_asleep" /\ buf[q] = b THEN "ide_test" ELSE pc[q]
      BY <2>0 DEF Serves, wakeup_buf
    <3>3. pc[q] = "iderw" => buf[q] # b
      BY <2>1, <3>1 DEF HoldP, Holding, Waiting
    <3>4. /\ pc[q] # "idle" /\ buf[q] # b => valid'[buf[q]] = valid[buf[q]] /\ dirty'[buf[q]] = dirty[buf[q]]
          /\ buf[q] = b => valid'[buf[q]]
      BY ZenonT(60), <2>4, HasBuf DEF TypeOK
    <3> QED
      BY <2>4, <3>1, <3>2, <3>3, <3>4 DEF HoldP, InSync, Holding, Waiting
  <2>3. ASSUME NEW c \in Bufs PROVE HoldB(c)'
    <3>1. HoldB(c)
      BY DEF HoldInv
    <3> QED
      BY <2>1, <2>4, <3>1 DEF HoldB, TypeOK
  <2> QED
    BY <2>2, <2>3 DEF HoldInv
<1>15. CASE UNCHANGED vars
  BY <1>15 DEF vars, HoldInv, HoldP, HoldB, InSync, TypeOK, Holding, Waiting, bcache, flags, ide
<1> QED
  BY <1>1, <1>2, <1>3, <1>4, <1>5, <1>6, <1>7, <1>8, <1>9, <1>10, <1>11, <1>12, <1>13, <1>14, <1>15 DEF Next

\* The driver's queue stays the requests that are waited for, the disk's command its head.
LEMMA QueueStep == IInv /\ [Next]_vars => QueueInv'
<1> SUFFICES ASSUME IInv, [Next]_vars PROVE QueueInv'
  OBVIOUS
<1> USE BufferCacheAssumption DEF IInv
<1>1. ASSUME NEW p \in Users, NEW k \in Blocks, bget_hit(p, k) PROVE QueueInv'
  <2>0. PICK b \in Bufs : Hits(p, k, b)
    BY <1>1, HitStep
  <2>1. UNCHANGED <<idequeue, cmd, irq, disk>>
    BY <2>0 DEF Hits, Takes
  <2>2. ASSUME NEW c \in Bufs, owner[c] # NoProc, pc[owner[c]] \in Waiting
        PROVE  /\ blockno'[c] = blockno[c] /\ valid'[c] = valid[c] /\ dirty'[c] = dirty[c]
               /\ data'[c] = data[c] /\ owner'[c] = owner[c]
    BY <2>0, <2>2, HasBuf DEF Hits, Takes, TypeOK, Waiting
  <2>3. ASSUME NEW q \in Users, pc[q] \in Waiting \/ pc'[q] \in Waiting
        PROVE  pc'[q] = pc[q] /\ buf'[q] = buf[q]
    BY <2>0, <2>3 DEF Hits, Takes, TypeOK, Waiting
  <2> QED
    BY <2>1, <2>2, <2>3, QueueKept DEF IInv
<1>2. ASSUME NEW p \in Users, NEW k \in Blocks, bget_recycle(p, k) PROVE QueueInv'
  <2>4. CASE NoBuffers(p)
    BY <2>4 DEF NoBuffers, QueueInv, QueueB, QueueP, Queued, InSync, idestart
  <2>5. ASSUME NEW b \in Bufs, Recycles(p, k, b) PROVE QueueInv'
    <3>0. owner[b] = NoProc
      BY <2>5, Unused DEF Recycles
    <3>1. UNCHANGED <<idequeue, cmd, irq, disk>>
      BY <2>5, <3>0 DEF Recycles, Takes
    <3>2. ASSUME NEW c \in Bufs, owner[c] # NoProc, pc[owner[c]] \in Waiting
          PROVE  /\ blockno'[c] = blockno[c] /\ valid'[c] = valid[c] /\ dirty'[c] = dirty[c]
                 /\ data'[c] = data[c] /\ owner'[c] = owner[c]
      BY ZenonT(60), <2>5, <3>0, <3>2, HasBuf DEF Recycles, Takes, TypeOK, Waiting
    <3>3. ASSUME NEW q \in Users, pc[q] \in Waiting \/ pc'[q] \in Waiting
          PROVE  pc'[q] = pc[q] /\ buf'[q] = buf[q]
      BY <2>5, <3>0, <3>3 DEF Recycles, Takes, TypeOK, Waiting
    <3> QED
      BY <3>1, <3>2, <3>3, QueueKept DEF IInv
  <2> QED
    BY <1>2, <2>4, <2>5, RecycleStep
<1>3. ASSUME NEW p \in Users, NEW v \in Values, Modify(p, v) PROVE QueueInv'
  <2>1. UNCHANGED <<idequeue, cmd, irq, disk>>
    BY <1>3, HoldsLock DEF Modify, Goto, bcache, flags, ide
  <2>2. ASSUME NEW c \in Bufs, owner[c] # NoProc, pc[owner[c]] \in Waiting
        PROVE  /\ blockno'[c] = blockno[c] /\ valid'[c] = valid[c] /\ dirty'[c] = dirty[c]
               /\ data'[c] = data[c] /\ owner'[c] = owner[c]
    BY <1>3, HoldsLock, <2>2, HasBuf DEF Modify, Goto, bcache, flags, ide, TypeOK, Waiting
  <2>3. ASSUME NEW q \in Users, pc[q] \in Waiting \/ pc'[q] \in Waiting
        PROVE  pc'[q] = pc[q] /\ buf'[q] = buf[q]
    BY <1>3, HoldsLock, <2>3 DEF Modify, Goto, bcache, flags, ide, TypeOK, Waiting
  <2> QED
    BY <2>1, <2>2, <2>3, QueueKept DEF IInv
<1>4. ASSUME NEW p \in Users, acquiresleep(p) PROVE QueueInv'
  <2>1. UNCHANGED <<idequeue, cmd, irq, disk>>
    BY <1>4, HoldsLock DEF acquiresleep, Goto, bcache, flags, ide
  <2>2. ASSUME NEW c \in Bufs, owner[c] # NoProc, pc[owner[c]] \in Waiting
        PROVE  /\ blockno'[c] = blockno[c] /\ valid'[c] = valid[c] /\ dirty'[c] = dirty[c]
               /\ data'[c] = data[c] /\ owner'[c] = owner[c]
    BY SMTT(60), <1>4, HoldsLock, <2>2, HasBuf DEF acquiresleep, Goto, bcache, flags, ide, TypeOK, Waiting
  <2>3. ASSUME NEW q \in Users, pc[q] \in Waiting \/ pc'[q] \in Waiting
        PROVE  pc'[q] = pc[q] /\ buf'[q] = buf[q]
    BY SMTT(60), <1>4, HoldsLock, <2>3 DEF acquiresleep, Goto, bcache, flags, ide, TypeOK, Waiting
  <2> QED
    BY <2>1, <2>2, <2>3, QueueKept DEF IInv
<1>5. ASSUME NEW p \in Users, bread(p) PROVE QueueInv'
  <2>1. UNCHANGED <<idequeue, cmd, irq, disk>>
    BY <1>5, HoldsLock DEF bread, Goto, bcache, flags, ide
  <2>2. ASSUME NEW c \in Bufs, owner[c] # NoProc, pc[owner[c]] \in Waiting
        PROVE  /\ blockno'[c] = blockno[c] /\ valid'[c] = valid[c] /\ dirty'[c] = dirty[c]
               /\ data'[c] = data[c] /\ owner'[c] = owner[c]
    BY <1>5, HoldsLock, <2>2, HasBuf DEF bread, Goto, bcache, flags, ide, TypeOK, Waiting
  <2>3. ASSUME NEW q \in Users, pc[q] \in Waiting \/ pc'[q] \in Waiting
        PROVE  pc'[q] = pc[q] /\ buf'[q] = buf[q]
    BY <1>5, HoldsLock, <2>3 DEF bread, Goto, bcache, flags, ide, TypeOK, Waiting
  <2> QED
    BY <2>1, <2>2, <2>3, QueueKept DEF IInv
<1>6. ASSUME NEW p \in Users, log_write(p) PROVE QueueInv'
  <2>1. UNCHANGED <<idequeue, cmd, irq, disk>>
    BY <1>6, HoldsLock DEF log_write, Goto, bcache, flags, ide
  <2>2. ASSUME NEW c \in Bufs, owner[c] # NoProc, pc[owner[c]] \in Waiting
        PROVE  /\ blockno'[c] = blockno[c] /\ valid'[c] = valid[c] /\ dirty'[c] = dirty[c]
               /\ data'[c] = data[c] /\ owner'[c] = owner[c]
    BY <1>6, HoldsLock, <2>2, HasBuf DEF log_write, Goto, bcache, flags, ide, TypeOK, Waiting
  <2>3. ASSUME NEW q \in Users, pc[q] \in Waiting \/ pc'[q] \in Waiting
        PROVE  pc'[q] = pc[q] /\ buf'[q] = buf[q]
    BY <1>6, HoldsLock, <2>3 DEF log_write, Goto, bcache, flags, ide, TypeOK, Waiting
  <2> QED
    BY <2>1, <2>2, <2>3, QueueKept DEF IInv
<1>7. ASSUME NEW p \in Users, bwrite(p) PROVE QueueInv'
  <2>1. UNCHANGED <<idequeue, cmd, irq, disk>>
    BY <1>7, HoldsLock DEF bwrite, Goto, bcache, flags, ide
  <2>2. ASSUME NEW c \in Bufs, owner[c] # NoProc, pc[owner[c]] \in Waiting
        PROVE  /\ blockno'[c] = blockno[c] /\ valid'[c] = valid[c] /\ dirty'[c] = dirty[c]
               /\ data'[c] = data[c] /\ owner'[c] = owner[c]
    BY SMTT(60), <1>7, HoldsLock, <2>2, HasBuf DEF bwrite, Goto, bcache, flags, ide, TypeOK, Waiting
  <2>3. ASSUME NEW q \in Users, pc[q] \in Waiting \/ pc'[q] \in Waiting
        PROVE  pc'[q] = pc[q] /\ buf'[q] = buf[q]
    BY <1>7, HoldsLock, <2>3 DEF bwrite, Goto, bcache, flags, ide, TypeOK, Waiting
  <2> QED
    BY <2>1, <2>2, <2>3, QueueKept DEF IInv
<1>8. ASSUME NEW p \in Users, brelse_unlock(p) PROVE QueueInv'
  <2>0. /\ pc[p] = "have" /\ owner[buf[p]] = p /\ owner' = [owner EXCEPT ![buf[p]] = NoProc]
        /\ \A q \in Users : pc'[q] = IF q = p THEN "brelse"
                                     ELSE IF pc[q] = "lock_asleep" /\ buf[q] = buf[p] THEN "lock"
                                     ELSE pc[q]
        /\ UNCHANGED <<blockno, buf, valid, dirty, data, idequeue, cmd, irq, disk>>
    BY <1>8, HoldsLock DEF brelse_unlock, wakeup_lock, bcache, flags, ide
  <2>1. UNCHANGED <<idequeue, cmd, irq, disk>>
    BY <2>0
  <2>2. ASSUME NEW c \in Bufs, owner[c] # NoProc, pc[owner[c]] \in Waiting
        PROVE  /\ blockno'[c] = blockno[c] /\ valid'[c] = valid[c] /\ dirty'[c] = dirty[c]
               /\ data'[c] = data[c] /\ owner'[c] = owner[c]
    BY <2>0, <2>2, HasBuf DEF TypeOK, Waiting
  <2>3. ASSUME NEW q \in Users, pc[q] \in Waiting \/ pc'[q] \in Waiting
        PROVE  pc'[q] = pc[q] /\ buf'[q] = buf[q]
    BY <2>0, <2>3 DEF TypeOK, Waiting
  <2> QED
    BY <2>1, <2>2, <2>3, QueueKept DEF IInv
<1>9. ASSUME NEW p \in Users, brelse_put(p) PROVE QueueInv'
  <2>1. UNCHANGED <<idequeue, cmd, irq, disk>>
    BY <1>9, HoldsLock DEF brelse_put, Goto, bcache, flags, ide
  <2>2. ASSUME NEW c \in Bufs, owner[c] # NoProc, pc[owner[c]] \in Waiting
        PROVE  /\ blockno'[c] = blockno[c] /\ valid'[c] = valid[c] /\ dirty'[c] = dirty[c]
               /\ data'[c] = data[c] /\ owner'[c] = owner[c]
    BY <1>9, HoldsLock, <2>2, HasBuf DEF brelse_put, Goto, bcache, flags, ide, TypeOK, Waiting
  <2>3. ASSUME NEW q \in Users, pc[q] \in Waiting \/ pc'[q] \in Waiting
        PROVE  pc'[q] = pc[q] /\ buf'[q] = buf[q]
    BY <1>9, HoldsLock, <2>3 DEF brelse_put, Goto, bcache, flags, ide, TypeOK, Waiting
  <2> QED
    BY <2>1, <2>2, <2>3, QueueKept DEF IInv
<1>10. ASSUME NEW p \in Users, iderw(p) PROVE QueueInv'
  <2>0. CASE NoDisk
    BY <2>0 DEF NoDisk, QueueInv, QueueB, QueueP, Queued, InSync, idestart
  <2> SUFFICES ASSUME Enqueues(p) PROVE QueueInv'
    BY <1>10, <2>0, IderwStep
  <2>1. /\ pc[p] = "iderw" /\ owner[buf[p]] = p /\ pc' = [pc EXCEPT ![p] = "ide_asleep"] /\ ~InSync(buf[p])
        /\ idequeue' = Append(idequeue, buf[p])
        /\ cmd' = IF idequeue = <<>> THEN idestart(buf[p]) ELSE cmd
        /\ UNCHANGED <<blockno, owner, buf, valid, dirty, data, irq, disk>>
    BY DEF Enqueues
  <2>2. buf[p] \in Bufs /\ ~Queued(buf[p]) /\ idequeue \in Seq(Bufs)
    <3>1. buf[p] \in Bufs
      BY <2>1, HasBuf
    <3> QED
      BY <2>1, <3>1 DEF QueueInv, QueueB, Waiting, TypeOK
  <2>3. /\ Distinct(idequeue') /\ idequeue' # <<>>
        /\ Head(idequeue') = IF idequeue = <<>> THEN buf[p] ELSE Head(idequeue)
        /\ \A c : In(idequeue', c) <=> In(idequeue, c) \/ c = buf[p]
    BY <2>1, <2>2, AppendIn DEF QueueInv, Queued
  <2>4. ASSUME NEW c \in Bufs PROVE QueueB(c)'
    <3>1. QueueB(c)
      BY DEF QueueInv
    <3> QED
      BY SMTT(60), UsersFacts, <2>1, <2>2, <2>3, <3>1 DEF QueueB, Queued, InSync, Waiting, TypeOK
  <2>5. ASSUME NEW q \in Users PROVE QueueP(q)'
    <3>1. QueueP(q)
      BY DEF QueueInv
    <3> QED
      BY <2>1, <2>2, <2>3, <3>1 DEF QueueP, Queued, InSync, TypeOK
  <2>6. cmd' = idestart(Head(idequeue))'
    BY <2>1, <2>3 DEF idestart, QueueInv
  <2>7. irq' => idequeue' # <<>> /\ (cmd'.write => disk'[cmd'.blk] = cmd'.data)
    BY <2>1, <2>3 DEF QueueInv
  <2> QED
    BY <2>3, <2>4, <2>5, <2>6, <2>7 DEF QueueInv
<1>11. ASSUME NEW p \in Users, iderw_woken(p) PROVE QueueInv'
  <2>1. /\ pc[p] = "ide_test" /\ pc' = [pc EXCEPT ![p] = IF InSync(buf[p]) THEN "have" ELSE "ide_asleep"]
        /\ UNCHANGED <<blockno, owner, buf, valid, dirty, data, idequeue, cmd, irq, disk>>
    BY <1>11 DEF iderw_woken, Goto, bcache, flags, ide
  <2>4. ASSUME NEW c \in Bufs PROVE QueueB(c)'
    <3>1. QueueB(c) /\ HoldB(c)
      BY DEF QueueInv, HoldInv
    <3> QED
      BY <2>1, <3>1 DEF QueueB, HoldB, Queued, InSync, Waiting, TypeOK
  <2>5. ASSUME NEW q \in Users PROVE QueueP(q)'
    <3>1. QueueP(q)
      BY DEF QueueInv
    <3> QED
      BY <2>1, <3>1 DEF QueueP, Queued, InSync, TypeOK
  <2> QED
    BY <2>1, <2>4, <2>5 DEF QueueInv, idestart
<1>12. ASSUME NEW p \in Users, Kill(p) PROVE QueueInv'
  <2>1. /\ pc[p] \in {"lock_asleep", "ide_asleep"}
        /\ pc' = [pc EXCEPT ![p] = IF pc[p] = "lock_asleep" THEN "lock" ELSE "ide_test"]
        /\ UNCHANGED <<blockno, owner, buf, valid, dirty, data, idequeue, cmd, irq, disk>>
    BY <1>12 DEF Kill, Goto, bcache, flags, ide
  <2>4. ASSUME NEW c \in Bufs PROVE QueueB(c)'
    <3>1. QueueB(c)
      BY DEF QueueInv
    <3> QED
      BY <2>1, <3>1 DEF QueueB, Queued, InSync, Waiting, TypeOK
  <2>5. ASSUME NEW q \in Users PROVE QueueP(q)'
    <3>1. QueueP(q)
      BY DEF QueueInv
    <3> QED
      BY <2>1, <3>1 DEF QueueP, Queued, InSync, TypeOK
  <2> QED
    BY <2>1, <2>4, <2>5 DEF QueueInv, idestart
<1>13. CASE DiskDone
  <2>1. /\ idequeue # <<>> /\ irq'
        /\ disk' = IF cmd.write THEN [disk EXCEPT ![cmd.blk] = cmd.data] ELSE disk
        /\ UNCHANGED <<blockno, owner, buf, valid, dirty, data, idequeue, cmd, pc>>
    BY <1>13 DEF DiskDone, QueueInv, bcache, flags
  <2>2. cmd.blk \in Blocks
    BY <2>1, HeadOwner DEF idestart
  <2>3. cmd'.write => disk'[cmd'.blk] = cmd'.data
    BY <2>1, <2>2 DEF TypeOK
  <2> QED
    BY <2>1, <2>3 DEF QueueInv, QueueB, QueueP, Queued, InSync, idestart
<1>14. ASSUME NEW err \in DiskErrors, ideintr(err) PROVE QueueInv'
  <2>0. PICK b \in Bufs : Serves(b, err)
    BY <1>14, IntrStep
  <2>1. /\ b = Head(idequeue) /\ idequeue # <<>> /\ ~irq' /\ idequeue' = Tail(idequeue)
        /\ valid' = [valid EXCEPT ![b] = TRUE] /\ dirty' = [dirty EXCEPT ![b] = FALSE]
        /\ cmd' = IF Tail(idequeue) = <<>> THEN NoCmd ELSE idestart(Head(Tail(idequeue)))
        /\ \A c \in Bufs : c # b => data'[c] = data[c]
        /\ UNCHANGED <<blockno, owner, buf, disk>>
    BY <2>0 DEF Serves, TypeOK
  <2>2. /\ Distinct(idequeue') /\ idequeue' \in Seq(Bufs)
        /\ \A c : In(idequeue', c) <=> In(idequeue, c) /\ c # b
    BY <2>1, TailIn DEF QueueInv, TypeOK
  <2>3. \A c \in Bufs : c # b => valid'[c] = valid[c] /\ dirty'[c] = dirty[c]
    BY <2>1 DEF TypeOK
  <2>4. ASSUME NEW c \in Bufs PROVE QueueB(c)'
    <3>1. QueueB(c)
      BY DEF QueueInv
    <3>2. pc[owner[c]] \in Waiting /\ owner[c] \in Users => pc'[owner[c]] \in Waiting
      BY <2>0 DEF Serves, wakeup_buf, Waiting
    <3>3. owner[c] # NoProc => owner[c] \in Users
      BY DEF TypeOK
    <3> QED
      BY <2>1, <2>2, <2>3, <3>1, <3>2, <3>3 DEF QueueB, Queued, InSync
  <2>5. ASSUME NEW q \in Users PROVE QueueP(q)'
    <3>1. QueueP(q) /\ (pc[q] # "idle" => buf[q] \in Bufs)
      BY HasBuf DEF QueueInv
    <3>2. pc'[q] = IF pc[q] = "ide_asleep" /\ buf[q] = b THEN "ide_test" ELSE pc[q]
      BY <2>0 DEF Serves, wakeup_buf
    <3>3. buf[q] = b => InSync(buf[q])'
      BY ZenonT(60), <2>1 DEF InSync, TypeOK
    <3> QED
      BY <2>1, <2>2, <2>3, <3>1, <3>2, <3>3 DEF QueueP, Queued, InSync
  <2>6. cmd' = IF idequeue' = <<>> THEN NoCmd ELSE idestart(Head(idequeue))'
    <3>1. CASE Tail(idequeue) = <<>>
      BY <2>1, <3>1
    <3>2. CASE Tail(idequeue) # <<>>
      <4>1. Head(idequeue') \in Bufs /\ Head(idequeue') # b
        BY <2>1, <2>2, <3>2, TailIn
      <4>2. PICK c \in Bufs : c = Head(idequeue') /\ c # b
        BY <4>1
      <4>3. valid'[c] = valid[c] /\ dirty'[c] = dirty[c] /\ data'[c] = data[c] /\ blockno'[c] = blockno[c]
        BY <2>1, <2>3, <4>2
      <4>4. idestart(c)' = idestart(c)
        BY <4>3 DEF idestart
      <4>5. idestart(Head(idequeue))' = idestart(c)'
        BY <4>2 DEF idestart
      <4>6. cmd' = idestart(c) /\ idequeue' # <<>>
        BY <2>1, <3>2, <4>2
      <4> QED
        BY <4>4, <4>5, <4>6
    <3> QED
      BY <3>1, <3>2
  <2> QED
    BY <2>1, <2>2, <2>4, <2>5, <2>6 DEF QueueInv
<1>15. CASE UNCHANGED vars
  BY <1>15 DEF vars, bcache, flags, ide, QueueInv, QueueB, QueueP, Queued, InSync, idestart
<1> QED
  BY <1>1, <1>2, <1>3, <1>4, <1>5, <1>6, <1>7, <1>8, <1>9, <1>10, <1>11, <1>12, <1>13, <1>14, <1>15 DEF Next

\* Never more than MaxPinned buffers are dirty without somebody writing them.
LEMMA PinStep == IInv /\ [Next]_vars => PinInv'
<1> SUFFICES ASSUME IInv, [Next]_vars PROVE PinInv'
  OBVIOUS
<1> USE BufferCacheAssumption DEF IInv
<1>1. ASSUME NEW p \in Users, NEW k \in Blocks, bget_hit(p, k) PROVE PinInv'
  <2>0. PICK b \in Bufs : Hits(p, k, b)
    BY <1>1, HitStep
  <2>1. AtRest' \subseteq AtRest
    <3>1. ASSUME NEW c \in Bufs, c \in AtRest' PROVE c \in AtRest
      BY SMTT(60), <2>0, <3>1 DEF Hits, Takes, AtRest, Pinned, Writing, Waiting, TypeOK
    <3> QED
      BY <3>1 DEF AtRest, Pinned
  <2> QED
    BY <2>1, AtRestFewer
<1>2. ASSUME NEW p \in Users, NEW k \in Blocks, bget_recycle(p, k) PROVE PinInv'
  <2>1. AtRest' \subseteq AtRest
    <3>1. CASE NoBuffers(p)
      BY <3>1 DEF NoBuffers, AtRest, Pinned, Writing
    <3>2. ASSUME NEW b \in Bufs, Recycles(p, k, b), NEW c \in Bufs, c \in AtRest' PROVE c \in AtRest
      <4>1. \A q \in Users : buf[q] # b
        BY <3>2, Unused DEF Recycles
      <4> QED
        BY SMTT(60), <3>2, <4>1 DEF Recycles, Takes, AtRest, Pinned, Writing, Waiting, TypeOK
    <3> QED
      BY <1>2, <3>1, <3>2, RecycleStep DEF AtRest, Pinned
  <2> QED
    BY <2>1, AtRestFewer
<1>3. ASSUME NEW p \in Users, NEW v \in Values, Modify(p, v) PROVE PinInv'
  <2>1. AtRest' \subseteq AtRest
    <3>1. ASSUME NEW c \in Bufs, c \in AtRest' PROVE c \in AtRest
      BY <1>3, HoldsLock, HasBuf, <3>1 DEF Modify, Goto, bcache, flags, InSync, AtRest, Pinned, Writing, Waiting, TypeOK
    <3> QED
      BY <3>1 DEF AtRest, Pinned
  <2> QED
    BY <2>1, AtRestFewer
<1>4. ASSUME NEW p \in Users, acquiresleep(p) PROVE PinInv'
  <2>1. AtRest' \subseteq AtRest
    <3>1. ASSUME NEW c \in Bufs, c \in AtRest' PROVE c \in AtRest
      BY SMTT(60), <1>4, HoldsLock, HasBuf, <3>1 DEF acquiresleep, Goto, bcache, flags, InSync, AtRest, Pinned, Writing, Waiting, TypeOK
    <3> QED
      BY <3>1 DEF AtRest, Pinned
  <2> QED
    BY <2>1, AtRestFewer
<1>5. ASSUME NEW p \in Users, bread(p) PROVE PinInv'
  <2>1. AtRest' \subseteq AtRest
    <3>1. ASSUME NEW c \in Bufs, c \in AtRest' PROVE c \in AtRest
      BY ZenonT(60), <1>5, HoldsLock, HasBuf, <3>1 DEF bread, Goto, bcache, flags, InSync, AtRest, Pinned, Writing, Waiting, TypeOK
    <3> QED
      BY <3>1 DEF AtRest, Pinned
  <2> QED
    BY <2>1, AtRestFewer
<1>6. ASSUME NEW p \in Users, log_write(p) PROVE PinInv'
  <2>1. AtRest' \in SUBSET (Pinned \cup {buf[p]})
    BY <1>6 DEF log_write, AtRest, Pinned, TypeOK
  <2>2. Pinned \cup {buf[p]} \in SUBSET Bufs
    BY <1>6, HasBuf DEF log_write, Pinned
  <2>3. Cardinality(AtRest') <= Cardinality(Pinned \cup {buf[p]})
    BY <2>1, <2>2, BufsFinite, FS_Subset
  <2>4. Cardinality(Pinned \cup {buf[p]}) <= MaxPinned
    BY <1>6 DEF log_write
  <2>5. AtRest' \in SUBSET Bufs
    BY <2>1, <2>2
  <2>6. Cardinality(AtRest') \in Nat /\ Cardinality(Pinned \cup {buf[p]}) \in Nat
    BY <2>2, <2>5, BufsFinite
  <2> QED
    BY <2>3, <2>4, <2>6 DEF PinInv
<1>7. ASSUME NEW p \in Users, bwrite(p) PROVE PinInv'
  <2>1. AtRest' \subseteq AtRest
    <3>1. ASSUME NEW c \in Bufs, c \in AtRest' PROVE c \in AtRest
      BY SMTT(60), <1>7, HoldsLock, HasBuf, <3>1 DEF bwrite, Goto, bcache, flags, InSync, AtRest, Pinned, Writing, Waiting, TypeOK
    <3> QED
      BY <3>1 DEF AtRest, Pinned
  <2> QED
    BY <2>1, AtRestFewer
<1>8. ASSUME NEW p \in Users, brelse_unlock(p) PROVE PinInv'
  <2>0. /\ pc[p] = "have" /\ owner[buf[p]] = p /\ owner' = [owner EXCEPT ![buf[p]] = NoProc]
        /\ \A q \in Users : pc'[q] = IF q = p THEN "brelse"
                                     ELSE IF pc[q] = "lock_asleep" /\ buf[q] = buf[p] THEN "lock"
                                     ELSE pc[q]
        /\ UNCHANGED <<blockno, buf, valid, dirty, data, disk>>
    BY <1>8, HoldsLock DEF brelse_unlock, wakeup_lock, bcache, flags
  <2>1. AtRest' \subseteq AtRest
    <3>1. ASSUME NEW c \in Bufs, c \in AtRest' PROVE c \in AtRest
      BY <2>0, <3>1 DEF AtRest, Pinned, Writing, Waiting, TypeOK
    <3> QED
      BY <3>1 DEF AtRest, Pinned
  <2> QED
    BY <2>1, AtRestFewer
<1>9. ASSUME NEW p \in Users, brelse_put(p) PROVE PinInv'
  <2>1. AtRest' \subseteq AtRest
    <3>1. ASSUME NEW c \in Bufs, c \in AtRest' PROVE c \in AtRest
      BY <1>9, HoldsLock, HasBuf, <3>1 DEF brelse_put, Goto, bcache, flags, InSync, AtRest, Pinned, Writing, Waiting, TypeOK
    <3> QED
      BY <3>1 DEF AtRest, Pinned
  <2> QED
    BY <2>1, AtRestFewer
<1>10. ASSUME NEW p \in Users, iderw(p) PROVE PinInv'
  <2>1. AtRest' \subseteq AtRest
    <3>1. ASSUME NEW c \in Bufs, c \in AtRest' PROVE c \in AtRest
      <4>1. CASE Enqueues(p)
        BY <3>1, <4>1 DEF Enqueues, AtRest, Pinned, Writing, Waiting, TypeOK
      <4>2. CASE NoDisk
        BY <3>1, <4>2 DEF NoDisk, AtRest, Pinned, Writing
      <4> QED
        BY <1>10, <4>1, <4>2, IderwStep
    <3> QED
      BY <3>1 DEF AtRest, Pinned
  <2> QED
    BY <2>1, AtRestFewer
<1>11. ASSUME NEW p \in Users, iderw_woken(p) PROVE PinInv'
  <2>1. AtRest' \subseteq AtRest
    <3>1. ASSUME NEW c \in Bufs, c \in AtRest' PROVE c \in AtRest
      BY <1>11, HoldsLock, HasBuf, <3>1 DEF iderw_woken, Goto, bcache, flags, InSync, AtRest, Pinned, Writing, Waiting, TypeOK
    <3> QED
      BY <3>1 DEF AtRest, Pinned
  <2> QED
    BY <2>1, AtRestFewer
<1>12. ASSUME NEW p \in Users, Kill(p) PROVE PinInv'
  <2>1. AtRest' \subseteq AtRest
    <3>1. ASSUME NEW c \in Bufs, c \in AtRest' PROVE c \in AtRest
      BY <1>12, HoldsLock, HasBuf, <3>1 DEF Kill, Goto, bcache, flags, InSync, AtRest, Pinned, Writing, Waiting, TypeOK
    <3> QED
      BY <3>1 DEF AtRest, Pinned
  <2> QED
    BY <2>1, AtRestFewer
<1>13. CASE DiskDone
  <2>1. AtRest' \subseteq AtRest
    <3>1. ASSUME NEW c \in Bufs, c \in AtRest' PROVE c \in AtRest
      BY <1>13, HoldsLock, HasBuf, <3>1 DEF DiskDone, bcache, flags, InSync, AtRest, Pinned, Writing, Waiting, TypeOK
    <3> QED
      BY <3>1 DEF AtRest, Pinned
  <2> QED
    BY <2>1, AtRestFewer
<1>14. ASSUME NEW err \in DiskErrors, ideintr(err) PROVE PinInv'
  <2>0. PICK b \in Bufs : Serves(b, err)
    BY <1>14, IntrStep
  <2>1. AtRest' \subseteq AtRest
    <3>1. ASSUME NEW c \in Bufs, c \in AtRest' PROVE c \in AtRest
      BY <2>0, <3>1 DEF Serves, wakeup_buf, AtRest, Pinned, Writing, Waiting, TypeOK
    <3> QED
      BY <3>1 DEF AtRest, Pinned
  <2> QED
    BY <2>1, AtRestFewer
<1>15. CASE UNCHANGED vars
  <2>1. AtRest' \subseteq AtRest
    <3>1. ASSUME NEW c \in Bufs, c \in AtRest' PROVE c \in AtRest
      BY <1>15, HoldsLock, HasBuf, <3>1 DEF vars, bcache, flags, InSync, AtRest, Pinned, Writing, Waiting, TypeOK
    <3> QED
      BY <3>1 DEF AtRest, Pinned
  <2> QED
    BY <2>1, AtRestFewer
<1> QED
  BY <1>1, <1>2, <1>3, <1>4, <1>5, <1>6, <1>7, <1>8, <1>9, <1>10, <1>11, <1>12, <1>13, <1>14, <1>15 DEF Next

\* No panic of bget, bwrite, brelse or iderw is reached.
LEMMA PanicStep == IInv /\ [Next]_vars => NoPanic'
<1> SUFFICES ASSUME IInv, [Next]_vars PROVE NoPanic'
  OBVIOUS
<1> USE BufferCacheAssumption DEF IInv
<1>1. ASSUME NEW p \in Users, NEW k \in Blocks, bget_hit(p, k) PROVE NoPanic'
  BY <1>1, HitStep DEF bget_hit, Goto, NoPanic, Hits, Takes
<1>2. ASSUME NEW p \in Users, NEW k \in Blocks, bget_recycle(p, k) PROVE NoPanic'
  <2>1. CASE NoBuffers(p)
    <3>1. ~(NBUF >= MaxPinned + 2 * Cardinality(Procs))
      BY <2>1, SomeRecyclable DEF NoBuffers
    <3>2. NBUF < MaxPinned + 2 * Cardinality(Procs)
      BY <3>1, UsersFacts
    <3> QED
      BY <2>1, <3>2 DEF NoBuffers, NoPanic
  <2>2. ASSUME NEW b \in Bufs, Recycles(p, k, b) PROVE NoPanic'
    BY <2>2 DEF Recycles, Takes, NoPanic
  <2> QED
    BY <1>2, <2>1, <2>2, RecycleStep
<1>3. ASSUME NEW p \in Users, NEW v \in Values, Modify(p, v) PROVE NoPanic'
  BY <1>3 DEF Modify, Goto, NoPanic
<1>4. ASSUME NEW p \in Users, acquiresleep(p) PROVE NoPanic'
  BY <1>4 DEF acquiresleep, Goto, NoPanic
<1>5. ASSUME NEW p \in Users, bread(p) PROVE NoPanic'
  BY <1>5 DEF bread, Goto, NoPanic
<1>6. ASSUME NEW p \in Users, log_write(p) PROVE NoPanic'
  BY <1>6 DEF log_write, Goto, NoPanic
<1>7. ASSUME NEW p \in Users, bwrite(p) PROVE NoPanic'
  BY <1>7, HoldsLock DEF bwrite, Goto, NoPanic
<1>8. ASSUME NEW p \in Users, brelse_unlock(p) PROVE NoPanic'
  BY <1>8, HoldsLock DEF brelse_unlock, wakeup_lock, NoPanic
<1>9. ASSUME NEW p \in Users, brelse_put(p) PROVE NoPanic'
  BY <1>9 DEF brelse_put, Goto, NoPanic
<1>10. ASSUME NEW p \in Users, iderw(p) PROVE NoPanic'
  <2>1. CASE Enqueues(p)
    <3>1. blockno[buf[p]] \in Blocks
      BY <2>1, HasBuf DEF Enqueues
    <3> QED
      BY <2>1, <3>1 DEF Enqueues, idestart_panic, NoPanic
  <2>2. CASE NoDisk
    BY <2>2 DEF NoDisk, NoPanic
  <2> QED
    BY <1>10, <2>1, <2>2, IderwStep
<1>11. ASSUME NEW p \in Users, iderw_woken(p) PROVE NoPanic'
  BY <1>11 DEF iderw_woken, Goto, NoPanic
<1>12. ASSUME NEW p \in Users, Kill(p) PROVE NoPanic'
  BY <1>12 DEF Kill, Goto, NoPanic
<1>13. CASE DiskDone
  BY <1>13 DEF DiskDone, NoPanic
<1>14. ASSUME NEW err \in DiskErrors, ideintr(err) PROVE NoPanic'
  <2>1. PICK b \in Bufs : Serves(b, err)
    BY <1>14, IntrStep
  <2>2. CASE Tail(idequeue) = <<>>
    BY <2>1, <2>2 DEF Serves, NoPanic
  <2>3. CASE Tail(idequeue) # <<>>
    <3>1. Head(Tail(idequeue)) \in Bufs /\ blockno[Head(Tail(idequeue))] \in Blocks
      BY <2>1, <2>3, NextWaits DEF Serves
    <3> QED
      BY <2>1, <2>3, <3>1 DEF Serves, idestart_panic, NoPanic
  <2> QED
    BY <2>2, <2>3
<1>15. CASE UNCHANGED vars
  BY <1>15 DEF vars, NoPanic
<1> QED
  BY SMTT(60), <1>1, <1>2, <1>3, <1>4, <1>5, <1>6, <1>7, <1>8, <1>9, <1>10, <1>11, <1>12, <1>13, <1>14, <1>15 DEF Next

\* A clean buffer equals its block when the disk reports no error.
LEMMA CleanStep == IInv /\ [Next]_vars => CleanInv'
<1> SUFFICES ASSUME IInv, [Next]_vars PROVE CleanInv'
  OBVIOUS
<1> USE BufferCacheAssumption DEF IInv
<1>1. ASSUME NEW p \in Users, NEW k \in Blocks, bget_hit(p, k) PROVE CleanInv'
  <2>0. PICK b \in Bufs : Hits(p, k, b)
    BY <1>1, HitStep
  <2> SUFFICES ASSUME TRUE \notin DiskErrors, NEW c \in Bufs, InSync(c)',
                      \A q \in Users : ~(buf'[q] = c /\ pc'[q] = "changed")
               PROVE  data'[c] = disk'[blockno'[c]]
    BY DEF CleanInv, CleanIsOnDisk
  <2> QED
    BY <2>0 DEF Hits, Takes, HoldInv, HoldP, NoBuf, Bufs, CleanInv, CleanIsOnDisk, InSync, TypeOK
<1>2. ASSUME NEW p \in Users, NEW k \in Blocks, bget_recycle(p, k) PROVE CleanInv'
  <2>1. CASE NoBuffers(p)
    BY <2>1 DEF NoBuffers, CleanInv, CleanIsOnDisk, InSync
  <2>2. ASSUME NEW b \in Bufs, Recycles(p, k, b) PROVE CleanInv'
    <3> SUFFICES ASSUME TRUE \notin DiskErrors, NEW c \in Bufs, InSync(c)',
                        \A q \in Users : ~(buf'[q] = c /\ pc'[q] = "changed")
                 PROVE  data'[c] = disk'[blockno'[c]]
      BY DEF CleanInv, CleanIsOnDisk
    <3>1. c # b
      BY <2>2 DEF Recycles, InSync, TypeOK
    <3>2. /\ blockno'[c] = blockno[c] /\ valid'[c] = valid[c] /\ dirty'[c] = dirty[c]
          /\ UNCHANGED <<data, disk>>
      BY <2>2, <3>1 DEF Recycles, Takes, TypeOK
    <3>3. \A q \in Users : ~(buf[q] = c /\ pc[q] = "changed")
      BY <2>2 DEF Recycles, Takes, TypeOK
    <3> QED
      BY <3>2, <3>3 DEF CleanInv, CleanIsOnDisk, InSync
  <2> QED
    BY <1>2, <2>1, <2>2, RecycleStep
<1>3. ASSUME NEW p \in Users, NEW v \in Values, Modify(p, v) PROVE CleanInv'
  <2> SUFFICES ASSUME TRUE \notin DiskErrors, NEW c \in Bufs, InSync(c)',
                      \A q \in Users : ~(buf'[q] = c /\ pc'[q] = "changed")
               PROVE  data'[c] = disk'[blockno'[c]]
    BY DEF CleanInv, CleanIsOnDisk
  <2> QED
    BY <1>3, HoldsLock, HasBuf DEF Modify, Goto, bcache, flags, CleanInv, CleanIsOnDisk, InSync, TypeOK
<1>4. ASSUME NEW p \in Users, acquiresleep(p) PROVE CleanInv'
  <2> SUFFICES ASSUME TRUE \notin DiskErrors, NEW c \in Bufs, InSync(c)',
                      \A q \in Users : ~(buf'[q] = c /\ pc'[q] = "changed")
               PROVE  data'[c] = disk'[blockno'[c]]
    BY DEF CleanInv, CleanIsOnDisk
  <2> QED
    BY SMTT(60), <1>4, HoldsLock, HasBuf DEF acquiresleep, Goto, bcache, flags, CleanInv, CleanIsOnDisk, InSync, TypeOK
<1>5. ASSUME NEW p \in Users, bread(p) PROVE CleanInv'
  <2> SUFFICES ASSUME TRUE \notin DiskErrors, NEW c \in Bufs, InSync(c)',
                      \A q \in Users : ~(buf'[q] = c /\ pc'[q] = "changed")
               PROVE  data'[c] = disk'[blockno'[c]]
    BY DEF CleanInv, CleanIsOnDisk
  <2> QED
    BY <1>5, HoldsLock, HasBuf DEF bread, Goto, bcache, flags, CleanInv, CleanIsOnDisk, InSync, TypeOK
<1>6. ASSUME NEW p \in Users, log_write(p) PROVE CleanInv'
  <2> SUFFICES ASSUME TRUE \notin DiskErrors, NEW c \in Bufs, InSync(c)',
                      \A q \in Users : ~(buf'[q] = c /\ pc'[q] = "changed")
               PROVE  data'[c] = disk'[blockno'[c]]
    BY DEF CleanInv, CleanIsOnDisk
  <2> QED
    BY <1>6, HoldsLock, HasBuf DEF log_write, Goto, bcache, flags, CleanInv, CleanIsOnDisk, InSync, TypeOK
<1>7. ASSUME NEW p \in Users, bwrite(p) PROVE CleanInv'
  <2>1. /\ pc[p] \in {"have", "changed"} /\ dirty' = [dirty EXCEPT ![buf[p]] = TRUE]
        /\ pc' = [pc EXCEPT ![p] = "iderw"] /\ UNCHANGED <<blockno, buf, valid, data, disk>>
    BY <1>7, HoldsLock DEF bwrite, Goto, bcache
  <2> SUFFICES ASSUME TRUE \notin DiskErrors, NEW c \in Bufs, InSync(c)',
                      \A q \in Users : ~(buf'[q] = c /\ pc'[q] = "changed")
               PROVE  data'[c] = disk'[blockno'[c]]
    BY DEF CleanInv, CleanIsOnDisk
  <2>2. c # buf[p]
    BY <2>1 DEF InSync, TypeOK
  <2>3. InSync(c) /\ \A q \in Users : ~(buf[q] = c /\ pc[q] = "changed")
    BY <2>1, <2>2 DEF InSync, TypeOK
  <2> QED
    BY <2>1, <2>3 DEF CleanInv, CleanIsOnDisk
<1>8. ASSUME NEW p \in Users, brelse_unlock(p) PROVE CleanInv'
  <2>0. /\ pc[p] = "have" /\ owner[buf[p]] = p /\ owner' = [owner EXCEPT ![buf[p]] = NoProc]
        /\ \A q \in Users : pc'[q] = IF q = p THEN "brelse"
                                     ELSE IF pc[q] = "lock_asleep" /\ buf[q] = buf[p] THEN "lock"
                                     ELSE pc[q]
        /\ UNCHANGED <<blockno, buf, valid, dirty, data, disk>>
    BY <1>8, HoldsLock DEF brelse_unlock, wakeup_lock, bcache, flags
  <2> SUFFICES ASSUME TRUE \notin DiskErrors, NEW c \in Bufs, InSync(c)',
                      \A q \in Users : ~(buf'[q] = c /\ pc'[q] = "changed")
               PROVE  data'[c] = disk'[blockno'[c]]
    BY DEF CleanInv, CleanIsOnDisk
  <2>1. \A q \in Users : pc[q] = "changed" => pc'[q] = "changed"
    BY <2>0
  <2>2. InSync(c) /\ \A q \in Users : ~(buf[q] = c /\ pc[q] = "changed")
    BY <2>0, <2>1 DEF InSync
  <2> QED
    BY <2>0, <2>2 DEF CleanInv, CleanIsOnDisk
<1>9. ASSUME NEW p \in Users, brelse_put(p) PROVE CleanInv'
  <2> SUFFICES ASSUME TRUE \notin DiskErrors, NEW c \in Bufs, InSync(c)',
                      \A q \in Users : ~(buf'[q] = c /\ pc'[q] = "changed")
               PROVE  data'[c] = disk'[blockno'[c]]
    BY DEF CleanInv, CleanIsOnDisk
  <2> QED
    BY <1>9, HoldsLock, HasBuf DEF brelse_put, Goto, bcache, flags, CleanInv, CleanIsOnDisk, InSync, TypeOK
<1>10. ASSUME NEW p \in Users, iderw(p) PROVE CleanInv'
  <2> SUFFICES ASSUME TRUE \notin DiskErrors, NEW c \in Bufs, InSync(c)',
                      \A q \in Users : ~(buf'[q] = c /\ pc'[q] = "changed")
               PROVE  data'[c] = disk'[blockno'[c]]
    BY DEF CleanInv, CleanIsOnDisk
  <2> QED
    <3>1. /\ \A q \in Users : pc[q] = "changed" => pc'[q] = "changed"
          /\ UNCHANGED <<blockno, valid, dirty, data, disk, buf>>
      BY <1>10, IderwStep DEF Enqueues, NoDisk, TypeOK
    <3> QED
      BY <3>1 DEF CleanInv, CleanIsOnDisk, InSync
<1>11. ASSUME NEW p \in Users, iderw_woken(p) PROVE CleanInv'
  <2> SUFFICES ASSUME TRUE \notin DiskErrors, NEW c \in Bufs, InSync(c)',
                      \A q \in Users : ~(buf'[q] = c /\ pc'[q] = "changed")
               PROVE  data'[c] = disk'[blockno'[c]]
    BY DEF CleanInv, CleanIsOnDisk
  <2> QED
    BY <1>11, HoldsLock, HasBuf DEF iderw_woken, Goto, bcache, flags, CleanInv, CleanIsOnDisk, InSync, TypeOK
<1>12. ASSUME NEW p \in Users, Kill(p) PROVE CleanInv'
  <2> SUFFICES ASSUME TRUE \notin DiskErrors, NEW c \in Bufs, InSync(c)',
                      \A q \in Users : ~(buf'[q] = c /\ pc'[q] = "changed")
               PROVE  data'[c] = disk'[blockno'[c]]
    BY DEF CleanInv, CleanIsOnDisk
  <2> QED
    BY <1>12, HoldsLock, HasBuf DEF Kill, Goto, bcache, flags, CleanInv, CleanIsOnDisk, InSync, TypeOK
<1>13. CASE DiskDone
  <2> SUFFICES ASSUME TRUE \notin DiskErrors, NEW c \in Bufs, InSync(c)',
                      \A q \in Users : ~(buf'[q] = c /\ pc'[q] = "changed")
               PROVE  data'[c] = disk'[blockno'[c]]
    BY DEF CleanInv, CleanIsOnDisk
  <2>1. /\ idequeue # <<>> /\ InSync(c)
        /\ disk' = IF cmd.write THEN [disk EXCEPT ![cmd.blk] = cmd.data] ELSE disk
        /\ UNCHANGED <<data, blockno, buf, pc>>
    BY <1>13 DEF DiskDone, QueueInv, InSync, bcache, flags
  <2>2. data[c] = disk[blockno[c]]
    BY <2>1 DEF CleanInv, CleanIsOnDisk
  <2>3. PICK h \in Bufs : h = Head(idequeue) /\ Queued(h) /\ cmd = idestart(h) /\ blockno[h] \in Blocks
    BY <2>1, HeadOwner
  <2>4. h # c
    BY <2>1, <2>3 DEF QueueInv, QueueB
  <2>5. cmd.blk = blockno[h] /\ blockno[c] \in Blocks /\ blockno[c] # blockno[h]
    BY <2>1, <2>3, <2>4, OneHolder DEF idestart, HoldInv, HoldB, InSync
  <2>6. disk'[blockno[c]] = disk[blockno[c]]
    BY <2>1, <2>5 DEF TypeOK
  <2> QED
    BY <2>1, <2>2, <2>6
<1>14. ASSUME NEW err \in DiskErrors, ideintr(err) PROVE CleanInv'
  <2> SUFFICES ASSUME TRUE \notin DiskErrors, NEW c \in Bufs, InSync(c)',
                      \A q \in Users : ~(buf'[q] = c /\ pc'[q] = "changed")
               PROVE  data'[c] = disk'[blockno'[c]]
    BY DEF CleanInv, CleanIsOnDisk
  <2>1. PICK b \in Bufs : Serves(b, err)
    BY <1>14, IntrStep
  <2>2. err = FALSE
    OBVIOUS
  <2>3. CASE c = b
    <3>1. CASE dirty[b]
      <4>1. cmd = idestart(b) /\ (cmd.write => disk[cmd.blk] = cmd.data)
        BY <2>1, HeadOwner DEF Serves, QueueInv
      <4>2. disk[blockno[b]] = data[b]
        BY <3>1, <4>1 DEF idestart
      <4> QED
        BY <2>1, <2>3, <3>1, <4>2 DEF Serves
    <3>2. CASE ~dirty[b]
      BY <2>1, <2>2, <2>3, <3>2 DEF Serves, TypeOK
    <3> QED
      BY <3>1, <3>2
  <2>4. CASE c # b
    <3>1. data'[c] = data[c] /\ InSync(c) /\ UNCHANGED <<blockno, disk, buf>>
      BY <2>1, <2>4 DEF Serves, InSync, TypeOK
    <3>2. \A q \in Users : ~(buf[q] = c /\ pc[q] = "changed")
      BY <2>1, <3>1 DEF Serves, wakeup_buf
    <3> QED
      BY <3>1, <3>2 DEF CleanInv, CleanIsOnDisk
  <2> QED
    BY <2>3, <2>4
<1>15. CASE UNCHANGED vars
  <2> SUFFICES ASSUME TRUE \notin DiskErrors, NEW c \in Bufs, InSync(c)',
                      \A q \in Users : ~(buf'[q] = c /\ pc'[q] = "changed")
               PROVE  data'[c] = disk'[blockno'[c]]
    BY DEF CleanInv, CleanIsOnDisk
  <2> QED
    BY <1>15, HoldsLock, HasBuf DEF vars, bcache, flags, CleanInv, CleanIsOnDisk, InSync, TypeOK
<1> QED
  BY <1>1, <1>2, <1>3, <1>4, <1>5, <1>6, <1>7, <1>8, <1>9, <1>10, <1>11, <1>12, <1>13, <1>14, <1>15 DEF Next

\* The state after binit satisfies the invariant.
LEMMA InitInv == Init => IInv
<1> SUFFICES ASSUME Init PROVE IInv
  OBVIOUS
<1> USE BufferCacheAssumption
<1>0. PICK v \in Values : data = [b \in Bufs |-> v]
  BY DEF Init
<1>1. ASSUME NEW i \in Bufs PROVE lru[i] \in Bufs /\ lru[i] = NBUF + 1 - i /\ lru[NBUF + 1 - i] = i
  BY DEF Init, Bufs
<1>2. lru \in [Bufs -> Bufs] /\ \A b \in Bufs : \E i \in Bufs : lru[i] = b
  <2>1. lru = [i \in Bufs |-> lru[i]]
    BY DEF Init
  <2>2. \A b \in Bufs : lru[lru[b]] = b
    BY <1>1
  <2> QED
    BY <1>1, <2>1, <2>2
<1>3. LruInv
  BY <1>1 DEF LruInv, Bufs
<1>4. refcnt \in [Bufs -> 0..Cardinality(Users)]
  <2>1. Cardinality(Users) \in Nat
    BY FS_CardinalityType, UsersFacts
  <2> QED
    BY <2>1 DEF Init
<1>5. TypeOK
  <2>0. idequeue \in Seq(Bufs) /\ irq \in BOOLEAN /\ panicked \in Panics \cup {"no"}
    <3>1. idequeue = <<>> /\ irq = FALSE /\ panicked = "no"
      BY DEF Init
    <3> QED
      BY <3>1, EmptySeq
  <2>1. cmd \in [blk : Blocks \cup {NoBlock}, write : BOOLEAN, data : Values \cup {NoData}]
    BY DEF Init, NoCmd
  <2>2. pc \in [Users -> PCs] /\ buf \in [Users -> Bufs \cup {NoBuf}]
    BY DEF Init, PCs
  <2>3. /\ blockno \in [Bufs -> Blocks \cup {NoBlock}]
        /\ valid \in [Bufs -> BOOLEAN] /\ dirty \in [Bufs -> BOOLEAN]
        /\ data \in [Bufs -> Values] /\ disk \in [Blocks -> Values]
        /\ owner \in [Bufs -> Users \cup {NoProc}]
    BY <1>0 DEF Init
  <2> QED
    BY <1>2, <1>4, <2>0, <2>1, <2>2, <2>3 DEF TypeOK
<1>6. OneBufferPerBlock
  <2>1. ASSUME NEW b \in Bufs PROVE refcnt[b] = Cardinality({q \in Users : buf[q] = b})
    <3>1. {q \in Users : buf[q] = b} = {}
      BY DEF Init, NoBuf, Bufs
    <3> QED
      BY <3>1, FS_EmptySet DEF Init
  <2> QED
    BY <2>1 DEF OneBufferPerBlock, Init
<1>7. HoldInv
  BY DEF HoldInv, HoldP, HoldB, InSync, Holding, Waiting, Init
<1>8. QueueInv
  <2>1. idequeue = <<>> /\ \A b : ~Queued(b)
    BY DEF Init, Queued, In
  <2> QED
    BY <2>1 DEF QueueInv, QueueB, QueueP, Distinct, Init
<1>9. PinInv
  <2>1. AtRest = {}
    BY DEF AtRest, Pinned, Init
  <2> QED
    BY <2>1, FS_EmptySet DEF PinInv
<1>10. CleanInv /\ NoPanic
  BY DEF CleanInv, CleanIsOnDisk, InSync, NoPanic, Init
<1> QED
  BY <1>3, <1>5, <1>6, <1>7, <1>8, <1>9, <1>10 DEF IInv

\* The invariant is inductive.
LEMMA Inductive == Spec => []IInv
<1>1. IInv /\ [Next]_vars => IInv'
  BY RefStep, TypeStep, LruStep, HoldStep, QueueStep, PinStep, CleanStep, PanicStep DEF IInv
<1> QED
  BY <1>1, InitInv, PTL DEF Spec

(***************************************************************************)
(* The fields of every buffer, the queue and the disk keep their types:    *)
(* the list holds every buffer and refcnt is between zero and twice the    *)
(* number of processes (bio.c:37-58, 71, 127).                             *)
(***************************************************************************)
THEOREM TypeCorrect == Spec => []TypeOK
<1>1. IInv => TypeOK
  BY DEF IInv
<1> QED
  BY <1>1, Inductive, PTL

(***************************************************************************)
(* For any processes, blocks and NBUF a block is in at most one buffer and *)
(* refcnt counts exactly the processes between bget and brelse             *)
(* (bio.c:69-90, 126-136).                                                 *)
(***************************************************************************)
THEOREM OneBufferPerBlockHolds == Spec => []OneBufferPerBlock
<1>1. IInv => OneBufferPerBlock
  BY DEF IInv
<1> QED
  BY <1>1, Inductive, PTL

(***************************************************************************)
(* No wakeup of releasesleep or ideintr is lost, kills included            *)
(* (sleeplock.c:26, 40; ide.c:124, 162).                                   *)
(***************************************************************************)
THEOREM SleeperHasWakerHolds == Spec => []SleeperHasWaker
<1>1. IInv => SleeperHasWaker
  <2> SUFFICES ASSUME IInv, NEW p \in Users
               PROVE  /\ pc[p] = "lock_asleep" => owner[buf[p]] \notin {NoProc, p}
                      /\ pc[p] = "ide_asleep" => \E i \in 1..Len(idequeue) : idequeue[i] = buf[p]
    BY DEF SleeperHasWaker
  <2>1. HoldP(p) /\ QueueP(p)
    BY DEF IInv, HoldInv, QueueInv
  <2>2. pc[p] = "lock_asleep" => owner[buf[p]] \notin {NoProc, p}
    BY <2>1 DEF HoldP, Holding, Waiting
  <2>3. pc[p] = "ide_asleep" => \E i \in 1..Len(idequeue) : idequeue[i] = buf[p]
    BY <2>1 DEF QueueP, Queued, In
  <2> QED
    BY <2>2, <2>3
<1> QED
  BY <1>1, Inductive, PTL

(***************************************************************************)
(* The checks of bwrite, brelse and iderw for a lock or for work to do     *)
(* never fail (bio.c:113, 124; ide.c:143-145).  Of the other panics, the   *)
(* one of bget needs fewer buffers than the pinned blocks and two for each *)
(* process (bio.c:92), and those of the driver need a missing disk 1 or a  *)
(* block past its end (ide.c:147, 79).  With the sizes of param.h the      *)
(* panic of bget is not excluded: NBUF is LOGSIZE, and pins may take all.  *)
(***************************************************************************)
THEOREM NoPanicHolds == Spec => []NoPanic
<1>1. IInv => NoPanic
  BY DEF IInv
<1> QED
  BY <1>1, Inductive, PTL

(***************************************************************************)
(* While the disk reports no error, a clean buffer that its user is not    *)
(* changing equals its block on the disk: recycling it loses nothing       *)
(* (bio.c:82, 114; ide.c:94-96, 118-123).                                  *)
(***************************************************************************)
THEOREM CleanIsOnDiskHolds == TRUE \notin DiskErrors => (Spec => []CleanIsOnDisk)
<1> SUFFICES ASSUME TRUE \notin DiskErrors PROVE Spec => []CleanIsOnDisk
  OBVIOUS
<1>1. IInv => CleanIsOnDisk
  BY DEF IInv, CleanInv
<1> QED
  BY <1>1, Inductive, PTL

-----------------------------------------------------------------------------
(***************************************************************************)
(* The block store.  A block's content is what its valid buffer holds, or  *)
(* what is on the disk; its user owns that buffer.                         *)
(***************************************************************************)
Contents == [k \in Blocks |-> ContentOf(k)]
UserMap  == [k \in Blocks |-> UserOf(k)]

ValidFor(b, k) == blockno[b] = k /\ valid[b]

StoreFacts ==
  \A k \in Blocks :
    /\ \A p \in Users : Uses(p, k) => UserOf(k) = p
    /\ (\A p \in Users : ~Uses(p, k)) => UserOf(k) = NoProc
    /\ \A b \in Bufs : ValidFor(b, k) => ContentOf(k) = data[b]
    /\ (\A b \in Bufs : ~ValidFor(b, k)) => ContentOf(k) = disk[k]

\* Who uses a block owns its buffer, which is valid.
LEMMA UserOwns ==
  ASSUME IInv, NEW p \in Users, NEW k \in Blocks, Uses(p, k)
  PROVE  buf[p] \in Bufs /\ owner[buf[p]] = p /\ ValidFor(buf[p], k) /\ pc[p] \in Holding
<1>1. HoldP(p) /\ pc[p] \in Holding /\ pc[p] # "idle"
  BY DEF IInv, HoldInv, Uses, Holding, Waiting
<1> QED
  BY <1>1, HasBuf DEF IInv, HoldP, Uses, ValidFor

\* What ContentOf and UserOf mean.
LEMMA StoreView == IInv => StoreFacts
<1> SUFFICES ASSUME IInv, NEW k \in Blocks
             PROVE  /\ \A p \in Users : Uses(p, k) => UserOf(k) = p
                    /\ (\A p \in Users : ~Uses(p, k)) => UserOf(k) = NoProc
                    /\ \A b \in Bufs : ValidFor(b, k) => ContentOf(k) = data[b]
                    /\ (\A b \in Bufs : ~ValidFor(b, k)) => ContentOf(k) = disk[k]
  BY DEF StoreFacts
<1>1. ASSUME NEW p \in Users, NEW q \in Users, Uses(p, k), Uses(q, k) PROVE p = q
  <2>1. /\ buf[p] \in Bufs /\ owner[buf[p]] = p /\ ValidFor(buf[p], k)
        /\ buf[q] \in Bufs /\ owner[buf[q]] = q /\ ValidFor(buf[q], k)
    BY <1>1, UserOwns
  <2>2. buf[p] = buf[q]
    BY <2>1, OneHolder DEF ValidFor
  <2> QED
    BY <2>1, <2>2
<1>2. ASSUME NEW p \in Users, Uses(p, k) PROVE UserOf(k) = p
  <2>1. UserOf(k) = CHOOSE q \in Users : Uses(q, k)
    BY <1>2 DEF UserOf
  <2>2. UserOf(k) \in Users /\ Uses(UserOf(k), k)
    BY <1>2, <2>1
  <2> QED
    BY <1>1, <1>2, <2>2
<1>3. (\A p \in Users : ~Uses(p, k)) => UserOf(k) = NoProc
  BY DEF UserOf
<1>4. ASSUME NEW p \in Users, Uses(p, k) PROVE ContentOf(k) = data[buf[p]] /\ ValidFor(buf[p], k) /\ buf[p] \in Bufs
  BY <1>2, <1>4, UserOwns, UsersFacts DEF ContentOf
<1>5. ASSUME NEW b \in Bufs, ValidFor(b, k) PROVE ContentOf(k) = data[b]
  <2>1. ASSUME NEW c \in Bufs, ValidFor(c, k) PROVE c = b
    BY <1>5, <2>1, OneHolder DEF ValidFor
  <2>2. CASE \E p \in Users : Uses(p, k)
    BY <1>4, <2>1, <2>2
  <2>3. CASE \A p \in Users : ~Uses(p, k)
    <3>1. ContentOf(k) = data[CHOOSE c \in Bufs : blockno[c] = k /\ valid[c]]
      BY <1>3, <1>5, <2>3 DEF ContentOf, ValidFor
    <3>2. (CHOOSE c \in Bufs : blockno[c] = k /\ valid[c]) = b
      BY <1>5, <2>1 DEF ValidFor
    <3> QED
      BY <3>1, <3>2
  <2> QED
    BY <2>2, <2>3
<1>6. ASSUME \A b \in Bufs : ~ValidFor(b, k) PROVE ContentOf(k) = disk[k]
  <2>1. \A p \in Users : ~Uses(p, k)
    BY <1>4, <1>6
  <2>2. UserOf(k) = NoProc /\ ~\E b \in Bufs : blockno[b] = k /\ valid[b]
    BY <1>3, <1>6, <2>1 DEF ValidFor
  <2> QED
    BY <2>2 DEF ContentOf
<1> QED
  BY <1>2, <1>3, <1>5, <1>6

\* The users of the blocks depend on who uses what.
LEMMA SameUser ==
  ASSUME StoreFacts, StoreFacts', NEW k \in Blocks, \A q \in Users : Uses(q, k)' <=> Uses(q, k)
  PROVE  UserOf(k)' = UserOf(k)
<1>1. CASE \E q \in Users : Uses(q, k)
  <2>1. PICK q \in Users : Uses(q, k)
    BY <1>1
  <2> QED
    BY <2>1 DEF StoreFacts
<1>2. CASE \A q \in Users : ~Uses(q, k)
  BY <1>2 DEF StoreFacts
<1> QED
  BY <1>1, <1>2

\* The content of a block depends on its valid buffer.
LEMMA SameContent ==
  ASSUME StoreFacts, StoreFacts', NEW k \in Blocks, disk'[k] = disk[k],
         \A b \in Bufs : ValidFor(b, k)' <=> ValidFor(b, k),
         \A b \in Bufs : ValidFor(b, k) => data'[b] = data[b]
  PROVE  ContentOf(k)' = ContentOf(k)
<1>1. CASE \E b \in Bufs : ValidFor(b, k)
  <2>1. PICK b \in Bufs : ValidFor(b, k)
    BY <1>1
  <2> QED
    BY <2>1 DEF StoreFacts
<1>2. CASE \A b \in Bufs : ~ValidFor(b, k)
  BY <1>2 DEF StoreFacts
<1> QED
  BY <1>1, <1>2

\* A step that changes neither the contents nor the users.
LEMMA StoreSame ==
  ASSUME \A k \in Blocks : UserOf(k)' = UserOf(k) /\ ContentOf(k)' = ContentOf(k)
  PROVE  UNCHANGED <<Contents, UserMap>>
BY DEF Contents, UserMap

\* A step that leaves the valid buffers, the disk and the users alone.
LEMMA StoreKept ==
  ASSUME StoreFacts, StoreFacts', UNCHANGED <<blockno, valid, data, disk>>,
         \A q \in Users, k \in Blocks : Uses(q, k)' <=> Uses(q, k)
  PROVE  UNCHANGED <<Contents, UserMap>>
<1>1. ASSUME NEW k \in Blocks PROVE UserOf(k)' = UserOf(k)
  BY SameUser
<1>2. ASSUME NEW k \in Blocks PROVE ContentOf(k)' = ContentOf(k)
  <2>1. \A b \in Bufs : ValidFor(b, k)' <=> ValidFor(b, k)
    BY DEF ValidFor
  <2> QED
    BY <2>1, SameContent
<1> QED
  BY <1>1, <1>2, StoreSame

\* A step after which p uses block k, that nobody used, and no content has changed.
LEMMA StoreGet ==
  ASSUME StoreFacts, StoreFacts', NEW p \in Users, NEW k \in Blocks, Uses(p, k)',
         \A q \in Users : ~Uses(q, k),
         \A q \in Users, j \in Blocks : j # k => (Uses(q, j)' <=> Uses(q, j)),
         \A j \in Blocks : ContentOf(j)' = ContentOf(j)
  PROVE  Bst!Get(p, k)
<1>1. UserOf(k) = NoProc /\ UserOf(k)' = p
  BY DEF StoreFacts
<1>2. ASSUME NEW j \in Blocks, j # k PROVE UserOf(j)' = UserOf(j)
  BY <1>2, SameUser
<1>3. UserMap' = [UserMap EXCEPT ![k] = p] /\ UserMap[k] = NoProc
  BY <1>1, <1>2 DEF UserMap
<1>4. Contents' = Contents
  BY DEF Contents
<1> QED
  BY <1>3, <1>4 DEF Bst!Get, UserMap, Contents

\* A step after which p no longer uses block k, and nobody does.
LEMMA StorePut ==
  ASSUME StoreFacts, StoreFacts', NEW p \in Users, NEW k \in Blocks, Uses(p, k),
         \A q \in Users : ~Uses(q, k)',
         \A q \in Users, j \in Blocks : j # k => (Uses(q, j)' <=> Uses(q, j)),
         \A j \in Blocks : ContentOf(j)' = ContentOf(j)
  PROVE  Bst!Put(p, k)
<1>1. UserOf(k) = p /\ UserOf(k)' = NoProc
  BY DEF StoreFacts
<1>2. ASSUME NEW j \in Blocks, j # k PROVE UserOf(j)' = UserOf(j)
  BY <1>2, SameUser
<1>3. UserMap' = [UserMap EXCEPT ![k] = NoProc] /\ UserMap[k] = p
  BY <1>1, <1>2 DEF UserMap
<1>4. Contents' = Contents
  BY DEF Contents
<1> QED
  BY <1>3, <1>4 DEF Bst!Put, UserMap, Contents

\* Every step of the cache is one of the block store, or none.
LEMMA StoreStep == IInv /\ IInv' /\ [Next]_vars /\ TRUE \notin DiskErrors => (Bst!Next \/ UNCHANGED <<Contents, UserMap>>)
<1> SUFFICES ASSUME IInv, IInv', [Next]_vars, TRUE \notin DiskErrors PROVE (Bst!Next \/ UNCHANGED <<Contents, UserMap>>)
  OBVIOUS
<1> USE BufferCacheAssumption DEF IInv
<1>0. StoreFacts /\ StoreFacts'
  BY StoreView, PTL
<1>1. ASSUME NEW p \in Users, NEW k \in Blocks, bget_hit(p, k) PROVE (Bst!Next \/ UNCHANGED <<Contents, UserMap>>)
  <2>0. PICK b \in Bufs : Hits(p, k, b)
    BY <1>1, HitStep
  <2>1. UNCHANGED <<blockno, valid, data, disk>>
    BY <2>0 DEF Hits, Takes
  <2>2. ASSUME NEW q \in Users, NEW j \in Blocks PROVE Uses(q, j)' <=> Uses(q, j)
    BY SMTT(60), <2>0 DEF Hits, Takes, Uses, InSync, TypeOK
  <2> QED
    BY <1>0, <2>1, <2>2, StoreKept
<1>2. ASSUME NEW p \in Users, NEW k \in Blocks, bget_recycle(p, k) PROVE (Bst!Next \/ UNCHANGED <<Contents, UserMap>>)
  <2>1. CASE NoBuffers(p)
    <3>1. UNCHANGED <<blockno, valid, data, disk, pc, buf>>
      BY <2>1 DEF NoBuffers
    <3>2. \A q \in Users, j \in Blocks : Uses(q, j)' <=> Uses(q, j)
      BY <3>1 DEF Uses
    <3> QED
      BY <1>0, <3>1, <3>2, StoreKept
  <2>2. ASSUME NEW b \in Bufs, Recycles(p, k, b) PROVE UNCHANGED <<Contents, UserMap>>
    <3>1. \A q \in Users : buf[q] # b
      BY <2>2, Unused DEF Recycles
    <3>2. /\ pc[p] = "idle" /\ buf' = [buf EXCEPT ![p] = b] /\ pc' = [pc EXCEPT ![p] = "lock"]
          /\ blockno' = [blockno EXCEPT ![b] = k] /\ valid' = [valid EXCEPT ![b] = FALSE]
          /\ ~dirty[b] /\ UNCHANGED <<data, disk>> /\ \A c \in Bufs : blockno[c] # k
      BY <2>2 DEF Recycles, Takes
    <3>3. ASSUME NEW q \in Users, NEW j \in Blocks PROVE Uses(q, j)' <=> Uses(q, j)
      <4>1. CASE q = p
        BY <3>2, <4>1 DEF Uses, TypeOK
      <4>2. CASE q # p
        <5>1. buf'[q] = buf[q] /\ pc'[q] = pc[q] /\ buf[q] # b
          BY <3>1, <3>2, <4>2 DEF TypeOK
        <5>2. buf[q] # NoBuf => blockno'[buf[q]] = blockno[buf[q]] /\ valid'[buf[q]] = valid[buf[q]]
          BY <3>2, <5>1 DEF TypeOK
        <5> QED
          BY <5>1, <5>2 DEF Uses
      <4> QED
        BY <4>1, <4>2
    <3>4. ASSUME NEW c \in Bufs, NEW j \in Blocks PROVE ValidFor(c, j)' <=> c # b /\ ValidFor(c, j)
      BY <3>2 DEF ValidFor, TypeOK
    <3>5. ASSUME NEW j \in Blocks PROVE ContentOf(j)' = ContentOf(j)
      <4>1. CASE ~ValidFor(b, j)
        BY <1>0, <3>2, <3>4, <4>1, SameContent
      <4>2. CASE ValidFor(b, j)
        <5>1. data[b] = disk[j]
          BY <3>1, <3>2, <4>2 DEF CleanInv, CleanIsOnDisk, InSync, ValidFor
        <5>2. ASSUME NEW c \in Bufs PROVE ~ValidFor(c, j)'
          BY <3>4, <4>2, OneHolder DEF ValidFor
        <5>3. ContentOf(j)' = disk'[j] /\ ContentOf(j) = data[b]
          BY <1>0, <4>2, <5>2 DEF StoreFacts
        <5> QED
          BY <3>2, <5>1, <5>3
      <4> QED
        BY <4>1, <4>2
    <3> QED
      BY <1>0, <3>3, <3>5, SameUser, StoreSame
  <2> QED
    BY <1>2, <2>1, <2>2, RecycleStep
<1>3. ASSUME NEW p \in Users, NEW v \in Values, Modify(p, v) PROVE (Bst!Next \/ UNCHANGED <<Contents, UserMap>>)
  <2>1. /\ pc[p] = "have" /\ pc' = [pc EXCEPT ![p] = "changed"] /\ data' = [data EXCEPT ![buf[p]] = v]
        /\ UNCHANGED <<blockno, valid, disk, buf>>
    BY <1>3 DEF Modify, Goto, bcache, flags
  <2>2. PICK k \in Blocks : k = blockno[buf[p]]
    BY <2>1, HasBuf
  <2>3. buf[p] \in Bufs /\ ValidFor(buf[p], k)
    BY <2>1, <2>2, HasBuf DEF HoldInv, HoldP, ValidFor
  <2>4. Uses(p, k)
    BY <2>1, <2>2, <2>3 DEF Uses, NoBuf, Bufs
  <2>5. ASSUME NEW q \in Users, NEW j \in Blocks PROVE Uses(q, j)' <=> Uses(q, j)
    BY ZenonT(60), <2>1 DEF Uses, TypeOK
  <2>6. ASSUME NEW j \in Blocks PROVE UserOf(j)' = UserOf(j)
    BY <1>0, <2>5, SameUser
  <2>7. ASSUME NEW c \in Bufs, NEW j \in Blocks PROVE ValidFor(c, j)' <=> ValidFor(c, j)
    BY <2>1 DEF ValidFor
  <2>8. ContentOf(k)' = v /\ UserOf(k) = p
    <3>1. ContentOf(k)' = data'[buf[p]] /\ UserOf(k) = p
      BY <1>0, <2>3, <2>4, <2>7 DEF StoreFacts
    <3> QED
      BY <2>1, <2>3, <3>1 DEF TypeOK
  <2>9. ASSUME NEW j \in Blocks, j # k PROVE ContentOf(j)' = ContentOf(j)
    <3>1. \A b \in Bufs : ValidFor(b, j) => data'[b] = data[b]
      BY <2>1, <2>2, <2>9 DEF ValidFor, TypeOK
    <3> QED
      BY <1>0, <2>1, <2>7, <3>1, SameContent
  <2>10. UserMap' = UserMap /\ UserMap[k] = p
    BY <2>6, <2>8 DEF UserMap
  <2>11. Contents' = [Contents EXCEPT ![k] = v]
    BY <2>8, <2>9 DEF Contents
  <2>12. Bst!Change(p, k, v)
    BY <2>10, <2>11 DEF Bst!Change, UserMap, Contents
  <2> QED
    BY <2>12 DEF Bst!Next
<1>4. ASSUME NEW p \in Users, acquiresleep(p) PROVE (Bst!Next \/ UNCHANGED <<Contents, UserMap>>)
  <2>1. UNCHANGED <<blockno, valid, data, disk>>
    BY <1>4 DEF acquiresleep, Goto, bcache, flags
  <2>2. ASSUME NEW q \in Users, NEW j \in Blocks PROVE Uses(q, j)' <=> Uses(q, j)
    BY SMTT(60), <1>4 DEF acquiresleep, Goto, bcache, flags, Uses, InSync, TypeOK
  <2> QED
    BY <1>0, <2>1, <2>2, StoreKept
<1>5. ASSUME NEW p \in Users, bread(p) PROVE (Bst!Next \/ UNCHANGED <<Contents, UserMap>>)
  <2>1. /\ pc[p] = "bread" /\ pc' = [pc EXCEPT ![p] = IF valid[buf[p]] THEN "have" ELSE "iderw"]
        /\ UNCHANGED <<blockno, valid, data, disk, buf>>
    BY <1>5 DEF bread, Goto, bcache, flags
  <2>2. CASE ~valid[buf[p]]
    <3>1. ASSUME NEW q \in Users, NEW j \in Blocks PROVE Uses(q, j)' <=> Uses(q, j)
      BY ZenonT(60), <2>1, <2>2 DEF Uses, TypeOK
    <3> QED
      BY <1>0, <2>1, <3>1, StoreKept
  <2>3. CASE valid[buf[p]]
    <3>1. PICK k \in Blocks : k = blockno[buf[p]]
      BY <2>1, HasBuf
    <3>2. buf[p] \in Bufs /\ owner[buf[p]] = p
      BY <2>1, HasBuf DEF HoldInv, HoldP, Holding
    <3>3. ASSUME NEW q \in Users, Uses(q, k) PROVE FALSE
      <4>1. buf[q] \in Bufs /\ owner[buf[q]] = q /\ blockno[buf[q]] = k
        BY <3>3, UserOwns DEF ValidFor
      <4>2. buf[q] = buf[p]
        BY <3>1, <3>2, <4>1, OneHolder
      <4> QED
        BY <2>1, <3>2, <3>3, <4>1, <4>2 DEF Uses
    <3>4. Uses(p, k)'
      BY <2>1, <2>3, <3>1, <3>2 DEF Uses, TypeOK, NoBuf, Bufs
    <3>5. ASSUME NEW q \in Users, NEW j \in Blocks, j # k PROVE Uses(q, j)' <=> Uses(q, j)
      BY ZenonT(60), <2>1, <3>1, <3>5 DEF Uses, TypeOK
    <3>6. ASSUME NEW j \in Blocks PROVE ContentOf(j)' = ContentOf(j)
      <4>1. \A b \in Bufs : ValidFor(b, j)' <=> ValidFor(b, j)
        BY <2>1 DEF ValidFor
      <4> QED
        BY <1>0, <2>1, <4>1, SameContent
    <3>7. Bst!Get(p, k)
      BY <1>0, <3>3, <3>4, <3>5, <3>6, StoreGet
    <3> QED
      BY <3>7 DEF Bst!Next
  <2> QED
    BY <2>2, <2>3
<1>6. ASSUME NEW p \in Users, log_write(p) PROVE (Bst!Next \/ UNCHANGED <<Contents, UserMap>>)
  <2>1. UNCHANGED <<blockno, valid, data, disk>>
    BY <1>6 DEF log_write, Goto, bcache, flags
  <2>2. ASSUME NEW q \in Users, NEW j \in Blocks PROVE Uses(q, j)' <=> Uses(q, j)
    BY <1>6 DEF log_write, Goto, bcache, flags, Uses, InSync, TypeOK
  <2> QED
    BY <1>0, <2>1, <2>2, StoreKept
<1>7. ASSUME NEW p \in Users, bwrite(p) PROVE (Bst!Next \/ UNCHANGED <<Contents, UserMap>>)
  <2>0. /\ pc[p] \in {"have", "changed"} /\ pc' = [pc EXCEPT ![p] = "iderw"] /\ valid[buf[p]]
        /\ UNCHANGED <<blockno, buf, valid, data, disk>>
    BY <1>7, HoldsLock DEF bwrite, Goto, bcache, HoldInv, HoldP
  <2>1. UNCHANGED <<blockno, valid, data, disk>>
    BY <2>0
  <2>2. ASSUME NEW q \in Users, NEW j \in Blocks PROVE Uses(q, j)' <=> Uses(q, j)
    BY ZenonT(60), <2>0 DEF Uses, InSync, TypeOK
  <2> QED
    BY <1>0, <2>1, <2>2, StoreKept
<1>8. ASSUME NEW p \in Users, brelse_unlock(p) PROVE (Bst!Next \/ UNCHANGED <<Contents, UserMap>>)
  <2>0. /\ pc[p] = "have" /\ owner[buf[p]] = p /\ owner' = [owner EXCEPT ![buf[p]] = NoProc]
        /\ \A q \in Users : pc'[q] = IF q = p THEN "brelse"
                                     ELSE IF pc[q] = "lock_asleep" /\ buf[q] = buf[p] THEN "lock"
                                     ELSE pc[q]
        /\ UNCHANGED <<blockno, buf, valid, dirty, data, disk>>
    BY <1>8, HoldsLock DEF brelse_unlock, wakeup_lock, bcache, flags
  <2>1. PICK k \in Blocks : k = blockno[buf[p]]
    BY <2>0, HasBuf
  <2>2. buf[p] \in Bufs /\ Uses(p, k)
    BY <2>0, <2>1, HasBuf DEF Uses, NoBuf, Bufs
  <2>3. ASSUME NEW q \in Users, Uses(q, k)' PROVE FALSE
    <3>1. q # p /\ Uses(q, k)
      BY <2>0, <2>3 DEF Uses
    <3>2. UserOf(k) = p /\ UserOf(k) = q
      BY <1>0, <2>2, <3>1 DEF StoreFacts
    <3> QED
      BY <3>1, <3>2
  <2>4. ASSUME NEW q \in Users, NEW j \in Blocks, j # k PROVE Uses(q, j)' <=> Uses(q, j)
    BY <2>0, <2>1, <2>4 DEF Uses
  <2>5. ASSUME NEW j \in Blocks PROVE ContentOf(j)' = ContentOf(j)
    <3>1. \A b \in Bufs : ValidFor(b, j)' <=> ValidFor(b, j)
      BY <2>0 DEF ValidFor
    <3> QED
      BY <1>0, <2>0, <3>1, SameContent
  <2>6. Bst!Put(p, k)
    BY <1>0, <2>2, <2>3, <2>4, <2>5, StorePut
  <2> QED
    BY <2>6 DEF Bst!Next
<1>9. ASSUME NEW p \in Users, brelse_put(p) PROVE (Bst!Next \/ UNCHANGED <<Contents, UserMap>>)
  <2>1. UNCHANGED <<blockno, valid, data, disk>>
    BY <1>9 DEF brelse_put, Goto, flags
  <2>2. ASSUME NEW q \in Users, NEW j \in Blocks PROVE Uses(q, j)' <=> Uses(q, j)
    <3>1. /\ pc[p] = "brelse" /\ pc' = [pc EXCEPT ![p] = "idle"] /\ buf' = [buf EXCEPT ![p] = NoBuf]
          /\ UNCHANGED <<blockno, valid>>
      BY <1>9 DEF brelse_put, Goto, flags
    <3>2. CASE q = p
      BY <3>1, <3>2 DEF Uses, TypeOK
    <3>3. CASE q # p
      <4>1. pc'[q] = pc[q] /\ buf'[q] = buf[q]
        BY <3>1, <3>3 DEF TypeOK
      <4> QED
        BY <3>1, <4>1 DEF Uses
    <3> QED
      BY <3>2, <3>3
  <2> QED
    BY <1>0, <2>1, <2>2, StoreKept
<1>10. ASSUME NEW p \in Users, iderw(p) PROVE (Bst!Next \/ UNCHANGED <<Contents, UserMap>>)
  <2>0. /\ pc[p] = "iderw" /\ (pc' = pc \/ pc' = [pc EXCEPT ![p] = "ide_asleep"])
        /\ UNCHANGED <<blockno, owner, buf, valid, dirty, data, disk>>
    BY <1>10 DEF iderw, Goto, bcache, flags
  <2>1. UNCHANGED <<blockno, valid, data, disk>>
    BY <2>0
  <2>2. ASSUME NEW q \in Users, NEW j \in Blocks PROVE Uses(q, j)' <=> Uses(q, j)
    BY ZenonT(60), <2>0 DEF Uses, InSync, TypeOK
  <2> QED
    BY <1>0, <2>1, <2>2, StoreKept
<1>11. ASSUME NEW p \in Users, iderw_woken(p) PROVE (Bst!Next \/ UNCHANGED <<Contents, UserMap>>)
  <2>1. UNCHANGED <<blockno, valid, data, disk>>
    BY <1>11 DEF iderw_woken, Goto, bcache, flags
  <2>2. ASSUME NEW q \in Users, NEW j \in Blocks PROVE Uses(q, j)' <=> Uses(q, j)
    BY <1>11 DEF iderw_woken, Goto, bcache, flags, Uses, InSync, TypeOK
  <2> QED
    BY <1>0, <2>1, <2>2, StoreKept
<1>12. ASSUME NEW p \in Users, Kill(p) PROVE (Bst!Next \/ UNCHANGED <<Contents, UserMap>>)
  <2>1. UNCHANGED <<blockno, valid, data, disk>>
    BY <1>12 DEF Kill, Goto, bcache, flags
  <2>2. ASSUME NEW q \in Users, NEW j \in Blocks PROVE Uses(q, j)' <=> Uses(q, j)
    BY <1>12 DEF Kill, Goto, bcache, flags, Uses, InSync, TypeOK
  <2> QED
    BY <1>0, <2>1, <2>2, StoreKept
<1>13. CASE DiskDone
  <2>1. /\ idequeue # <<>> /\ disk' = IF cmd.write THEN [disk EXCEPT ![cmd.blk] = cmd.data] ELSE disk
        /\ UNCHANGED <<blockno, valid, data, buf, pc>>
    BY <1>13 DEF DiskDone, QueueInv, bcache, flags
  <2>2. PICK h \in Bufs : cmd = idestart(h)
    BY <2>1, HeadOwner
  <2>3. ASSUME NEW j \in Blocks PROVE ContentOf(j)' = ContentOf(j)
    <3>1. \A c \in Bufs : ValidFor(c, j)' <=> ValidFor(c, j)
      BY <2>1 DEF ValidFor
    <3>2. CASE ~cmd.write \/ cmd.blk # j
      <4>1. disk'[j] = disk[j]
        BY <2>1, <3>2 DEF TypeOK
      <4> QED
        BY <1>0, <2>1, <3>1, <4>1, SameContent
    <3>3. CASE cmd.write /\ cmd.blk = j
      <4>1. ValidFor(h, j)
        BY <2>2, <3>3 DEF idestart, ValidFor, HoldInv, HoldB
      <4> QED
        BY <1>0, <2>1, <3>1, <4>1 DEF StoreFacts
    <3> QED
      BY <3>2, <3>3
  <2>4. ASSUME NEW q \in Users, NEW j \in Blocks PROVE Uses(q, j)' <=> Uses(q, j)
    BY <2>1 DEF Uses
  <2> QED
    BY <1>0, <2>3, <2>4, SameUser, StoreSame
<1>14. ASSUME NEW err \in DiskErrors, ideintr(err) PROVE (Bst!Next \/ UNCHANGED <<Contents, UserMap>>)
  <2>0. err = FALSE
    OBVIOUS
  <2>1. PICK b \in Bufs : Serves(b, err)
    BY <1>14, IntrStep
  <2>2. /\ Queued(b) /\ owner[b] \in Users /\ buf[owner[b]] = b /\ pc[owner[b]] \in Waiting
        /\ blockno[b] \in Blocks
    BY <2>1, HeadOwner DEF Serves
  <2>3. /\ valid' = [valid EXCEPT ![b] = TRUE] /\ UNCHANGED <<blockno, disk, buf>>
        /\ data' = IF dirty[b] THEN data ELSE [data EXCEPT ![b] = disk[blockno[b]]]
        /\ \A q \in Users : pc'[q] = IF pc[q] = "ide_asleep" /\ buf[q] = b THEN "ide_test" ELSE pc[q]
    BY <2>0, <2>1 DEF Serves, wakeup_buf
  <2>4. CASE dirty[b]
    <3>1. UNCHANGED <<blockno, valid, data, disk>>
      BY <2>3, <2>4 DEF HoldInv, HoldB, TypeOK
    <3>2. ASSUME NEW q \in Users, NEW j \in Blocks PROVE Uses(q, j)' <=> Uses(q, j)
      BY <2>3, <3>1 DEF Uses
    <3> QED
      BY <1>0, <3>1, <3>2, StoreKept
  <2>5. CASE ~dirty[b]
    <3>1. ~valid[b]
      BY <2>2, <2>5 DEF QueueInv, QueueB, InSync
    <3>2. PICK p \in Users : p = owner[b]
      BY <2>2
    <3>3. PICK k \in Blocks : k = blockno[b]
      BY <2>2
    <3>4. ASSUME NEW c \in Bufs, ValidFor(c, k) PROVE FALSE
      BY <3>1, <3>3, <3>4, OneHolder DEF ValidFor
    <3>5. ASSUME NEW q \in Users, Uses(q, k) PROVE FALSE
      BY <3>4, <3>5, UserOwns
    <3>6. Uses(p, k)'
      <4>1. /\ buf'[p] = b /\ b # NoBuf /\ valid'[b] = TRUE /\ blockno'[b] = k
            /\ pc'[p] \in {"ide_asleep", "ide_test"}
        <5>1. b # NoBuf
          BY DEF NoBuf, Bufs
        <5> QED
          BY <2>2, <2>3, <3>2, <3>3, <5>1 DEF TypeOK, Waiting
      <4> QED
        BY <4>1 DEF Uses
    <3>7. ASSUME NEW q \in Users, NEW j \in Blocks, j # k PROVE Uses(q, j)' <=> Uses(q, j)
      <4>1. CASE buf[q] = b \/ buf[q] = NoBuf
        BY <2>3, <3>3, <3>7, <4>1 DEF Uses
      <4>2. CASE buf[q] # b /\ buf[q] # NoBuf
        <5>1. valid'[buf[q]] = valid[buf[q]] /\ pc'[q] = pc[q] /\ buf'[q] = buf[q]
          BY <2>3, <4>2 DEF TypeOK
        <5> QED
          BY <2>3, <5>1 DEF Uses
      <4> QED
        BY <4>1, <4>2
    <3>8. ASSUME NEW j \in Blocks PROVE ContentOf(j)' = ContentOf(j)
      <4>1. CASE j = k
        <5>1. ContentOf(k) = disk[k]
          BY <1>0, <3>4 DEF StoreFacts
        <5>2. ValidFor(b, k)' /\ data'[b] = disk[k]
          BY <2>3, <2>5, <3>3 DEF ValidFor, TypeOK
        <5> QED
          BY <1>0, <4>1, <5>1, <5>2 DEF StoreFacts
      <4>2. CASE j # k
        <5>1. \A c \in Bufs : ValidFor(c, j)' <=> ValidFor(c, j)
          BY ZenonT(60), <2>3, <3>3, <4>2 DEF ValidFor, TypeOK
        <5>2. \A c \in Bufs : ValidFor(c, j) => data'[c] = data[c]
          BY <2>3, <3>3, <4>2 DEF ValidFor, TypeOK
        <5> QED
          BY <1>0, <2>3, <5>1, <5>2, SameContent
      <4> QED
        BY <4>1, <4>2
    <3>9. Bst!Get(p, k)
      BY <1>0, <3>5, <3>6, <3>7, <3>8, StoreGet
    <3> QED
      BY <3>9 DEF Bst!Next
  <2> QED
    BY <2>4, <2>5
<1>15. CASE UNCHANGED vars
  <2>1. UNCHANGED <<blockno, valid, data, disk>>
    BY <1>15 DEF vars, bcache, flags
  <2>2. ASSUME NEW q \in Users, NEW j \in Blocks PROVE Uses(q, j)' <=> Uses(q, j)
    BY <1>15 DEF vars, bcache, flags, Uses, InSync, TypeOK
  <2> QED
    BY <1>0, <2>1, <2>2, StoreKept
<1> QED
  BY <1>1, <1>2, <1>3, <1>4, <1>5, <1>6, <1>7, <1>8, <1>9, <1>10, <1>11, <1>12, <1>13, <1>14, <1>15 DEF Next

\* What mkfs wrote is the first content, and nobody uses a block.
LEMMA StoreStart == Init => Bst!Init
<1> SUFFICES ASSUME Init PROVE Bst!Init
  OBVIOUS
<1>1. StoreFacts
  BY InitInv, StoreView
<1>2. ASSUME NEW k \in Blocks PROVE ContentOf(k) = disk[k] /\ UserOf(k) = NoProc
  <2>1. \A p \in Users : ~Uses(p, k)
    BY DEF Init, Uses
  <2>2. \A b \in Bufs : ~ValidFor(b, k)
    BY DEF Init, ValidFor
  <2> QED
    BY <1>1, <2>1, <2>2 DEF StoreFacts
<1>3. Contents \in [Blocks -> Values]
  BY <1>2 DEF Contents, Init
<1>4. UserMap = [k \in Blocks |-> NoProc]
  BY <1>2 DEF UserMap
<1> QED
  BY <1>3, <1>4 DEF Bst!Init, Contents, UserMap

(***************************************************************************)
(* The cache with the disk below it is a block store while the disk        *)
(* reports no error, for any processes, blocks and NBUF: a block has one   *)
(* user at a time, who sees what the last one left, through recycling,     *)
(* interrupts, kills and writes in flight (bio.c:12, 95; ide.c:105-170).   *)
(***************************************************************************)
THEOREM CacheIsBlockStore == TRUE \notin DiskErrors => (Spec => IsBlockStore)
<1> SUFFICES ASSUME TRUE \notin DiskErrors PROVE Spec => IsBlockStore
  OBVIOUS
<1>1. IInv /\ IInv' /\ [Next]_vars
        => [Bst!Next]_<<[k \in Blocks |-> ContentOf(k)], [k \in Blocks |-> UserOf(k)]>>
  BY StoreStep DEF Contents, UserMap
<1> QED
  BY <1>1, Inductive, StoreStart, PTL DEF Spec, IsBlockStore, Bst!Store

=============================================================================
