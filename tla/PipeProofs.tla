----------------------------- MODULE PipeProofs -----------------------------
(* Proofs about Pipe for any processes, bytes and sizes of pipe and counter. *)
EXTENDS Pipe, TLAPS, SequenceTheorems

(***************************************************************************)
(* The inductive invariant.  LockInv: the lock's holder is the one process *)
(* in a critical section.  EndInv: who is in a call has a descriptor, and  *)
(* an end is closed by one process after the last descriptor has gone.     *)
(* SleepInv: what a sleeper waits for, with the holder of the lock who may *)
(* just have changed it and has not sent the wakeup yet.  RingInv: no byte *)
(* in flight is overwritten.                                               *)
(***************************************************************************)
Critical == {"w_loop", "w_sleep", "r_loop", "r_sleep", "r_copy"}
Writing  == {"w_lock", "w_loop", "w_sleep", "w_asleep"}
Reading  == {"r_lock", "r_loop", "r_sleep", "r_asleep", "r_copy"}

LockInv == \A u \in Procs : pc[u] \in Critical <=> lock = u

EndInv ==
  /\ \A u \in Procs : /\ pc[u] \in Writing => u \in wfd
                      /\ pc[u] \in Reading => u \in rfd
                      /\ pc[u] = "cw_lock" => wfd = {} /\ writeopen
                      /\ pc[u] = "cr_lock" => rfd = {} /\ readopen
  /\ \A u, v \in Procs : pc[u] = pc[v] /\ pc[u] \in {"cw_lock", "cr_lock"} => u = v
  /\ ~writeopen => wfd = {}
  /\ ~readopen => rfd = {}
  /\ freed <=> ~readopen /\ ~writeopen

HolderAt(l) == \E v \in Procs : lock = v /\ pc[v] = l

SleepInv ==
  /\ \A u \in Procs : /\ pc[u] = "r_sleep" => Empty /\ writeopen
                      /\ pc[u] = "w_sleep" => Full /\ readopen
  /\ (\A u \in Procs : ~killed[u]) =>
       \A u \in Procs :
         /\ pc[u] = "r_asleep" => writeopen /\ (Empty \/ HolderAt("w_loop"))
         /\ pc[u] = "w_asleep" => readopen /\ (Full \/ HolderAt("r_copy"))

\* The count of bytes done is 0 before the first; a reader that has begun to
\* copy found a byte or the end of the stream.
LocalInv ==
  \A u \in Procs : /\ pc[u] \notin Writing \cup {"r_copy"} => i[u] = 0
                   /\ pc[u] = "r_copy" /\ i[u] = 0 => ~(Empty /\ writeopen)

RingInv == InFlight <= PIPESIZE

IInv == TypeOK /\ LockInv /\ EndInv /\ SleepInv /\ LocalInv /\ RingInv

-----------------------------------------------------------------------------
\* The remainder is the one r in 0..(m - 1) that x exceeds a multiple of m by.
LEMMA ModUnique ==
  ASSUME NEW m \in Nat \ {0}, NEW x \in Int, NEW q \in Int, NEW r \in 0..(m - 1), x = m * q + r
  PROVE  x % m = r
<1>1. x % m \in 0..(m - 1) /\ x \div m \in Int
  OBVIOUS
<1>2. x = m * (x \div m) + (x % m)
  OBVIOUS
<1>3. ASSUME NEW q2 \in Int, NEW r2 \in 0..(m - 1), m * q + r = m * q2 + r2 PROVE r = r2
  BY <1>3
<1> QED
  BY <1>1, <1>2, <1>3

\* Adding a multiple of m does not change the remainder.
LEMMA ModShift ==
  ASSUME NEW m \in Nat \ {0}, NEW x \in Int, NEW k \in Int
  PROVE  (x + m * k) % m = x % m
<1>1. x % m \in 0..(m - 1) /\ x \div m \in Int
  OBVIOUS
<1>2. x = m * (x \div m) + (x % m)
  OBVIOUS
<1>3. ASSUME NEW q \in Int, NEW r \in Int, x = m * q + r PROVE x + m * k = m * (q + k) + r
  BY <1>3
<1>4. x + m * k = m * ((x \div m) + k) + (x % m)
  BY <1>1, <1>2, <1>3
<1>5. x + m * k \in Int /\ (x \div m) + k \in Int
  BY <1>1
<1> QED
  BY <1>1, <1>4, <1>5, ModUnique

\* Numbers less than m apart have different remainders.
LEMMA ModDistinct ==
  ASSUME NEW m \in Nat \ {0}, NEW x \in Int, NEW d \in 1..(m - 1)
  PROVE  (x + d) % m # x % m
<1> SUFFICES ASSUME (x + d) % m = x % m PROVE FALSE
  OBVIOUS
<1>1. x = m * (x \div m) + (x % m) /\ x \div m \in Int /\ x % m \in Int
  OBVIOUS
<1>2. x + d = m * ((x + d) \div m) + ((x + d) % m) /\ (x + d) \div m \in Int
  OBVIOUS
<1>3. PICK q \in Int : q = x \div m
  BY <1>1
<1>4. PICK p \in Int : p = (x + d) \div m
  BY <1>2
<1>5. x = m * q + (x % m) /\ x + d = m * p + (x % m)
  BY <1>1, <1>2, <1>3, <1>4
<1>6. d = m * (p - q) + 0
  BY <1>1, <1>5
<1>7. d % m = 0
  BY <1>6, ModUnique
<1> QED
  BY <1>7

\* The difference of two unsigned counters that wrap at m.
LEMMA WrapDiff ==
  ASSUME NEW m \in Nat \ {0}, NEW a \in 0..(m - 1), NEW b \in 0..(m - 1)
  PROVE  (a - b) % m = IF b <= a THEN a - b ELSE a - b + m
<1>1. CASE b <= a
  BY <1>1
<1>2. CASE ~(b <= a)
  <2>1. a - b = m * (-1) + (a - b + m) /\ a - b + m \in 0..(m - 1)
    BY <1>2
  <2> QED
    BY <1>2, <2>1, ModUnique
<1> QED
  BY <1>1, <1>2

\* The sum of two unsigned counters that wrap at m.
LEMMA WrapSum ==
  ASSUME NEW m \in Nat \ {0}, NEW a \in 0..(m - 1), NEW b \in 0..(m - 1)
  PROVE  (a + b) % m = IF a + b < m THEN a + b ELSE a + b - m
<1>1. CASE a + b < m
  BY <1>1
<1>2. CASE ~(a + b < m)
  <2>1. a + b = m * 1 + (a + b - m) /\ a + b - m \in 0..(m - 1)
    BY <1>2
  <2> QED
    BY <1>2, <2>1, ModUnique
<1> QED
  BY <1>1, <1>2

\* pipe.c's tests of the two counters say how many bytes are in flight.
LEMMA Count ==
  ASSUME TypeOK
  PROVE  /\ InFlight = IF nread <= nwrite THEN nwrite - nread ELSE nwrite - nread + UintMod
         /\ InFlight \in 0..(UintMod - 1)
         /\ Empty <=> InFlight = 0
         /\ Full <=> InFlight = PIPESIZE
<1>1. /\ UintMod \in Nat \ {0} /\ PIPESIZE \in 0..(UintMod - 1)
      /\ nread \in 0..(UintMod - 1) /\ nwrite \in 0..(UintMod - 1)
  BY PipeAssumption DEF TypeOK
<1>2. InFlight = IF nread <= nwrite THEN nwrite - nread ELSE nwrite - nread + UintMod
  BY <1>1, WrapDiff DEF InFlight
<1>3. (nread + PIPESIZE) % UintMod = IF nread + PIPESIZE < UintMod THEN nread + PIPESIZE
                                                                   ELSE nread + PIPESIZE - UintMod
  BY <1>1, WrapSum
<1> QED
  BY <1>1, <1>2, <1>3 DEF Empty, Full

\* nwrite++ adds a byte, even when the counter wraps.
LEMMA CountWrite ==
  ASSUME TypeOK, TypeOK', nread' = nread, nwrite' = (nwrite + 1) % UintMod, InFlight < PIPESIZE
  PROVE  InFlight' = InFlight + 1
<1>1. /\ UintMod \in Nat \ {0} /\ 1 \in 0..(UintMod - 1) /\ PIPESIZE \in 0..(UintMod - 1)
      /\ nread \in 0..(UintMod - 1) /\ nwrite \in 0..(UintMod - 1)
  BY PipeAssumption DEF TypeOK
<1>2. nwrite' = IF nwrite + 1 < UintMod THEN nwrite + 1 ELSE nwrite + 1 - UintMod
  BY <1>1, WrapSum
<1>3. InFlight' = IF nread' <= nwrite' THEN nwrite' - nread' ELSE nwrite' - nread' + UintMod
  <2>1. nread' \in 0..(UintMod - 1) /\ nwrite' \in 0..(UintMod - 1)
    BY DEF TypeOK
  <2> QED
    BY <1>1, <2>1, WrapDiff DEF InFlight
<1> QED
  BY <1>1, <1>2, <1>3, Count

\* nread++ takes a byte away, even when the counter wraps.
LEMMA CountRead ==
  ASSUME TypeOK, TypeOK', nwrite' = nwrite, nread' = (nread + 1) % UintMod, ~Empty
  PROVE  InFlight' = InFlight - 1
<1>1. /\ UintMod \in Nat \ {0} /\ 1 \in 0..(UintMod - 1) /\ PIPESIZE \in 0..(UintMod - 1)
      /\ nread \in 0..(UintMod - 1) /\ nwrite \in 0..(UintMod - 1)
  BY PipeAssumption DEF TypeOK
<1>2. nread' = IF nread + 1 < UintMod THEN nread + 1 ELSE nread + 1 - UintMod
  BY <1>1, WrapSum
<1>3. InFlight' = IF nread' <= nwrite' THEN nwrite' - nread' ELSE nwrite' - nread' + UintMod
  <2>1. nread' \in 0..(UintMod - 1) /\ nwrite' \in 0..(UintMod - 1)
    BY DEF TypeOK
  <2> QED
    BY <1>1, <2>1, WrapDiff DEF InFlight
<1> QED
  BY <1>1, <1>2, <1>3, Count

\* Counters that wrap keep their place in the ring: PIPESIZE divides UintMod.
LEMMA Residue ==
  ASSUME NEW x \in Int, NEW y \in {x, x + UintMod, x - UintMod}
  PROVE  x % PIPESIZE = y % PIPESIZE
<1>1. /\ PIPESIZE \in Nat \ {0}
      /\ UintMod \in Nat
      /\ UintMod = PIPESIZE * (UintMod \div PIPESIZE) + 0
      /\ UintMod \div PIPESIZE \in Int
  BY PipeAssumption
<1>2. PICK q \in Int : q = UintMod \div PIPESIZE
  BY <1>1
<1>3. UintMod = PIPESIZE * q
  BY <1>1, <1>2
<1>4. x - UintMod = x + PIPESIZE * (-q) /\ -q \in Int
  BY <1>1, <1>3
<1>5. (x + PIPESIZE * q) % PIPESIZE = x % PIPESIZE
  BY <1>1, ModShift
<1>6. (x + PIPESIZE * (-q)) % PIPESIZE = x % PIPESIZE
  BY <1>1, <1>4, ModShift
<1> QED
  BY <1>3, <1>4, <1>5, <1>6

\* The bytes in flight: a sequence whose ends are the cells nread and nwrite point at.
LEMMA QueueIsSeq ==
  ASSUME TypeOK
  PROVE  /\ Queue \in Seq(Bytes)
         /\ Len(Queue) = InFlight
         /\ \A k \in 1..InFlight : Queue[k] = data[(nread + k - 1) % PIPESIZE]
<1>1. InFlight \in Nat /\ nread \in Nat /\ PIPESIZE \in Nat \ {0}
  BY Count, PipeAssumption DEF TypeOK
<1>2. ASSUME NEW k \in 1..InFlight PROVE data[(nread + k - 1) % PIPESIZE] \in Bytes
  <2>1. (nread + k - 1) % PIPESIZE \in 0..(PIPESIZE - 1)
    BY <1>1
  <2> QED
    BY <2>1 DEF TypeOK
<1>3. Queue \in [1..InFlight -> Bytes]
  BY <1>2 DEF Queue
<1>4. Queue \in Seq(Bytes)
  BY <1>1, <1>3, SeqDef
<1>5. Len(Queue) = InFlight
  BY <1>1, <1>3, <1>4, LenProperties
<1> QED
  BY <1>4, <1>5 DEF Queue

\* data[nwrite % PIPESIZE] is the cell after the last byte in flight.
LEMMA WriteCell ==
  ASSUME TypeOK PROVE (nread + InFlight) % PIPESIZE = nwrite % PIPESIZE
<1>1. nread \in Nat /\ nwrite \in Nat /\ InFlight \in Nat /\ UintMod \in Nat
  BY Count, PipeAssumption DEF TypeOK
<1>2. nwrite = nread + InFlight \/ nwrite = nread + InFlight - UintMod
  BY <1>1, Count
<1>3. PICK x \in Int : x = nread + InFlight
  BY <1>1
<1>4. nwrite \in {x, x + UintMod, x - UintMod}
  BY <1>1, <1>2, <1>3
<1>5. x % PIPESIZE = nwrite % PIPESIZE
  BY <1>4, Residue
<1> QED
  BY <1>3, <1>5

\* Storing a byte in a ring that is not full appends it and overwrites no other.
LEMMA QueueWrite ==
  ASSUME TypeOK, TypeOK', InFlight < PIPESIZE, NEW b \in Bytes,
         nread' = nread, nwrite' = (nwrite + 1) % UintMod,
         data' = [data EXCEPT ![nwrite % PIPESIZE] = b]
  PROVE  Queue' = Append(Queue, b)
<1>1. /\ nread \in Nat /\ nwrite \in Nat /\ PIPESIZE \in Nat \ {0} /\ InFlight \in Nat
      /\ nwrite % PIPESIZE \in 0..(PIPESIZE - 1)
  BY Count, PipeAssumption DEF TypeOK
<1>2. InFlight' = InFlight + 1
  BY CountWrite
<1>3. /\ Queue' \in Seq(Bytes) /\ Len(Queue') = InFlight + 1
      /\ \A k \in 1..(InFlight + 1) : Queue'[k] = data'[(nread + k - 1) % PIPESIZE]
  <2>1. ASSUME NEW k \in 1..InFlight' PROVE data'[(nread' + k - 1) % PIPESIZE] \in Bytes
    <3>1. (nread + k - 1) % PIPESIZE \in 0..(PIPESIZE - 1)
      BY <1>1, <1>2
    <3> QED
      BY <3>1 DEF TypeOK
  <2>2. Queue' \in [1..(InFlight + 1) -> Bytes]
    BY <2>1, <1>2 DEF Queue
  <2>3. Queue' \in Seq(Bytes)
    BY <1>1, <2>2, SeqDef
  <2>4. Len(Queue') = InFlight + 1
    BY <1>1, <2>2, <2>3, LenProperties
  <2> QED
    BY <1>2, <2>3, <2>4 DEF Queue
<1>4. /\ Append(Queue, b) \in Seq(Bytes) /\ Len(Append(Queue, b)) = InFlight + 1
      /\ \A k \in 1..InFlight : Append(Queue, b)[k] = data[(nread + k - 1) % PIPESIZE]
      /\ Append(Queue, b)[InFlight + 1] = b
  BY <1>1, QueueIsSeq, AppendProperties
<1>5. ASSUME NEW k \in 1..(InFlight + 1) PROVE Queue'[k] = Append(Queue, b)[k]
  <2>1. (nread + k - 1) % PIPESIZE \in 0..(PIPESIZE - 1)
    BY <1>1
  <2>2. CASE k = InFlight + 1
    <3>1. nread + k - 1 = nread + InFlight
      BY <1>1, <2>2
    <3>2. Queue'[k] = b
      BY <1>1, <1>3, <3>1, WriteCell DEF TypeOK
    <3> QED
      BY <1>4, <2>2, <3>2
  <2>3. CASE k \in 1..InFlight
    <3>1. /\ nread + k - 1 \in Int /\ InFlight - k + 1 \in 1..(PIPESIZE - 1)
          /\ nread + k - 1 + (InFlight - k + 1) = nread + InFlight
      BY <1>1, <2>3
    <3>2. (nread + k - 1) % PIPESIZE # nwrite % PIPESIZE
      BY <1>1, <3>1, WriteCell, ModDistinct
    <3> QED
      BY <1>1, <1>3, <1>4, <2>1, <2>3, <3>2 DEF TypeOK
  <2>4. k = InFlight + 1 \/ k \in 1..InFlight
    BY <1>1
  <2> QED
    BY <2>2, <2>3, <2>4
<1> QED
  BY <1>3, <1>4, <1>5, SeqEqual

\* Fetching a byte takes the oldest one off the queue.
LEMMA QueueRead ==
  ASSUME TypeOK, TypeOK', ~Empty,
         nwrite' = nwrite, nread' = (nread + 1) % UintMod, data' = data
  PROVE  Queue # <<>> /\ Head(Queue) = data[nread % PIPESIZE] /\ Queue' = Tail(Queue)
<1>1. /\ nread \in 0..(UintMod - 1) /\ nwrite \in Nat /\ PIPESIZE \in Nat \ {0}
      /\ InFlight \in Nat \ {0} /\ UintMod \in Nat \ {0} /\ 1 \in 0..(UintMod - 1)
  BY Count, PipeAssumption DEF TypeOK
<1>2. InFlight' = InFlight - 1
  BY CountRead
<1>3. /\ Queue' \in Seq(Bytes) /\ Len(Queue') = InFlight - 1
      /\ \A k \in 1..(InFlight - 1) : Queue'[k] = data[(nread' + k - 1) % PIPESIZE]
  <2>1. ASSUME NEW k \in 1..InFlight' PROVE data'[(nread' + k - 1) % PIPESIZE] \in Bytes
    <3>1. (nread' + k - 1) % PIPESIZE \in 0..(PIPESIZE - 1)
      BY SMTT(60), <1>1, <1>2 DEF TypeOK
    <3> QED
      BY <3>1 DEF TypeOK
  <2>2. Queue' \in [1..(InFlight - 1) -> Bytes]
    BY <2>1, <1>2 DEF Queue
  <2>3. Queue' \in Seq(Bytes)
    BY <1>1, <2>2, SeqDef
  <2>4. Len(Queue') = InFlight - 1
    BY <1>1, <2>2, <2>3, LenProperties
  <2> QED
    BY <1>2, <2>3, <2>4 DEF Queue
<1>4. Queue # <<>>
  BY <1>1, QueueIsSeq, EmptySeq
<1>5. Head(Queue) = data[nread % PIPESIZE]
  <2>1. Head(Queue) = Queue[1]
    BY <1>4, QueueIsSeq
  <2>2. nread + 1 - 1 = nread
    BY <1>1
  <2> QED
    BY <1>1, <2>1, <2>2, QueueIsSeq
<1>6. /\ Tail(Queue) \in Seq(Bytes) /\ Len(Tail(Queue)) = InFlight - 1
      /\ \A k \in 1..(InFlight - 1) : Tail(Queue)[k] = data[(nread + (k + 1) - 1) % PIPESIZE]
  <2>1. /\ Tail(Queue) \in Seq(Bytes) /\ Len(Tail(Queue)) = InFlight - 1
        /\ \A k \in 1..(InFlight - 1) : Tail(Queue)[k] = Queue[k + 1]
    BY <1>4, QueueIsSeq, HeadTailProperties
  <2>2. ASSUME NEW k \in 1..(InFlight - 1) PROVE k + 1 \in 1..InFlight
    BY <1>1
  <2> QED
    BY <2>1, <2>2, QueueIsSeq
<1>7. ASSUME NEW k \in 1..(InFlight - 1) PROVE Queue'[k] = Tail(Queue)[k]
  <2>1. nread' \in {nread + 1, nread + 1 - UintMod}
    BY <1>1, WrapSum
  <2>2. nread' + k - 1 \in Int /\ nread + (k + 1) - 1 \in {nread' + k - 1, nread' + k - 1 + UintMod}
    BY <1>1, <2>1
  <2>3. (nread' + k - 1) % PIPESIZE = (nread + (k + 1) - 1) % PIPESIZE
    BY <2>2, Residue
  <2> QED
    BY <1>3, <1>6, <2>3
<1> QED
  BY <1>3, <1>4, <1>5, <1>6, <1>7, SeqEqual

\* The queue depends on the ring and its counters alone.
LEMMA QueueSame ==
  UNCHANGED <<data, nread, nwrite>> => Queue' = Queue /\ InFlight' = InFlight
BY DEF Queue, InFlight

\* The test of the counters is the test of the queue.
LEMMA QueueEmpty ==
  ASSUME TypeOK PROVE Queue = <<>> <=> Empty
<1>1. InFlight = 0 <=> Queue = <<>>
  BY Count, QueueIsSeq, EmptySeq
<1> QED
  BY <1>1, Count

-----------------------------------------------------------------------------
\* A pipe fresh from pipealloc, shared by all.
LEMMA InitInv == Init => IInv
<1> SUFFICES ASSUME Init PROVE IInv
  OBVIOUS
<1> USE PipeAssumption
<1>1. TypeOK
  <2>1. nread \in 0..(UintMod - 1) /\ nwrite \in 0..(UintMod - 1)
    BY DEF Init
  <2>2. i \in [Procs -> 0..MaxN] /\ n \in [Procs -> 0..MaxN] /\ \A u \in Procs : i[u] <= n[u]
    BY DEF Init
  <2> QED
    BY <2>1, <2>2 DEF Init, TypeOK, PCs
<1>2. LockInv
  BY DEF Init, LockInv, Critical
<1>3. EndInv
  BY DEF Init, EndInv, Writing, Reading
<1>4. SleepInv /\ LocalInv
  BY DEF Init, SleepInv, LocalInv, Writing
<1>5. RingInv
  BY DEF Init, RingInv, InFlight
<1> QED
  BY <1>1, <1>2, <1>3, <1>4, <1>5 DEF IInv

\* Every variable keeps its type; the loop indices stay within the call's n.
LEMMA TypeStep == IInv /\ [Next]_vars => TypeOK'
<1> SUFFICES ASSUME IInv, [Next]_vars PROVE TypeOK'
  OBVIOUS
<1> USE PipeAssumption DEF IInv, TypeOK, PCs, LocalInv, Writing, pipe, local, hist
<1>1. CASE NewPipe
  <2>1. nread' \in 0..(UintMod - 1) /\ nwrite' \in 0..(UintMod - 1)
    BY <1>1 DEF NewPipe
  <2> QED
    BY <1>1, <2>1 DEF NewPipe
<1>2. ASSUME NEW u \in Procs, NEW k \in 1..MaxN, CallWrite(u, k) \/ CallRead(u, k) PROVE TypeOK'
  <2>1. CASE CallWrite(u, k)
    <3>1. i' \in [Procs -> 0..MaxN] /\ n' \in [Procs -> 0..MaxN] /\ \A v \in Procs : i'[v] <= n'[v]
      <4>1. i' = i /\ i[u] = 0 /\ n' = [n EXCEPT ![u] = k]
        BY <2>1 DEF CallWrite
      <4>2. i' \in [Procs -> 0..MaxN] /\ n' \in [Procs -> 0..MaxN]
        BY <4>1
      <4>3. ASSUME NEW v \in Procs PROVE i'[v] <= n'[v]
        BY <4>1
      <4> QED
        BY <4>2, <4>3
    <3> QED
      BY <2>1, <3>1 DEF CallWrite, Goto
  <2>2. CASE CallRead(u, k)
    <3>1. i' \in [Procs -> 0..MaxN] /\ n' \in [Procs -> 0..MaxN] /\ \A v \in Procs : i'[v] <= n'[v]
      <4>1. i' = i /\ i[u] = 0 /\ n' = [n EXCEPT ![u] = k]
        BY <2>2 DEF CallRead
      <4>2. i' \in [Procs -> 0..MaxN] /\ n' \in [Procs -> 0..MaxN]
        BY <4>1
      <4>3. ASSUME NEW v \in Procs PROVE i'[v] <= n'[v]
        BY <4>1
      <4> QED
        BY <4>2, <4>3
    <3> QED
      BY <2>2, <3>1 DEF CallRead, Goto
  <2> QED
    BY <1>2, <2>1, <2>2
<1>3. ASSUME NEW u \in Procs, InCall(u) PROVE TypeOK'
  <2>1. CASE Acquire(u, "w_lock", "w_loop")
    BY <2>1 DEF Acquire, Goto
  <2>2. CASE Acquire(u, "r_lock", "r_loop")
    BY <2>2 DEF Acquire, Goto
  <2>3. ASSUME NEW b \in Bytes, WriteByte(u, b) PROVE TypeOK'
    BY SMTT(60), <2>3 DEF WriteByte, Goto
  <2>4. CASE WriteFull(u)
    <3>1. CASE ~readopen \/ killed[u]
      <4>1. i' \in [Procs -> 0..MaxN] /\ n' \in [Procs -> 0..MaxN] /\ \A v \in Procs : i'[v] <= n'[v]
        <5>1. i' = [i EXCEPT ![u] = 0] /\ n' = [n EXCEPT ![u] = 0]
          BY <2>4, <3>1 DEF WriteFull, Return
        <5>2. i' \in [Procs -> 0..MaxN] /\ n' \in [Procs -> 0..MaxN]
          BY <5>1
        <5>3. ASSUME NEW v \in Procs PROVE i'[v] <= n'[v]
          BY <5>1
        <5> QED
          BY <5>2, <5>3
      <4> QED
        BY ZenonT(60), <2>4, <3>1, <4>1 DEF WriteFull, Return
    <3>2. CASE ~(~readopen \/ killed[u])
      BY <2>4, <3>2 DEF WriteFull, wakeup_nread, Woken
    <3> QED
      BY <3>1, <3>2
  <2>5. CASE WriteSleep(u)
    BY <2>5 DEF WriteSleep, Goto
  <2>6. CASE WriteDone(u)
    BY <2>6 DEF WriteDone, Return, wakeup_nread, Woken, Goto
  <2>7. CASE ReadTest(u)
    <3>1. CASE Empty /\ writeopen /\ killed[u]
      <4>1. i' \in [Procs -> 0..MaxN] /\ n' \in [Procs -> 0..MaxN] /\ \A v \in Procs : i'[v] <= n'[v]
        <5>1. i' = [i EXCEPT ![u] = 0] /\ n' = [n EXCEPT ![u] = 0]
          BY <2>7, <3>1 DEF ReadTest, Return
        <5>2. i' \in [Procs -> 0..MaxN] /\ n' \in [Procs -> 0..MaxN]
          BY <5>1
        <5>3. ASSUME NEW v \in Procs PROVE i'[v] <= n'[v]
          BY <5>1
        <5> QED
          BY <5>2, <5>3
      <4> QED
        BY <2>7, <3>1, <4>1 DEF ReadTest, Return
    <3>2. CASE ~(Empty /\ writeopen /\ killed[u])
      BY <2>7, <3>2 DEF ReadTest, Goto
    <3> QED
      BY <3>1, <3>2
  <2>8. CASE ReadSleep(u)
    BY <2>8 DEF ReadSleep, Goto
  <2>9. CASE ReadByte(u)
    BY SMTT(60), <2>9 DEF ReadByte, Goto
  <2>10. CASE ReadDone(u)
    BY <2>10 DEF ReadDone, Return, wakeup_nwrite, Woken, Goto
  <2>11. CASE pipecloseW(u)
    BY <2>11 DEF pipecloseW, wakeup_nread, Woken, Goto
  <2>12. CASE pipecloseR(u)
    BY <2>12 DEF pipecloseR, wakeup_nwrite, Woken, Goto
  <2> QED
    BY <1>3, <2>1, <2>2, <2>3, <2>4, <2>5, <2>6, <2>7, <2>8, <2>9, <2>10, <2>11, <2>12 DEF InCall
<1>4. ASSUME NEW u \in Procs, CloseW(u) \/ CloseR(u) PROVE TypeOK'
  <2>1. CASE CloseW(u)
    BY <2>1 DEF CloseW, Goto
  <2>2. CASE CloseR(u)
    BY <2>2 DEF CloseR, Goto
  <2> QED
    BY <1>4, <2>1, <2>2
<1>5. ASSUME NEW u \in Procs, Kill(u) PROVE TypeOK'
  BY <1>5 DEF Kill
<1>6. CASE UNCHANGED vars
  BY <1>6 DEF vars, pipe, local, hist
<1> QED
  BY <1>1, <1>2, <1>3, <1>4, <1>5, <1>6 DEF Next, pipealloc

\* acquire and release are paired on every path through a call.
LEMMA LockStep == IInv /\ [Next]_vars => LockInv'
<1> SUFFICES ASSUME IInv, [Next]_vars PROVE LockInv'
  OBVIOUS
<1> USE PipeAssumption DEF IInv, TypeOK, PCs, LockInv, Critical, pipe, local, hist
<1>1. CASE NewPipe
  BY <1>1 DEF NewPipe
<1>2. ASSUME NEW u \in Procs, NEW k \in 1..MaxN, CallWrite(u, k) \/ CallRead(u, k) PROVE LockInv'
  <2>1. CASE CallWrite(u, k)
    BY <2>1 DEF CallWrite, Goto
  <2>2. CASE CallRead(u, k)
    BY <2>2 DEF CallRead, Goto
  <2> QED
    BY <1>2, <2>1, <2>2
<1>3. ASSUME NEW u \in Procs, InCall(u) PROVE LockInv'
  <2>1. CASE Acquire(u, "w_lock", "w_loop")
    BY <2>1 DEF Acquire, Goto
  <2>2. CASE Acquire(u, "r_lock", "r_loop")
    BY <2>2 DEF Acquire, Goto
  <2>3. ASSUME NEW b \in Bytes, WriteByte(u, b) PROVE LockInv'
    BY <2>3 DEF WriteByte, Goto
  <2>4. CASE WriteFull(u)
    <3>1. CASE ~readopen \/ killed[u]
      BY ZenonT(60), <2>4, <3>1 DEF WriteFull, Return
    <3>2. CASE ~(~readopen \/ killed[u])
      BY <2>4, <3>2 DEF WriteFull, wakeup_nread, Woken
    <3> QED
      BY <3>1, <3>2
  <2>5. CASE WriteSleep(u)
    BY <2>5 DEF WriteSleep, Goto
  <2>6. CASE WriteDone(u)
    BY <2>6 DEF WriteDone, Return, wakeup_nread, Woken, Goto
  <2>7. CASE ReadTest(u)
    <3>1. CASE Empty /\ writeopen /\ killed[u]
      BY ZenonT(60), <2>7, <3>1 DEF ReadTest, Return
    <3>2. CASE ~(Empty /\ writeopen /\ killed[u])
      BY <2>7, <3>2 DEF ReadTest, Goto
    <3> QED
      BY <3>1, <3>2
  <2>8. CASE ReadSleep(u)
    BY <2>8 DEF ReadSleep, Goto
  <2>9. CASE ReadByte(u)
    BY <2>9 DEF ReadByte, Goto
  <2>10. CASE ReadDone(u)
    BY <2>10 DEF ReadDone, Return, wakeup_nwrite, Woken, Goto
  <2>11. CASE pipecloseW(u)
    BY <2>11 DEF pipecloseW, wakeup_nread, Woken, Goto
  <2>12. CASE pipecloseR(u)
    BY <2>12 DEF pipecloseR, wakeup_nwrite, Woken, Goto
  <2> QED
    BY <1>3, <2>1, <2>2, <2>3, <2>4, <2>5, <2>6, <2>7, <2>8, <2>9, <2>10, <2>11, <2>12 DEF InCall
<1>4. ASSUME NEW u \in Procs, CloseW(u) \/ CloseR(u) PROVE LockInv'
  <2>1. CASE CloseW(u)
    BY <2>1 DEF CloseW, Goto
  <2>2. CASE CloseR(u)
    BY <2>2 DEF CloseR, Goto
  <2> QED
    BY <1>4, <2>1, <2>2
<1>5. ASSUME NEW u \in Procs, Kill(u) PROVE LockInv'
  BY <1>5 DEF Kill
<1>6. CASE UNCHANGED vars
  BY <1>6 DEF vars, pipe, local, hist
<1> QED
  BY <1>1, <1>2, <1>3, <1>4, <1>5, <1>6 DEF Next, pipealloc

\* An end is closed once, and the page freed by the second close.
LEMMA EndStep == IInv /\ [Next]_vars => EndInv'
<1> SUFFICES ASSUME IInv, [Next]_vars PROVE EndInv'
  OBVIOUS
<1> USE PipeAssumption DEF IInv, TypeOK, PCs, EndInv, Writing, Reading, pipe, local, hist
<1>1. CASE NewPipe
  BY <1>1 DEF NewPipe
<1>2. ASSUME NEW u \in Procs, NEW k \in 1..MaxN, CallWrite(u, k) \/ CallRead(u, k) PROVE EndInv'
  <2>1. CASE CallWrite(u, k)
    BY SMTT(60), <2>1 DEF CallWrite, Goto
  <2>2. CASE CallRead(u, k)
    BY SMTT(60), <2>2 DEF CallRead, Goto
  <2> QED
    BY <1>2, <2>1, <2>2
<1>3. ASSUME NEW u \in Procs, InCall(u) PROVE EndInv'
  <2>1. CASE Acquire(u, "w_lock", "w_loop")
    BY <2>1 DEF Acquire, Goto
  <2>2. CASE Acquire(u, "r_lock", "r_loop")
    BY <2>2 DEF Acquire, Goto
  <2>3. ASSUME NEW b \in Bytes, WriteByte(u, b) PROVE EndInv'
    BY <2>3 DEF WriteByte, Goto
  <2>4. CASE WriteFull(u)
    <3>1. CASE ~readopen \/ killed[u]
      BY SMTT(60), <2>4, <3>1 DEF WriteFull, Return
    <3>2. CASE ~(~readopen \/ killed[u])
      BY SMTT(60), <2>4, <3>2 DEF WriteFull, wakeup_nread, Woken
    <3> QED
      BY <3>1, <3>2
  <2>5. CASE WriteSleep(u)
    BY <2>5 DEF WriteSleep, Goto
  <2>6. CASE WriteDone(u)
    BY ZenonT(60), <2>6 DEF WriteDone, Return, wakeup_nread, Woken, Goto
  <2>7. CASE ReadTest(u)
    <3>1. CASE Empty /\ writeopen /\ killed[u]
      BY SMTT(60), <2>7, <3>1 DEF ReadTest, Return
    <3>2. CASE ~(Empty /\ writeopen /\ killed[u])
      BY SMTT(60), <2>7, <3>2 DEF ReadTest, Goto
    <3> QED
      BY <3>1, <3>2
  <2>8. CASE ReadSleep(u)
    BY <2>8 DEF ReadSleep, Goto
  <2>9. CASE ReadByte(u)
    BY <2>9 DEF ReadByte, Goto
  <2>10. CASE ReadDone(u)
    BY <2>10 DEF ReadDone, Return, wakeup_nwrite, Woken, Goto
  <2>11. CASE pipecloseW(u)
    BY <2>11 DEF pipecloseW, wakeup_nread, Woken, Goto
  <2>12. CASE pipecloseR(u)
    BY <2>12 DEF pipecloseR, wakeup_nwrite, Woken, Goto
  <2> QED
    BY <1>3, <2>1, <2>2, <2>3, <2>4, <2>5, <2>6, <2>7, <2>8, <2>9, <2>10, <2>11, <2>12 DEF InCall
<1>4. ASSUME NEW u \in Procs, CloseW(u) \/ CloseR(u) PROVE EndInv'
  <2>1. CASE CloseW(u)
    BY SMTT(60), <2>1 DEF CloseW, Goto
  <2>2. CASE CloseR(u)
    BY SMTT(60), <2>2 DEF CloseR, Goto
  <2> QED
    BY <1>4, <2>1, <2>2
<1>5. ASSUME NEW u \in Procs, Kill(u) PROVE EndInv'
  BY <1>5 DEF Kill
<1>6. CASE UNCHANGED vars
  BY <1>6 DEF vars, pipe, local, hist
<1> QED
  BY <1>1, <1>2, <1>3, <1>4, <1>5, <1>6 DEF Next, pipealloc

\* A sleeper misses no wakeup: whoever changes what it waits for holds the lock
\* until it has sent one.
LEMMA SleepStep == IInv /\ [Next]_vars => SleepInv'
<1> SUFFICES ASSUME IInv, [Next]_vars PROVE SleepInv'
  OBVIOUS
<1> USE PipeAssumption DEF IInv, TypeOK, PCs, LockInv, EndInv, SleepInv, HolderAt, Empty, Full, Critical, Writing, Reading, pipe, local, hist
<1>1. CASE NewPipe
  BY <1>1 DEF NewPipe
<1>2. ASSUME NEW u \in Procs, NEW k \in 1..MaxN, CallWrite(u, k) \/ CallRead(u, k) PROVE SleepInv'
  <2>1. CASE CallWrite(u, k)
    BY <2>1 DEF CallWrite, Goto
  <2>2. CASE CallRead(u, k)
    BY <2>2 DEF CallRead, Goto
  <2> QED
    BY <1>2, <2>1, <2>2
<1>3. ASSUME NEW u \in Procs, InCall(u) PROVE SleepInv'
  <2>1. CASE Acquire(u, "w_lock", "w_loop")
    BY <2>1 DEF Acquire, Goto
  <2>2. CASE Acquire(u, "r_lock", "r_loop")
    BY <2>2 DEF Acquire, Goto
  <2>3. ASSUME NEW b \in Bytes, WriteByte(u, b) PROVE SleepInv'
    BY <2>3 DEF WriteByte, Goto
  <2>4. CASE WriteFull(u)
    <3>1. CASE ~readopen \/ killed[u]
      BY <2>4, <3>1 DEF WriteFull, Return
    <3>2. CASE ~(~readopen \/ killed[u])
      <4>1. \A v \in Procs : pc'[v] = IF v = u THEN "w_sleep" ELSE IF pc[v] = "r_asleep" THEN "r_lock" ELSE pc[v]
        BY <2>4, <3>2 DEF WriteFull, wakeup_nread, Woken
      <4>2. /\ pc[u] = "w_loop" /\ Full /\ readopen /\ lock = u
            /\ UNCHANGED <<lock, nread, nwrite, readopen, writeopen, killed>>
        BY <2>4, <3>2 DEF WriteFull
      <4> QED
        BY <4>1, <4>2
    <3> QED
      BY <3>1, <3>2
  <2>5. CASE WriteSleep(u)
    BY <2>5 DEF WriteSleep, Goto
  <2>6. CASE WriteDone(u)
    BY <2>6 DEF WriteDone, Return, wakeup_nread, Woken, Goto
  <2>7. CASE ReadTest(u)
    <3>1. CASE Empty /\ writeopen /\ killed[u]
      BY <2>7, <3>1 DEF ReadTest, Return
    <3>2. CASE ~(Empty /\ writeopen /\ killed[u])
      BY <2>7, <3>2 DEF ReadTest, Goto
    <3> QED
      BY <3>1, <3>2
  <2>8. CASE ReadSleep(u)
    BY <2>8 DEF ReadSleep, Goto
  <2>9. CASE ReadByte(u)
    BY <2>9 DEF ReadByte, Goto
  <2>10. CASE ReadDone(u)
    BY <2>10 DEF ReadDone, Return, wakeup_nwrite, Woken, Goto
  <2>11. CASE pipecloseW(u)
    BY <2>11 DEF pipecloseW, wakeup_nread, Woken, Goto
  <2>12. CASE pipecloseR(u)
    BY <2>12 DEF pipecloseR, wakeup_nwrite, Woken, Goto
  <2> QED
    BY <1>3, <2>1, <2>2, <2>3, <2>4, <2>5, <2>6, <2>7, <2>8, <2>9, <2>10, <2>11, <2>12 DEF InCall
<1>4. ASSUME NEW u \in Procs, CloseW(u) \/ CloseR(u) PROVE SleepInv'
  <2>1. CASE CloseW(u)
    BY <2>1 DEF CloseW, Goto
  <2>2. CASE CloseR(u)
    BY <2>2 DEF CloseR, Goto
  <2> QED
    BY <1>4, <2>1, <2>2
<1>5. ASSUME NEW u \in Procs, Kill(u) PROVE SleepInv'
  BY <1>5 DEF Kill
<1>6. CASE UNCHANGED vars
  BY <1>6 DEF vars, pipe, local, hist
<1> QED
  BY <1>1, <1>2, <1>3, <1>4, <1>5, <1>6 DEF Next, pipealloc

\* A reader begins to copy only once it found a byte or the end of the stream.
LEMMA LocalStep == IInv /\ [Next]_vars => LocalInv'
<1> SUFFICES ASSUME IInv, [Next]_vars PROVE LocalInv'
  OBVIOUS
<1> USE PipeAssumption DEF IInv, TypeOK, PCs, LockInv, LocalInv, Empty, Critical, Writing, pipe, local, hist
<1>1. CASE NewPipe
  BY <1>1 DEF NewPipe, EndInv, Reading
<1>2. ASSUME NEW u \in Procs, NEW k \in 1..MaxN, CallWrite(u, k) \/ CallRead(u, k) PROVE LocalInv'
  <2>1. CASE CallWrite(u, k)
    BY <2>1 DEF CallWrite, Goto
  <2>2. CASE CallRead(u, k)
    BY <2>2 DEF CallRead, Goto
  <2> QED
    BY <1>2, <2>1, <2>2
<1>3. ASSUME NEW u \in Procs, InCall(u) PROVE LocalInv'
  <2>1. CASE Acquire(u, "w_lock", "w_loop")
    BY <2>1 DEF Acquire, Goto
  <2>2. CASE Acquire(u, "r_lock", "r_loop")
    BY <2>2 DEF Acquire, Goto
  <2>3. ASSUME NEW b \in Bytes, WriteByte(u, b) PROVE LocalInv'
    BY <2>3 DEF WriteByte, Goto
  <2>4. CASE WriteFull(u)
    <3>1. CASE ~readopen \/ killed[u]
      BY ZenonT(60), <2>4, <3>1 DEF WriteFull, Return
    <3>2. CASE ~(~readopen \/ killed[u])
      BY SMTT(60), <2>4, <3>2 DEF WriteFull, wakeup_nread, Woken
    <3> QED
      BY <3>1, <3>2
  <2>5. CASE WriteSleep(u)
    BY <2>5 DEF WriteSleep, Goto
  <2>6. CASE WriteDone(u)
    BY <2>6 DEF WriteDone, Return, wakeup_nread, Woken, Goto
  <2>7. CASE ReadTest(u)
    <3>1. CASE Empty /\ writeopen /\ killed[u]
      BY <2>7, <3>1 DEF ReadTest, Return
    <3>2. CASE ~(Empty /\ writeopen /\ killed[u])
      BY SMTT(60), <2>7, <3>2 DEF ReadTest, Goto
    <3> QED
      BY <3>1, <3>2
  <2>8. CASE ReadSleep(u)
    BY <2>8 DEF ReadSleep, Goto
  <2>9. CASE ReadByte(u)
    BY <2>9 DEF ReadByte, Goto
  <2>10. CASE ReadDone(u)
    BY <2>10 DEF ReadDone, Return, wakeup_nwrite, Woken, Goto
  <2>11. CASE pipecloseW(u)
    BY <2>11 DEF pipecloseW, wakeup_nread, Woken, Goto
  <2>12. CASE pipecloseR(u)
    BY <2>12 DEF pipecloseR, wakeup_nwrite, Woken, Goto
  <2> QED
    BY <1>3, <2>1, <2>2, <2>3, <2>4, <2>5, <2>6, <2>7, <2>8, <2>9, <2>10, <2>11, <2>12 DEF InCall
<1>4. ASSUME NEW u \in Procs, CloseW(u) \/ CloseR(u) PROVE LocalInv'
  <2>1. CASE CloseW(u)
    BY <2>1 DEF CloseW, Goto
  <2>2. CASE CloseR(u)
    BY <2>2 DEF CloseR, Goto
  <2> QED
    BY <1>4, <2>1, <2>2
<1>5. ASSUME NEW u \in Procs, Kill(u) PROVE LocalInv'
  BY <1>5 DEF Kill
<1>6. CASE UNCHANGED vars
  BY <1>6 DEF vars, pipe, local, hist
<1> QED
  BY <1>1, <1>2, <1>3, <1>4, <1>5, <1>6 DEF Next, pipealloc

\* The ring is never overfilled.
LEMMA RingStep == IInv /\ TypeOK' /\ [Next]_vars => RingInv'
<1> SUFFICES ASSUME IInv, TypeOK', [Next]_vars PROVE RingInv'
  OBVIOUS
<1> USE DEF IInv, RingInv
<1>1. CASE NewPipe
  BY <1>1, PipeAssumption DEF NewPipe, InFlight
<1>2. ASSUME NEW u \in Procs, NEW b \in Bytes, WriteByte(u, b) PROVE RingInv'
  BY <1>2, Count, CountWrite, PipeAssumption DEF WriteByte
<1>3. ASSUME NEW u \in Procs, ReadByte(u) PROVE RingInv'
  BY <1>3, Count, CountRead, PipeAssumption DEF ReadByte
<1>4. CASE UNCHANGED <<data, nread, nwrite>>
  BY <1>4, QueueSame
<1>5. \/ NewPipe
      \/ \E u \in Procs : ReadByte(u) \/ \E b \in Bytes : WriteByte(u, b)
      \/ UNCHANGED <<data, nread, nwrite>>
  BY ZenonT(60) DEF Next, pipealloc, InCall, vars, pipe, Acquire, CallWrite, CallRead, WriteFull, WriteSleep, WriteDone,
         ReadTest, ReadSleep, ReadDone, CloseW, CloseR, pipecloseW, pipecloseR, Kill
<1> QED
  BY <1>1, <1>2, <1>3, <1>4, <1>5

\* The invariant holds in every reachable state.
LEMMA Inductive == Spec => []IInv
<1>1. IInv /\ [Next]_vars => IInv'
  BY TypeStep, LockStep, EndStep, SleepStep, LocalStep, RingStep DEF IInv
<1> QED
  BY <1>1, InitInv, PTL DEF Spec

-----------------------------------------------------------------------------
(***************************************************************************)
(* Type correctness of pipe.c's state, for any number of processes.        *)
(***************************************************************************)
THEOREM TypeCorrect == Spec => []TypeOK
<1>1. IInv => TypeOK
  BY DEF IInv
<1> QED
  BY <1>1, Inductive, PTL

(***************************************************************************)
(* pipeclose frees the page only when no process is in a call on the pipe  *)
(* or has a descriptor for it, whoever closes last and whoever is killed   *)
(* (pipe.c:59-75, file.c:64-74).                                           *)
(***************************************************************************)
THEOREM NoUseAfterFreeHolds == Spec => []NoUseAfterFree
<1>1. IInv => NoUseAfterFree
  BY DEF IInv, TypeOK, PCs, LockInv, EndInv, NoUseAfterFree, Critical, Writing, Reading
<1> QED
  BY <1>1, Inductive, PTL

(***************************************************************************)
(* No reader sleeps on data and no writer on room while the lock is free,  *)
(* as long as nobody is killed (pipe.c:77-121).                            *)
(***************************************************************************)
THEOREM NoLostWakeupHolds == Spec => []NoLostWakeup
<1>1. IInv => NoLostWakeup
  BY PipeAssumption DEF IInv, TypeOK, SleepInv, HolderAt, NoLostWakeup
<1> QED
  BY <1>1, Inductive, PTL

\* A new pipe is an open, empty stream.
LEMMA StreamInit == Init => Bs!Open
<1> SUFFICES ASSUME Init PROVE Bs!Open
  OBVIOUS
<1>1. Queue = <<>>
  BY InitInv, QueueEmpty DEF IInv, Init, Empty
<1> QED
  BY <1>1 DEF Bs!Open, Init

\* Every step of the pipe is a step of the stream, or none.
LEMMA StreamStep == IInv /\ IInv' /\ [Next]_vars => [Bs!StreamNext]_(Bs!streamVars)
<1> SUFFICES ASSUME IInv, IInv', [Next]_vars PROVE Bs!StreamNext \/ UNCHANGED Bs!streamVars
  OBVIOUS
<1>1. TypeOK /\ TypeOK' /\ EndInv
  BY DEF IInv
<1>2. CASE NewPipe
  <2>1. Queue' = <<>>
    <3>1. InFlight' = 0
      BY <1>2, PipeAssumption DEF NewPipe, InFlight
    <3> QED
      BY <3>1 DEF Queue
  <2> QED
    BY <1>1, <1>2, <2>1 DEF Bs!StreamNext, Bs!Reopen, NewPipe, EndInv
<1>3. ASSUME NEW u \in Procs, NEW b \in Bytes, WriteByte(u, b) PROVE Bs!StreamNext
  <2>1. InFlight < PIPESIZE
    BY <1>1, <1>3, Count, PipeAssumption DEF WriteByte, IInv, RingInv
  <2>2. Queue' = Append(Queue, b) /\ Len(Queue) < PIPESIZE
    BY <1>1, <1>3, <2>1, QueueWrite, QueueIsSeq DEF WriteByte
  <2>3. writeopen
    BY <1>1, <1>3 DEF WriteByte, EndInv, TypeOK, Writing
  <2> QED
    BY <1>3, <2>2, <2>3 DEF Bs!StreamNext, Bs!Send, WriteByte, hist
<1>4. ASSUME NEW u \in Procs, ReadByte(u) PROVE Bs!StreamNext
  <2>1. Queue # <<>> /\ Head(Queue) = data[nread % PIPESIZE] /\ Queue' = Tail(Queue)
    BY <1>1, <1>4, QueueRead DEF ReadByte
  <2>2. readopen
    BY <1>1, <1>4 DEF ReadByte, EndInv, TypeOK, Reading
  <2> QED
    BY <1>4, <2>1, <2>2 DEF Bs!StreamNext, Bs!Receive, ReadByte
<1>5. ASSUME NEW u \in Procs, ReadDone(u) PROVE Bs!StreamNext \/ UNCHANGED Bs!streamVars
  <2>1. Queue' = Queue
    BY <1>5, QueueSame DEF ReadDone, pipe
  <2>2. CASE eof' = eof
    BY <1>5, <2>1, <2>2 DEF Bs!streamVars, ReadDone, pipe
  <2>3. CASE eof' # eof
    <3>1. eof' = TRUE /\ i[u] = 0 /\ n[u] > 0
      BY <1>1, <1>5, <2>3 DEF ReadDone, TypeOK
    <3>2. Empty
      BY <1>5, <3>1 DEF ReadDone
    <3>3. ~writeopen
      BY <1>5, <3>1, <3>2 DEF ReadDone, IInv, LocalInv
    <3>4. readopen
      BY <1>1, <1>5 DEF ReadDone, EndInv, TypeOK, Reading
    <3>5. Queue = <<>>
      BY <1>1, <3>2, QueueEmpty
    <3> QED
      BY <1>5, <2>1, <3>1, <3>3, <3>4, <3>5 DEF Bs!StreamNext, Bs!EndOfFile, ReadDone, pipe
  <2> QED
    BY <2>2, <2>3
<1>6. ASSUME NEW u \in Procs, pipecloseW(u) PROVE Bs!StreamNext
  <2>1. Queue' = Queue
    BY <1>6, QueueSame DEF pipecloseW
  <2> QED
    BY <1>1, <1>6, <2>1 DEF Bs!StreamNext, Bs!CloseWrite, pipecloseW, hist, EndInv
<1>7. ASSUME NEW u \in Procs, pipecloseR(u) PROVE Bs!StreamNext
  <2>1. Queue' = Queue
    BY <1>7, QueueSame DEF pipecloseR
  <2> QED
    BY <1>1, <1>7, <2>1 DEF Bs!StreamNext, Bs!CloseRead, pipecloseR, hist, EndInv
<1>8. CASE UNCHANGED <<pipe, hist>>
  BY <1>8, QueueSame DEF Bs!streamVars, pipe, hist
<1>9. \/ NewPipe
      \/ \E u \in Procs : \/ ReadByte(u) \/ \E b \in Bytes : WriteByte(u, b)
                          \/ ReadDone(u) \/ pipecloseW(u) \/ pipecloseR(u)
      \/ UNCHANGED <<pipe, hist>>
  BY ZenonT(60) DEF Next, pipealloc, InCall, vars, Acquire, CallWrite, CallRead, WriteFull, WriteSleep, WriteDone,
         ReadTest, ReadSleep, CloseW, CloseR, Kill
<1> QED
  BY <1>2, <1>3, <1>4, <1>5, <1>6, <1>7, <1>8, <1>9

(***************************************************************************)
(* The pipe implements the byte stream: for every PIPESIZE that divides    *)
(* the range of the counters, bytes come out in order, none lost or        *)
(* overwritten while the counters wrap, and a read returns 0 only at the   *)
(* end of the stream (pipe.c:77-121).                                      *)
(***************************************************************************)
THEOREM PipeIsByteStream == Spec => IsByteStream
<1> QED
  BY Inductive, StreamInit, StreamStep, PTL DEF Spec, IsByteStream, Bs!Stream
=============================================================================
