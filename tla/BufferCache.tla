---------------------------- MODULE BufferCache -----------------------------
(***************************************************************************)
(* The buffer cache of xv6 (bio.c), the sleep locks it uses (sleeplock.c)  *)
(* and the IDE driver below it (ide.c), in xv6_dregmod/src.                *)
(*                                                                         *)
(* Processes read, change, write and release blocks, and may read a second *)
(* one while they have a first: the log copies from one to the other, bmap *)
(* and itrunc look at the bitmap while they have an indirect block.  No    *)
(* call of log.c or fs.c ever has three.  What runs under bcache.lock, a   *)
(* sleep lock's spin lock or idelock is one step, ideintr included.  sleep *)
(* gives its spin lock up atomically (module Proc); kill may wake a        *)
(* sleeper at any time.  The disk is external: it carries out one command  *)
(* at a time and then raises its interrupt.                                *)
(***************************************************************************)
EXTENDS Integers, Sequences, FiniteSets

CONSTANTS
  Procs, NoProc,  \* processes; "nobody"
  Blocks,         \* the block numbers that users ask for ...
  OnDisk,         \* ... and those of them that are below FSSIZE
  Nested,         \* <<j, k>>: block k is read by who already has block j
  NoBlock,        \* a buffer that has never been used (dev = 0), or "no block"
  Values, NoData, \* contents of a block; "no data"
  NBUF,           \* buffers of the cache (param.h)
  MaxPinned,      \* bound: blocks pinned by log_write and not yet written
  havedisk1,      \* ideinit found disk 1, which holds the file system
  DiskErrors      \* the outcomes of idewait(1): TRUE is an error

ASSUME BufferCacheAssumption ==
  /\ IsFiniteSet(Procs) /\ NoProc \notin Procs \X {1, 2}
  /\ NoBlock \notin Blocks
  /\ NoData \notin Values
  /\ NBUF \in Nat \ {0}
  /\ MaxPinned \in Nat
  /\ havedisk1 \in BOOLEAN /\ DiskErrors \subseteq BOOLEAN

\* <<p, 1>> is process p in its dealings with the first block it has, <<p, 2>>
\* with the second.
Users == Procs \X {1, 2}
Other(u) == <<u[1], 3 - u[2]>>

Bufs == 1..NBUF
NoBuf == 0
NoCmd == [blk |-> NoBlock, write |-> FALSE, data |-> NoData]

VARIABLES
  lru,            \* bcache.head.next, ...: the buffers, most recently used first
  blockno, refcnt, valid, dirty, data,  \* the fields of each struct buf
  owner,          \* b->lock: lk->locked, and lk->pid with which of its blocks it is
  idequeue,       \* the driver's queue; its head is the active request
  cmd, irq,       \* the disk: the command it has, its interrupt line
  disk,           \* the disk: its blocks
  pc, buf,        \* pc[u], buf[u]: where a process is with one of its blocks, and its b
  panicked        \* the message of a panic, or "no"

bcache == <<lru, blockno, refcnt>>
flags  == <<valid, dirty>>
ide    == <<idequeue, cmd, irq>>
vars   == <<bcache, flags, data, owner, ide, disk, pc, buf, panicked>>

\* binit inserts each buffer at the head of the list.
Init ==
  /\ lru = [i \in Bufs |-> NBUF + 1 - i]
  /\ blockno = [b \in Bufs |-> NoBlock]
  /\ refcnt = [b \in Bufs |-> 0]
  /\ valid = [b \in Bufs |-> FALSE] /\ dirty = [b \in Bufs |-> FALSE]
  /\ \E v \in Values : data = [b \in Bufs |-> v]
  /\ owner = [b \in Bufs |-> NoProc]
  /\ idequeue = <<>> /\ cmd = NoCmd /\ irq = FALSE
  /\ disk \in [Blocks -> Values]
  /\ pc = [u \in Users |-> "idle"] /\ buf = [u \in Users |-> NoBuf]
  /\ panicked = "no"

Goto(p, l) == pc' = [pc EXCEPT ![p] = l]

(***************************************************************************)
(* Sleep locks                                                             *)
(***************************************************************************)
holdingsleep(b, p) == owner[b] # NoProc /\ owner[b][1] = p[1]

\* wakeup(&b->lock) with p going on at l.
wakeup_lock(b, p, l) ==
  [q \in Users |-> IF q = p THEN l
                   ELSE IF pc[q] = "lock_asleep" /\ buf[q] = b THEN "lock" ELSE pc[q]]

acquiresleep(p) ==
  LET b == buf[p] IN
  /\ pc[p] = "lock"
  /\ IF owner[b] # NoProc
       THEN Goto(p, "lock_asleep") /\ UNCHANGED owner
       ELSE owner' = [owner EXCEPT ![b] = p] /\ Goto(p, "bread")
  /\ UNCHANGED <<bcache, flags, data, ide, disk, buf, panicked>>

(***************************************************************************)
(* bget, bread                                                             *)
(***************************************************************************)
Cached_OnlyInUse(k) == \E b \in Bufs : blockno[b] = k /\ refcnt[b] > 0  \* mutant
Cached(k) == \E b \in Bufs : blockno[b] = k

bget_hit(p, k) ==
  /\ pc[p] = "idle" /\ Cached(k)
  /\ LET b == lru[CHOOSE i \in Bufs :
                    blockno[lru[i]] = k /\ \A j \in 1..(i - 1) : blockno[lru[j]] # k] IN
     /\ refcnt' = [refcnt EXCEPT ![b] = @ + 1]
     /\ buf' = [buf EXCEPT ![p] = b]
  /\ Goto(p, "lock")
  /\ UNCHANGED <<lru, blockno, flags, data, owner, ide, disk, panicked>>

Recyclable(b) == refcnt[b] = 0 /\ ~dirty[b]

bget_recycle(p, k) ==
  /\ pc[p] = "idle" /\ ~Cached(k)
  /\ IF \E b \in Bufs : Recyclable(b)
       THEN LET b == lru[CHOOSE i \in Bufs :
                           Recyclable(lru[i]) /\ \A j \in (i + 1)..NBUF : ~Recyclable(lru[j])] IN
            /\ blockno' = [blockno EXCEPT ![b] = k]
            /\ valid' = [valid EXCEPT ![b] = FALSE]
            /\ dirty' = [dirty EXCEPT ![b] = FALSE]
            /\ refcnt' = [refcnt EXCEPT ![b] = 1]
            /\ buf' = [buf EXCEPT ![p] = b]
            /\ Goto(p, "lock")
            /\ UNCHANGED panicked
       ELSE panicked' = "bget: no buffers" /\ UNCHANGED <<bcache, flags, buf, pc>>
  /\ UNCHANGED <<lru, data, owner, ide, disk>>

\* bread: the buffer is locked; read it unless B_VALID is set.
bread(p) ==
  /\ pc[p] = "bread"
  /\ Goto(p, IF valid[buf[p]] THEN "have" ELSE "iderw")
  /\ UNCHANGED <<bcache, flags, data, owner, ide, disk, buf, panicked>>

(***************************************************************************)
(* The users: a process that has a block may change it, and writes what it *)
(* has changed with bwrite or has log_write pin it before it releases it.  *)
(***************************************************************************)
Modify(p, v) ==
  /\ pc[p] = "have"
  /\ data' = [data EXCEPT ![buf[p]] = v]
  /\ Goto(p, "changed")
  /\ UNCHANGED <<bcache, flags, owner, ide, disk, buf, panicked>>

Pinned == {b \in Bufs : dirty[b]}

log_write(p) ==
  /\ pc[p] = "changed"
  /\ Cardinality(Pinned \cup {buf[p]}) <= MaxPinned
  /\ dirty' = [dirty EXCEPT ![buf[p]] = TRUE]
  /\ Goto(p, "have")
  /\ UNCHANGED <<bcache, valid, data, owner, ide, disk, buf, panicked>>

bwrite(p) ==
  LET b == buf[p] IN
  /\ pc[p] \in {"have", "changed"}
  /\ IF holdingsleep(b, p)
       THEN dirty' = [dirty EXCEPT ![b] = TRUE] /\ Goto(p, "iderw") /\ UNCHANGED panicked
       ELSE panicked' = "bwrite" /\ UNCHANGED <<dirty, pc>>
  /\ UNCHANGED <<bcache, valid, data, owner, ide, disk, buf>>

brelse_unlock_NoWakeup(p) ==  \* mutant: releasesleep wakes nobody
  LET b == buf[p] IN
  /\ pc[p] = "have"
  /\ IF holdingsleep(b, p)
       THEN owner' = [owner EXCEPT ![b] = NoProc] /\ Goto(p, "brelse") /\ UNCHANGED panicked
       ELSE panicked' = "brelse" /\ UNCHANGED <<owner, pc>>
  /\ UNCHANGED <<bcache, flags, data, ide, disk, buf>>

\* brelse up to releasesleep; the reference is dropped in a second step.
brelse_unlock(p) ==
  LET b == buf[p] IN
  /\ pc[p] = "have"
  /\ IF holdingsleep(b, p)
       THEN /\ owner' = [owner EXCEPT ![b] = NoProc]
            /\ pc' = wakeup_lock(b, p, "brelse")
            /\ UNCHANGED panicked
       ELSE panicked' = "brelse" /\ UNCHANGED <<owner, pc>>
  /\ UNCHANGED <<bcache, flags, data, ide, disk, buf>>

\* The list with b taken out and put back at its head.
ToFront(b) ==
  LET at == CHOOSE i \in Bufs : lru[i] = b IN
  [i \in Bufs |-> IF i = 1 THEN b ELSE IF i <= at THEN lru[i - 1] ELSE lru[i]]

brelse_put(p) ==
  LET b == buf[p] IN
  /\ pc[p] = "brelse"
  /\ refcnt' = [refcnt EXCEPT ![b] = @ - 1]
  /\ lru' = IF refcnt[b] = 1 THEN ToFront(b) ELSE lru
  /\ buf' = [buf EXCEPT ![p] = NoBuf]
  /\ Goto(p, "idle")
  /\ UNCHANGED <<blockno, flags, data, owner, ide, disk, panicked>>

(***************************************************************************)
(* The IDE driver                                                          *)
(***************************************************************************)
idestart_Reads(b) ==  \* mutant: B_DIRTY is not looked at
  [blk |-> blockno[b], write |-> FALSE, data |-> NoData]

\* idestart(b): the command, with the data of a write, goes to the disk.
idestart(b) == [blk |-> blockno[b], write |-> dirty[b],
                data |-> IF dirty[b] THEN data[b] ELSE NoData]

idestart_panic(b) == IF blockno[b] \in OnDisk THEN "no" ELSE "incorrect blockno"

InSync(b) == valid[b] /\ ~dirty[b]

iderw(p) ==
  LET b == buf[p] IN
  /\ pc[p] = "iderw"
  /\ IF ~holdingsleep(b, p) \/ InSync(b) \/ ~havedisk1
       THEN /\ panicked' = IF ~holdingsleep(b, p) THEN "iderw: buf not locked"
                           ELSE IF InSync(b) THEN "iderw: nothing to do"
                           ELSE "iderw: ide disk 1 not present"
            /\ UNCHANGED <<ide, pc>>
       ELSE /\ idequeue' = Append(idequeue, b)
            /\ cmd' = IF idequeue = <<>> THEN idestart(b) ELSE cmd
            /\ panicked' = IF idequeue = <<>> THEN idestart_panic(b) ELSE panicked
            /\ Goto(p, "ide_asleep")
            /\ UNCHANGED irq
  /\ UNCHANGED <<bcache, flags, data, owner, disk, buf>>

iderw_woken_Once(p) ==  \* mutant: if for while
  /\ pc[p] = "ide_test"
  /\ Goto(p, "have")
  /\ UNCHANGED <<bcache, flags, data, owner, ide, disk, buf, panicked>>

\* Awake again in iderw, with idelock: done, or back to sleep.
iderw_woken(p) ==
  /\ pc[p] = "ide_test"
  /\ Goto(p, IF InSync(buf[p]) THEN "have" ELSE "ide_asleep")
  /\ UNCHANGED <<bcache, flags, data, owner, ide, disk, buf, panicked>>

wakeup_buf(b) ==
  [q \in Users |-> IF pc[q] = "ide_asleep" /\ buf[q] = b THEN "ide_test" ELSE pc[q]]

ideintr(err) ==
  /\ irq
  /\ irq' = FALSE
  /\ IF idequeue = <<>>
       THEN UNCHANGED <<flags, data, idequeue, cmd, pc, panicked>>
       ELSE LET b == Head(idequeue) IN
            /\ idequeue' = Tail(idequeue)
            /\ data' = IF dirty[b] \/ err THEN data ELSE [data EXCEPT ![b] = disk[cmd.blk]]
            /\ valid' = [valid EXCEPT ![b] = TRUE]
            /\ dirty' = [dirty EXCEPT ![b] = FALSE]
            /\ pc' = wakeup_buf(b)
            /\ cmd' = IF Tail(idequeue) = <<>> THEN NoCmd ELSE idestart(Head(Tail(idequeue)))
            /\ panicked' = IF Tail(idequeue) = <<>> THEN panicked ELSE idestart_panic(Head(Tail(idequeue)))
  /\ UNCHANGED <<bcache, owner, disk, buf>>

\* External: the disk carries out its command and interrupts.
DiskDone ==
  /\ cmd # NoCmd /\ ~irq
  /\ irq' = TRUE
  /\ disk' = IF cmd.write THEN [disk EXCEPT ![cmd.blk] = cmd.data] ELSE disk
  /\ UNCHANGED <<bcache, flags, data, owner, idequeue, cmd, pc, buf, panicked>>

\* kill() makes a sleeping process run and look again.
Kill(p) ==
  /\ pc[p] \in {"lock_asleep", "ide_asleep"}
  /\ Goto(p, IF pc[p] = "lock_asleep" THEN "lock" ELSE "ide_test")
  /\ UNCHANGED <<bcache, flags, data, owner, ide, disk, buf, panicked>>

\* A process does one thing at a time, and has at most one other block meanwhile.
MayRun(p) == pc[Other(p)] \in {"idle", "have", "changed"}

\* The first block is read with no other in hand, the second with the first.
MayRead(p, k) ==
  IF p[2] = 1 THEN pc[Other(p)] = "idle"
  ELSE pc[Other(p)] # "idle" /\ <<blockno[buf[Other(p)]], k>> \in Nested

Next ==
  /\ panicked = "no"
  /\ \/ \E p \in Users :
          /\ MayRun(p)
          /\ \/ \E k \in Blocks : MayRead(p, k) /\ (bget_hit(p, k) \/ bget_recycle(p, k))
             \/ \E v \in Values : Modify(p, v)
             \/ acquiresleep(p) \/ bread(p) \/ log_write(p) \/ bwrite(p)
             \/ brelse_unlock(p) \/ brelse_put(p)
             \/ iderw(p) \/ iderw_woken(p)
             \/ Kill(p)
     \/ DiskDone
     \/ \E err \in DiskErrors : ideintr(err)

Spec == Init /\ [][Next]_vars

-----------------------------------------------------------------------------
PCs == {"idle", "lock", "lock_asleep", "bread", "have", "changed", "brelse",
        "iderw", "ide_asleep", "ide_test"}

Panics == {"bget: no buffers", "bwrite", "brelse", "iderw: buf not locked", "iderw: nothing to do",
           "iderw: ide disk 1 not present", "incorrect blockno"}

TypeOK ==
  /\ lru \in [Bufs -> Bufs] /\ \A b \in Bufs : \E i \in Bufs : lru[i] = b
  /\ blockno \in [Bufs -> Blocks \cup {NoBlock}]
  /\ refcnt \in [Bufs -> 0..Cardinality(Users)]
  /\ valid \in [Bufs -> BOOLEAN] /\ dirty \in [Bufs -> BOOLEAN]
  /\ data \in [Bufs -> Values] /\ disk \in [Blocks -> Values]
  /\ owner \in [Bufs -> Users \cup {NoProc}]
  /\ idequeue \in Seq(Bufs) /\ irq \in BOOLEAN
  /\ cmd \in [blk : Blocks \cup {NoBlock}, write : BOOLEAN,
              data : Values \cup {NoData}]
  /\ pc \in [Users -> PCs] /\ buf \in [Users -> Bufs \cup {NoBuf}]
  /\ panicked \in Panics \cup {"no"}

Uses(p, k) ==
  /\ buf[p] # NoBuf /\ blockno[buf[p]] = k
  /\ \/ pc[p] \in {"have", "changed"}
     \/ pc[p] \in {"iderw", "ide_asleep", "ide_test"} /\ valid[buf[p]]

UserOf(k) == IF \E p \in Users : Uses(p, k) THEN CHOOSE p \in Users : Uses(p, k) ELSE NoProc

ContentOf(k) ==
  IF UserOf(k) # NoProc THEN data[buf[UserOf(k)]]
  ELSE IF \E b \in Bufs : blockno[b] = k /\ valid[b]
  THEN data[CHOOSE b \in Bufs : blockno[b] = k /\ valid[b]]
  ELSE disk[k]

(***************************************************************************)
(* bread gives "a locked buf with the contents of the indicated block"     *)
(* (bio.c:95) and "only one process at a time can use a buffer" (bio.c:12):*)
(* recycling, interrupts, kills and writes in flight included, a block has *)
(* one user at a time, who sees what the last one left (bio.c:69-90, 102). *)
(***************************************************************************)
Bst == INSTANCE BlockStore WITH Procs <- Users, content <- [k \in Blocks |-> ContentOf(k)],
                                                user <- [k \in Blocks |-> UserOf(k)]
IsBlockStore == Bst!Store

(***************************************************************************)
(* A block is in at most one buffer, and is not forgotten while somebody   *)
(* waits for it: refcnt counts the processes between bget and brelse,      *)
(* though brelse drops the lock first and the count later (bio.c:71, 126). *)
(***************************************************************************)
OneBufferPerBlock ==
  /\ \A b, c \in Bufs : blockno[b] = blockno[c] /\ b # c => blockno[b] = NoBlock
  /\ \A b \in Bufs : refcnt[b] = Cardinality({p \in Users : buf[p] = b})

(***************************************************************************)
(* A valid buffer that is neither dirty nor being changed by its user      *)
(* equals its block on the disk: recycling it loses nothing, and bwrite    *)
(* has written when it returns (bio.c:82, 114; ide.c:94-96, 118-123).      *)
(***************************************************************************)
CleanIsOnDisk ==
  \A b \in Bufs :
    InSync(b) /\ (\A p \in Users : ~(buf[p] = b /\ pc[p] = "changed")) =>
      data[b] = disk[blockno[b]]

(***************************************************************************)
(* No wakeup is lost: who sleeps for a lock sleeps for a held one, and who *)
(* sleeps for the disk has its buffer in the queue (sleeplock.c:26, 40;    *)
(* ide.c:124, 162).                                                        *)
(***************************************************************************)
SleeperHasWaker ==
  \A p \in Users :
    /\ pc[p] = "lock_asleep" => owner[buf[p]] \notin {NoProc, p}
    /\ pc[p] = "ide_asleep" => \E i \in 1..Len(idequeue) : idequeue[i] = buf[p]

(***************************************************************************)
(* Of the panics of bio.c and ide.c three are left, each for a reason that *)
(* is not in the code around it: more blocks are pinned and held, two by a *)
(* process, than NBUF (bio.c:92); there is no disk 1 (ide.c:147); somebody *)
(* asks for a block past the end of the disk (ide.c:79).  bwrite, brelse   *)
(* and iderw never find a buffer unlocked, or one with nothing to do       *)
(* (bio.c:113, 124; ide.c:143-145).                                        *)
(***************************************************************************)
NoPanic ==
  \/ panicked = "no"
  \/ panicked = "bget: no buffers" /\ NBUF < MaxPinned + 2 * Cardinality(Procs)
  \/ panicked = "iderw: ide disk 1 not present" /\ ~havedisk1
  \/ panicked = "incorrect blockno" /\ ~(Blocks \subseteq OnDisk)
=============================================================================
