--------------------------------- MODULE Log ---------------------------------
(***************************************************************************)
(* The write-ahead log of xv6 (xv6_dregmod/src/log.c): begin_op, log_write *)
(* and end_op by concurrent file system calls, group commit, recovery, and *)
(* a crash between any two disk writes, recovery included.                 *)
(*                                                                         *)
(* The parts of a call that run under log.lock are one step; a disk write  *)
(* of one block is one step.  The buffer cache appears as the content a    *)
(* block has in memory, the B_DIRTY bit that pins it and the sleep lock of *)
(* the call that is using the buffer.                                      *)
(***************************************************************************)
EXTENDS Integers, Sequences, FiniteSets

CONSTANTS
  Ops, NoOp,    \* the processes that make file system calls; "nobody"
  Blocks,       \* home blocks of the file system
  Values,       \* contents of a block
  NoBlock,      \* "no block"
  NotCached,    \* "the block is not in the buffer cache"
  MAXOPBLOCKS,  \* the blocks begin_op reserves for a file system call (param.h) ...
  OpBlocks,     \* ... and the most that one writes: seven in this repository
  LOGSIZE,      \* entries of a log header (param.h)
  NLOG          \* sb.nlog: blocks of the on-disk log, its header included

ASSUME LogAssumption ==
  /\ NoOp \notin Ops
  /\ NoBlock \notin Blocks
  /\ NotCached \notin Values
  /\ MAXOPBLOCKS \in Nat \ {0}
  /\ OpBlocks \in 1..MAXOPBLOCKS
  /\ LOGSIZE \in Nat /\ LOGSIZE >= MAXOPBLOCKS
  /\ NLOG \in Nat /\ NLOG >= 1

VARIABLES
  home,         \* disk: home[b]
  dlog,         \* disk: dlog[k], the k-th data block of the log
  dhead,        \* disk: the block numbers in the header block
  lh,           \* memory: log.lh, the block numbers logged so far
  outstanding, committing,  \* memory: log.outstanding, log.committing
  cache, dirty, holder,  \* memory: buffer contents, B_DIRTY, b->lock
  pc,           \* pc[o]: where each process is
  blk,          \* blk[o]: the block it is about to log
  used,         \* used[o]: the blocks its current call has written
  tail,         \* tail[o]: loop variable of write_log and install_trans
  boot, rtail,  \* recovery: "up", or where initlog is; its loop variable
  panicked

disk   == <<home, dlog, dhead>>
mem    == <<lh, outstanding, committing>>
bufs   == <<cache, dirty, holder>>
vars   == <<disk, mem, bufs, pc, blk, used, tail, boot, rtail, panicked>>

\* A disk made by mkfs: an empty log.
Init ==
  /\ home \in [Blocks -> Values]
  /\ \E v \in Values : dlog = [k \in 1..LOGSIZE |-> v]
  /\ dhead = <<>>
  /\ boot = "read" /\ rtail = 1
  /\ lh = <<>>
  /\ outstanding = 0 /\ committing = FALSE
  /\ cache = [b \in Blocks |-> NotCached]
  /\ dirty = [b \in Blocks |-> FALSE]
  /\ holder = [b \in Blocks |-> NoOp]
  /\ pc = [o \in Ops |-> "idle"]
  /\ used = [o \in Ops |-> {}]
  /\ tail = [o \in Ops |-> 1]
  /\ blk = [o \in Ops |-> NoBlock]
  /\ panicked = FALSE

Up == boot = "up" /\ ~panicked

Goto(o, l) == pc' = [pc EXCEPT ![o] = l]

\* What bread(b) returns.
bread(b) == IF cache[b] # NotCached THEN cache[b] ELSE home[b]

\* wakeup(&log) with o going on at l.
wakeup_log(o, l) ==
  pc' = [q \in Ops |-> IF q = o THEN l ELSE IF pc[q] = "asleep" THEN "begin" ELSE pc[q]]

(***************************************************************************)
(* begin_op                                                                *)
(***************************************************************************)
CallBegin(o) ==
  /\ Up /\ pc[o] = "idle"
  /\ Goto(o, "begin")
  /\ UNCHANGED <<disk, mem, bufs, blk, used, tail, boot, rtail, panicked>>

NoSpace_OneShort == Len(lh) + outstanding * MAXOPBLOCKS > LOGSIZE  \* mutant: +1 missing
NoSpace == Len(lh) + (outstanding + 1) * MAXOPBLOCKS > LOGSIZE

begin_op_NoCommitTest(o) ==  \* mutant: log.committing is not tested
  /\ Up /\ pc[o] = "begin"
  /\ IF NoSpace
       THEN Goto(o, "asleep") /\ UNCHANGED outstanding
       ELSE Goto(o, "run") /\ outstanding' = outstanding + 1
  /\ UNCHANGED <<disk, lh, committing, bufs, blk, used, tail, boot, rtail, panicked>>

begin_op(o) ==
  /\ Up /\ pc[o] = "begin"
  /\ IF committing \/ NoSpace
       THEN Goto(o, "asleep") /\ UNCHANGED outstanding
       ELSE Goto(o, "run") /\ outstanding' = outstanding + 1
  /\ UNCHANGED <<disk, lh, committing, bufs, blk, used, tail, boot, rtail, panicked>>

(***************************************************************************)
(* bread, modify, log_write, brelse.  log_write tests for space before it  *)
(* takes log.lock, so what it tests may be stale when it appends.          *)
(***************************************************************************)
LogWriteTest(o, b, v) ==
  LET full == Len(lh) >= LOGSIZE \/ Len(lh) >= NLOG - 1 IN
  /\ Up /\ pc[o] = "run"
  /\ holder[b] = NoOp
  /\ Cardinality(used[o] \cup {b}) <= OpBlocks
  /\ cache' = [cache EXCEPT ![b] = v]
  /\ holder' = [holder EXCEPT ![b] = o]
  /\ blk' = [blk EXCEPT ![o] = b]
  /\ panicked' = (full \/ outstanding < 1)
  /\ IF panicked' THEN UNCHANGED <<pc, used>>
     ELSE Goto(o, "log") /\ used' = [used EXCEPT ![o] = @ \cup {b}]
  /\ UNCHANGED <<disk, mem, dirty, tail, boot, rtail>>

Absorb(s, b) == IF \E k \in 1..Len(s) : s[k] = b THEN s ELSE Append(s, b)

log_write(o) ==
  /\ Up /\ pc[o] = "log"
  /\ lh' = Absorb(lh, blk[o])
  /\ dirty' = [dirty EXCEPT ![blk[o]] = TRUE]
  /\ holder' = [holder EXCEPT ![blk[o]] = NoOp]
  /\ blk' = [blk EXCEPT ![o] = NoBlock]
  /\ Goto(o, "run")
  /\ UNCHANGED <<disk, outstanding, committing, cache, used, tail, boot, rtail, panicked>>

\* bget recycles a buffer that nobody uses and that is not dirty.
Evict(b) ==
  /\ Up /\ cache[b] # NotCached
  /\ ~dirty[b] /\ holder[b] = NoOp
  /\ cache' = [cache EXCEPT ![b] = NotCached]
  /\ UNCHANGED <<disk, mem, dirty, holder, pc, blk, used, tail, boot, rtail, panicked>>

(***************************************************************************)
(* end_op: the last call commits.                                          *)
(***************************************************************************)
end_op(o) ==
  /\ Up /\ pc[o] = "run"
  /\ outstanding' = outstanding - 1
  /\ used' = [used EXCEPT ![o] = {}]
  /\ panicked' = committing
  /\ IF outstanding - 1 = 0
       THEN Goto(o, "commit") /\ committing' = TRUE
       ELSE wakeup_log(o, "idle") /\ UNCHANGED committing
  /\ UNCHANGED <<disk, lh, bufs, blk, tail, boot, rtail>>

commit_NoWriteLog(o) ==  \* mutant: the header is written without the blocks
  /\ Up /\ pc[o] = "commit"
  /\ Goto(o, IF lh = <<>> THEN "done" ELSE "write_head")
  /\ tail' = [tail EXCEPT ![o] = 1]
  /\ UNCHANGED <<disk, mem, bufs, blk, used, boot, rtail, panicked>>

commit(o) ==
  /\ Up /\ pc[o] = "commit"
  /\ Goto(o, IF lh = <<>> THEN "done" ELSE "write_log")
  /\ tail' = [tail EXCEPT ![o] = 1]
  /\ UNCHANGED <<disk, mem, bufs, blk, used, boot, rtail, panicked>>

\* One block copied from the cache to the log.  Past the end of the log the
\* write would hit the block after it: LogFits excludes that.
write_log(o) ==
  /\ Up /\ pc[o] = "write_log"
  /\ IF tail[o] <= Len(lh)
       THEN /\ dlog' = [dlog EXCEPT ![tail[o]] = bread(lh[tail[o]])]
            /\ tail' = [tail EXCEPT ![o] = @ + 1]
            /\ UNCHANGED pc
       ELSE Goto(o, "write_head") /\ UNCHANGED <<dlog, tail>>
  /\ UNCHANGED <<home, dhead, mem, bufs, blk, used, boot, rtail, panicked>>

write_head(o) ==
  /\ Up /\ pc[o] = "write_head"
  /\ dhead' = lh
  /\ tail' = [tail EXCEPT ![o] = 1]
  /\ Goto(o, "install")
  /\ UNCHANGED <<home, dlog, mem, bufs, blk, used, boot, rtail, panicked>>

\* bwrite(dbuf) stores the block and clears B_DIRTY.
install_trans(o) ==
  /\ Up /\ pc[o] = "install"
  /\ IF tail[o] <= Len(lh)
       THEN LET b == lh[tail[o]] IN
            /\ home' = [home EXCEPT ![b] = dlog[tail[o]]]
            /\ cache' = [cache EXCEPT ![b] = dlog[tail[o]]]
            /\ dirty' = [dirty EXCEPT ![b] = FALSE]
            /\ tail' = [tail EXCEPT ![o] = @ + 1]
            /\ UNCHANGED pc
       ELSE Goto(o, "clear") /\ UNCHANGED <<home, cache, dirty, tail>>
  /\ UNCHANGED <<dlog, dhead, mem, holder, blk, used, boot, rtail, panicked>>

ClearLog(o) ==
  /\ Up /\ pc[o] = "clear"
  /\ lh' = <<>>
  /\ dhead' = <<>>
  /\ Goto(o, "done")
  /\ UNCHANGED <<home, dlog, outstanding, committing, bufs, blk, used, tail, boot, rtail, panicked>>

EndCommit_NoWakeup(o) ==  \* mutant: wakeup(&log) is missing after the commit
  /\ Up /\ pc[o] = "done"
  /\ committing' = FALSE
  /\ tail' = [tail EXCEPT ![o] = 1]
  /\ Goto(o, "idle")
  /\ UNCHANGED <<disk, lh, outstanding, bufs, blk, used, boot, rtail, panicked>>

EndCommit(o) ==
  /\ Up /\ pc[o] = "done"
  /\ committing' = FALSE
  /\ tail' = [tail EXCEPT ![o] = 1]
  /\ wakeup_log(o, "idle")
  /\ UNCHANGED <<disk, lh, outstanding, bufs, blk, used, boot, rtail, panicked>>

(***************************************************************************)
(* A crash loses memory; initlog runs recover_from_log before any call.    *)
(***************************************************************************)
Crash ==
  /\ boot' = "read" /\ rtail' = 1
  /\ lh' = <<>> /\ outstanding' = 0 /\ committing' = FALSE
  /\ cache' = [b \in Blocks |-> NotCached]
  /\ dirty' = [b \in Blocks |-> FALSE]
  /\ holder' = [b \in Blocks |-> NoOp]
  /\ pc' = [o \in Ops |-> "idle"]
  /\ used' = [o \in Ops |-> {}]
  /\ tail' = [o \in Ops |-> 1]
  /\ blk' = [o \in Ops |-> NoBlock]
  /\ panicked' = FALSE
  /\ UNCHANGED disk

read_head ==
  /\ boot = "read"
  /\ lh' = dhead
  /\ boot' = "install"
  /\ UNCHANGED <<disk, outstanding, committing, bufs, pc, blk, used, tail, rtail, panicked>>

RecoverInstall ==
  /\ boot = "install"
  /\ IF rtail <= Len(lh)
       THEN /\ home' = [home EXCEPT ![lh[rtail]] = dlog[rtail]]
            /\ cache' = [cache EXCEPT ![lh[rtail]] = dlog[rtail]]
            /\ rtail' = rtail + 1
            /\ UNCHANGED boot
       ELSE boot' = "clear" /\ UNCHANGED <<home, cache, rtail>>
  /\ UNCHANGED <<dlog, dhead, mem, dirty, holder, pc, blk, used, tail, panicked>>

RecoverClear ==
  /\ boot = "clear"
  /\ lh' = <<>>
  /\ dhead' = <<>>
  /\ rtail' = 1
  /\ boot' = "up"
  /\ UNCHANGED <<home, dlog, outstanding, committing, bufs, pc, blk, used, tail, panicked>>

Recover == read_head \/ RecoverInstall \/ RecoverClear

Step(o) ==
  \/ begin_op(o) \/ log_write(o)
  \/ commit(o) \/ write_log(o) \/ write_head(o) \/ install_trans(o)
  \/ ClearLog(o) \/ EndCommit(o)

Next ==
  \/ \E o \in Ops :
       \/ CallBegin(o)
       \/ \E b \in Blocks, v \in Values : LogWriteTest(o, b, v)
       \/ end_op(o)
       \/ Step(o)
  \/ \E b \in Blocks : Evict(b)
  \/ Crash
  \/ Recover

Spec == Init /\ [][Next]_vars

-----------------------------------------------------------------------------
PCs == {"idle", "begin", "asleep", "run", "log", "commit", "write_log",
        "write_head", "install", "clear", "done"}
CommitPcs == {"commit", "write_log", "write_head", "install", "clear", "done"}

TypeOK ==
  /\ home \in [Blocks -> Values]
  /\ dlog \in [1..LOGSIZE -> Values]
  /\ dhead \in Seq(Blocks) /\ Len(dhead) <= LOGSIZE
  /\ lh \in Seq(Blocks) /\ Len(lh) <= LOGSIZE
  /\ outstanding \in Nat /\ committing \in BOOLEAN
  /\ cache \in [Blocks -> Values \cup {NotCached}]
  /\ dirty \in [Blocks -> BOOLEAN]
  /\ holder \in [Blocks -> Ops \cup {NoOp}]
  /\ pc \in [Ops -> PCs] /\ blk \in [Ops -> Blocks \cup {NoBlock}]
  /\ used \in [Ops -> SUBSET Blocks]
  /\ tail \in [Ops -> 1..(LOGSIZE + 1)]
  /\ rtail \in 1..(LOGSIZE + 1)
  /\ boot \in {"up", "read", "install", "clear"}
  /\ panicked \in BOOLEAN

\* The blocks as recovery would leave them if the machine crashed now.
Recovered ==
  [b \in Blocks |->
     IF \E k \in 1..Len(dhead) : dhead[k] = b
       THEN dlog[CHOOSE k \in 1..Len(dhead) : dhead[k] = b]
       ELSE home[b]]

Visible == IF boot = "up" THEN [b \in Blocks |-> bread(b)] ELSE Recovered

(***************************************************************************)
(* Crash safety: with a crash after any disk write, recovery included, the *)
(* file system holds the effect of whole calls, committed in groups while  *)
(* none is active: write_head is "the true point at which the current      *)
(* transaction commits" (log.c:98-100, 115-122, 192-202).                  *)
(***************************************************************************)
As == INSTANCE AtomicStore WITH durable <- Recovered, current <- Visible,
                                active <- outstanding
IsAtomicStore == As!Store

(***************************************************************************)
(* "The logging system only commits when there are no FS system calls      *)
(* active" (log.c:12-15), and one process at a time does it.               *)
(***************************************************************************)
CommitsAlone ==
  \A o \in Ops : pc[o] \in CommitPcs =>
    /\ outstanding = 0 /\ committing
    /\ \A q \in Ops \ {o} : pc[q] \in {"idle", "begin", "asleep"}

(***************************************************************************)
(* The space begin_op reserves is enough: log_write, which tests for space *)
(* before it takes log.lock, finds the log full only when every active     *)
(* call has written the MAXOPBLOCKS blocks it was granted.  (It panics     *)
(* then even if the block is one the call has already logged.)  So it does *)
(* not panic where calls write fewer blocks than that.                     *)
(* log.c:132, 218-229.                                                     *)
(***************************************************************************)
LogFits ==
  /\ Len(lh) <= NLOG - 1
  /\ panicked => \A o \in Ops : pc[o] \in {"run", "log"} => Cardinality(used[o]) = MAXOPBLOCKS

(***************************************************************************)
(* A process asleep in begin_op has somebody to wake it: a commit under    *)
(* way or a call that will end (log.c:130-134, 154-171).                   *)
(***************************************************************************)
SleeperHasWaker ==
  \A o \in Ops : pc[o] = "asleep" => committing \/ outstanding > 0

=============================================================================
