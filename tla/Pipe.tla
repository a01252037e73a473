--------------------------------- MODULE Pipe ---------------------------------
(***************************************************************************)
(* xv6 pipes (xv6_dregmod/src/pipe.c) with the reference counting of       *)
(* fileclose (file.c): processes that share both ends read, write and      *)
(* close them, sleep and wake each other, and may be killed at any point.  *)
(*                                                                         *)
(* sleep(chan, lk) is one step that releases the pipe's lock and puts the  *)
(* process to sleep, and wakeup(chan) one step: module Proc shows that     *)
(* ptable.lock makes them so.  Every byte is a step of its own.            *)
(***************************************************************************)
EXTENDS Integers, Sequences, FiniteSets

CONSTANTS
  Procs, NoProc,  \* the processes that share the pipe; "nobody"
  Bytes, NoByte,  \* what is written; "nothing read yet"
  PIPESIZE,
  UintMod,        \* nread and nwrite are unsigned and wrap at UintMod (2^32)
  Killable,       \* the processes that somebody may kill
  MaxN            \* bound: the largest n of a read or write

ASSUME PipeAssumption ==
  /\ NoProc \notin Procs
  /\ NoByte \notin Bytes
  /\ PIPESIZE \in Nat \ {0}
  /\ UintMod \in Nat /\ UintMod > PIPESIZE /\ UintMod % PIPESIZE = 0
  /\ Killable \subseteq Procs
  /\ MaxN \in Nat

VARIABLES
  data, nread, nwrite, readopen, writeopen,  \* struct pipe
  freed,     \* the page of the pipe is not allocated
  lock,      \* the process in the pipe's critical section
  rfd, wfd,  \* the processes that still have the read end, the write end open
  pc, i, n,  \* per process: where it is; locals of piperead and pipewrite
  killed,
  got, eof   \* history: the last byte read, and whether a read returned 0

pipe  == <<data, nread, nwrite, readopen, writeopen, freed>>
local == <<i, n, killed>>
hist  == <<got, eof>>
vars  == <<pipe, lock, rfd, wfd, pc, local, hist>>

PCs == {"idle", "w_lock", "w_loop", "w_sleep", "w_asleep",
        "r_lock", "r_loop", "r_sleep", "r_asleep", "r_copy", "cw_lock", "cr_lock"}

\* pipealloc, and the forks that shared the descriptors.  The page kalloc
\* returns is not cleared.
Init ==
  /\ data \in [0..(PIPESIZE - 1) -> Bytes]
  /\ nread = 0 /\ nwrite = 0
  /\ readopen = TRUE /\ writeopen = TRUE
  /\ freed = FALSE
  /\ lock = NoProc
  /\ rfd = Procs /\ wfd = Procs
  /\ pc = [u \in Procs |-> "idle"]
  /\ i = [u \in Procs |-> 0]
  /\ n = [u \in Procs |-> 0]
  /\ killed = [u \in Procs |-> FALSE]
  /\ got = NoByte /\ eof = FALSE

\* The page has been freed: whoever calls pipe() next may get it again, ...
NewPipe ==
  /\ freed /\ rfd = {} /\ wfd = {}
  /\ freed' = FALSE
  /\ readopen' = TRUE /\ writeopen' = TRUE
  /\ nread' = 0 /\ nwrite' = 0
  /\ rfd' = Procs /\ wfd' = Procs
  /\ killed' = [u \in Procs |-> FALSE]
  /\ got' = NoByte /\ eof' = FALSE
  /\ UNCHANGED <<data, lock, pc, i, n>>

\* ... or fail for want of a file or of a page, which leaves nothing behind.
pipealloc == NewPipe \/ (freed /\ rfd = {} /\ wfd = {} /\ UNCHANGED vars)

-----------------------------------------------------------------------------
Full_OffByOne == nwrite = (nread + PIPESIZE + 1) % UintMod  \* mutant: one byte too many
Full  == nwrite = (nread + PIPESIZE) % UintMod
Empty == nread = nwrite

Goto(u, l) == pc' = [pc EXCEPT ![u] = l]

\* acquire(&p->lock) by u, who goes on at l.
Acquire(u, from, l) ==
  /\ pc[u] = from /\ lock = NoProc
  /\ lock' = u
  /\ Goto(u, l)
  /\ UNCHANGED <<pipe, rfd, wfd, local, hist>>

\* pc after wakeup(chan): sleepers on chan go back to take the lock.
Woken(f, asleep, again) == [u \in Procs |-> IF f[u] = asleep THEN again ELSE f[u]]
wakeup_nread(f)  == Woken(f, "r_asleep", "r_lock")
wakeup_nwrite_Missing(f) == f  \* mutant: piperead wakes no writer
wakeup_nwrite(f) == Woken(f, "w_asleep", "w_lock")

\* release(&p->lock) and return to the caller.
Return(u, f) ==
  /\ lock' = NoProc
  /\ pc' = [f EXCEPT ![u] = "idle"]
  /\ i' = [i EXCEPT ![u] = 0]
  /\ n' = [n EXCEPT ![u] = 0]

(***************************************************************************)
(* pipewrite                                                               *)
(***************************************************************************)
CallWrite(u, k) ==
  /\ pc[u] = "idle" /\ u \in wfd /\ ~killed[u]
  /\ n' = [n EXCEPT ![u] = k]
  /\ Goto(u, "w_lock")
  /\ UNCHANGED <<pipe, lock, rfd, wfd, i, killed, hist>>

WriteByte(u, b) ==
  /\ pc[u] = "w_loop" /\ i[u] < n[u] /\ ~Full
  /\ data' = [data EXCEPT ![nwrite % PIPESIZE] = b]
  /\ nwrite' = (nwrite + 1) % UintMod
  /\ i' = [i EXCEPT ![u] = @ + 1]
  /\ UNCHANGED <<nread, readopen, writeopen, freed, lock, rfd, wfd, pc, n, killed, hist>>

WriteFull(u) ==
  /\ pc[u] = "w_loop" /\ i[u] < n[u] /\ Full
  /\ IF ~readopen \/ killed[u]
       THEN Return(u, pc)
       ELSE pc' = wakeup_nread([pc EXCEPT ![u] = "w_sleep"]) /\ UNCHANGED <<lock, i, n>>
  /\ UNCHANGED <<pipe, rfd, wfd, killed, hist>>

WriteSleep(u) ==
  /\ pc[u] = "w_sleep"
  /\ lock' = NoProc
  /\ Goto(u, "w_asleep")
  /\ UNCHANGED <<pipe, rfd, wfd, local, hist>>

WriteDone(u) ==
  /\ pc[u] = "w_loop" /\ i[u] = n[u]
  /\ Return(u, wakeup_nread(pc))
  /\ UNCHANGED <<pipe, rfd, wfd, killed, hist>>

(***************************************************************************)
(* piperead                                                                *)
(***************************************************************************)
CallRead(u, k) ==
  /\ pc[u] = "idle" /\ u \in rfd /\ ~killed[u]
  /\ n' = [n EXCEPT ![u] = k]
  /\ Goto(u, "r_lock")
  /\ UNCHANGED <<pipe, lock, rfd, wfd, i, killed, hist>>

ReadTest(u) ==
  /\ pc[u] = "r_loop"
  /\ \/ /\ Empty /\ writeopen /\ killed[u]
        /\ Return(u, pc)
     \/ /\ Empty /\ writeopen /\ ~killed[u]
        /\ Goto(u, "r_sleep") /\ UNCHANGED <<lock, i, n>>
     \/ /\ ~(Empty /\ writeopen)
        /\ Goto(u, "r_copy") /\ UNCHANGED <<lock, i, n>>
  /\ UNCHANGED <<pipe, rfd, wfd, killed, hist>>

ReadSleep(u) ==
  /\ pc[u] = "r_sleep"
  /\ lock' = NoProc
  /\ Goto(u, "r_asleep")
  /\ UNCHANGED <<pipe, rfd, wfd, local, hist>>

ReadByte(u) ==
  /\ pc[u] = "r_copy" /\ i[u] < n[u] /\ ~Empty
  /\ got' = data[nread % PIPESIZE]
  /\ nread' = (nread + 1) % UintMod
  /\ i' = [i EXCEPT ![u] = @ + 1]
  /\ UNCHANGED <<data, nwrite, readopen, writeopen, freed, lock, rfd, wfd, pc, n, killed, eof>>

ReadDone(u) ==
  /\ pc[u] = "r_copy" /\ (i[u] = n[u] \/ Empty)
  /\ eof' = (eof \/ (i[u] = 0 /\ n[u] > 0))
  /\ Return(u, wakeup_nwrite(pc))
  /\ UNCHANGED <<pipe, rfd, wfd, killed, got>>

(***************************************************************************)
(* fileclose: the last reference closes the end of the pipe it stands for. *)
(***************************************************************************)
CloseW(u) ==
  /\ pc[u] = "idle" /\ u \in wfd
  /\ wfd' = wfd \ {u}
  /\ Goto(u, IF wfd = {u} THEN "cw_lock" ELSE "idle")
  /\ UNCHANGED <<pipe, lock, rfd, local, hist>>

CloseR(u) ==
  /\ pc[u] = "idle" /\ u \in rfd
  /\ rfd' = rfd \ {u}
  /\ Goto(u, IF rfd = {u} THEN "cr_lock" ELSE "idle")
  /\ UNCHANGED <<pipe, lock, wfd, local, hist>>

pipecloseW_FreesAlways(u) ==  \* mutant: p->readopen is not consulted
  /\ pc[u] = "cw_lock" /\ lock = NoProc
  /\ writeopen' = FALSE
  /\ pc' = wakeup_nread([pc EXCEPT ![u] = "idle"])
  /\ freed' = TRUE
  /\ UNCHANGED <<data, nread, nwrite, readopen, lock, rfd, wfd, local, hist>>

\* pipeclose takes the lock, and lets it go before kfree.
pipecloseW(u) ==
  /\ pc[u] = "cw_lock" /\ lock = NoProc
  /\ writeopen' = FALSE
  /\ pc' = wakeup_nread([pc EXCEPT ![u] = "idle"])
  /\ freed' = ~readopen
  /\ UNCHANGED <<data, nread, nwrite, readopen, lock, rfd, wfd, local, hist>>


pipecloseR(u) ==
  /\ pc[u] = "cr_lock" /\ lock = NoProc
  /\ readopen' = FALSE
  /\ pc' = wakeup_nwrite([pc EXCEPT ![u] = "idle"])
  /\ freed' = ~writeopen
  /\ UNCHANGED <<data, nread, nwrite, writeopen, lock, rfd, wfd, local, hist>>

\* kill() by some other process: it takes ptable.lock, not the pipe's.
Kill(u) ==
  /\ u \in Killable /\ ~killed[u]
  /\ killed' = [killed EXCEPT ![u] = TRUE]
  /\ pc' = [pc EXCEPT ![u] = IF @ = "r_asleep" THEN "r_lock" ELSE
                             IF @ = "w_asleep" THEN "w_lock" ELSE @]
  /\ UNCHANGED <<pipe, lock, rfd, wfd, i, n, hist>>

\* The rest of a call that has begun.
InCall(u) ==
  \/ Acquire(u, "w_lock", "w_loop") \/ Acquire(u, "r_lock", "r_loop")
  \/ \E b \in Bytes : WriteByte(u, b)
  \/ WriteFull(u) \/ WriteSleep(u) \/ WriteDone(u)
  \/ ReadTest(u) \/ ReadSleep(u) \/ ReadByte(u) \/ ReadDone(u)
  \/ pipecloseW(u) \/ pipecloseR(u)

Next ==
  \/ pipealloc
  \/ \E u \in Procs :
       \/ \E k \in 1..MaxN : CallWrite(u, k) \/ CallRead(u, k)
       \/ InCall(u)
       \/ CloseW(u) \/ CloseR(u)
       \/ Kill(u)

Spec == Init /\ [][Next]_vars

\* A process inside a pipe call keeps executing; a spinning acquire that is
\* offered the lock again and again gets it.  Nobody has to call anything.
FairSpec == Spec /\ \A u \in Procs : SF_vars(InCall(u))

-----------------------------------------------------------------------------
TypeOK ==
  /\ data \in [0..(PIPESIZE - 1) -> Bytes]
  /\ nread \in 0..(UintMod - 1) /\ nwrite \in 0..(UintMod - 1)
  /\ readopen \in BOOLEAN /\ writeopen \in BOOLEAN /\ freed \in BOOLEAN
  /\ lock \in Procs \cup {NoProc}
  /\ rfd \subseteq Procs /\ wfd \subseteq Procs
  /\ pc \in [Procs -> PCs]
  /\ i \in [Procs -> 0..MaxN] /\ n \in [Procs -> 0..MaxN] /\ \A u \in Procs : i[u] <= n[u]
  /\ killed \in [Procs -> BOOLEAN]
  /\ got \in Bytes \cup {NoByte} /\ eof \in BOOLEAN

InFlight == (nwrite - nread) % UintMod

Queue == [k \in 1..InFlight |-> data[(nread + k - 1) % PIPESIZE]]

(***************************************************************************)
(* The pipe is a byte stream: the ring with its wrapping counters delivers *)
(* every byte in order, never holds more than PIPESIZE, and a read returns *)
(* 0 only at the end (pipe.c:85-94, 106-117).                              *)
(***************************************************************************)
Bs == INSTANCE ByteStream WITH Capacity <- PIPESIZE, queue <- Queue,
                               wopen <- writeopen, ropen <- readopen
IsByteStream == Bs!Stream

(***************************************************************************)
(* Nobody sleeps through what it waits for: while the lock is free a       *)
(* sleeping reader faces an empty pipe with a writer, and a sleeping       *)
(* writer a full pipe with a reader (pipe.c:65, 68, 90, 95, 118).  It      *)
(* holds until a process is killed: a killed writer leaves a full pipe     *)
(* without waking the readers (pipe.c:86-88).                              *)
(***************************************************************************)
NoLostWakeup ==
  lock = NoProc /\ (\A u \in Procs : ~killed[u]) =>
    \A u \in Procs : /\ pc[u] = "r_asleep" => Empty /\ writeopen
                     /\ pc[u] = "w_asleep" => Full /\ readopen

(***************************************************************************)
(* The page is freed only when no process is in a call on the pipe or has  *)
(* a descriptor for it (pipe.c:70-72, file.c:64-74).                       *)
(***************************************************************************)
NoUseAfterFree ==
  freed => rfd = {} /\ wfd = {} /\ lock = NoProc /\ \A u \in Procs : pc[u] = "idle"

(***************************************************************************)
(* "Wake process from sleep if necessary" (proc.c:488): a killed process   *)
(* leaves the read or write it is in.                                      *)
(***************************************************************************)
KilledLeaves == \A u \in Procs : killed[u] ~> pc[u] = "idle"
=============================================================================
