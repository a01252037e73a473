----------------------------- MODULE ProcProofs -----------------------------
(* Proofs about Proc for any CPUs, process table, system calls and clock. *)
EXTENDS Proc, TLAPS, FiniteSetTheorems

(***************************************************************************)
(* The inductive invariant.                                                *)
(*                                                                         *)
(* CpuInv: the scheduler of a CPU has a process exactly between swtch and  *)
(* switchkvm.  LockInv: ptable.lock is held by the CPU that is in one of   *)
(* the sections under it, on whatever thread.  TickInv: the same for       *)
(* tickslock, which only TickCpu takes in an interrupt.                    *)
(***************************************************************************)
LockPcs == SchedPcs \cup {"forkret", "w_scan", "w_slept", "s_slept", "y_back"}
TickPcs == {"s_test", "s_sleep"}

InSection(c) ==
  \/ cpu[c].spc = "scan"
  \/ cpu[c].spc = "swtch" /\ cpu[c].sp = Nil
  \/ cpu[c].sp # Nil /\ thr[cpu[c].sp].pc \in LockPcs

CpuInv ==
  \A c \in CPUs :
    /\ cpu[c].spc = "swtch" <=> cpu[c].proc # Nil
    /\ cpu[c].cr3 = cpu[c].proc /\ cpu[c].sp \in {Nil, cpu[c].proc}
    /\ cpu[c].spc = "swtch" => cpu[c].i = cpu[c].proc

LockInv == \A c \in CPUs : lock = c <=> InSection(c)

TickInv ==
  \A c \in CPUs :
    /\ cpu[c].ipc # "none" =>
         /\ c = TickCpu
         /\ IF cpu[c].sp = Nil THEN cpu[c].spc = "idle" ELSE thr[cpu[c].sp].pc \in NoLockPcs
    /\ tlock = c <=> \/ cpu[c].ipc \in {"wakeup", "release"}
                     \/ cpu[c].sp # Nil /\ thr[cpu[c].sp].pc \in TickPcs

(***************************************************************************)
(* What the state of a process says of its thread: on a CPU, where it is   *)
(* RUNNING until it has said otherwise, and off it.                        *)
(***************************************************************************)
OnOk(p) ==
  \/ ptable[p].state = "RUNNING" /\ thr[p].pc \notin SchedPcs \cup {"none", "dead"}
  \/ ptable[p].state = "ZOMBIE" /\ thr[p].pc = "e_sched"
  \/ ptable[p].state = "SLEEPING" /\ thr[p].pc \in {"w_sched", "s_sched"}
  \/ ptable[p].state = "RUNNABLE" /\ thr[p].pc = "y_sched"

OffOk(p) ==
  \/ ptable[p].state \in {"UNUSED", "EMBRYO"} /\ thr[p].pc = "none"
  \/ ptable[p].state = "RUNNABLE" /\ thr[p].pc \in {"forkret", "y_back", "w_slept", "s_slept"}
  \/ ptable[p].state = "SLEEPING" /\ thr[p].pc \in {"w_slept", "s_slept"}
  \/ ptable[p].state = "ZOMBIE" /\ thr[p].pc = "dead"

OnCpu(p) == \E c \in CPUs : cpu[c].sp = p

ThreadInv ==
  \A p \in Procs :
    /\ IF OnCpu(p) THEN OnOk(p) ELSE OffOk(p)
    /\ thr[p].ypc # "none" <=> thr[p].pc \in {"y_sched", "y_back"}

(***************************************************************************)
(* Where a process is in its system call, a yield in the middle of it put  *)
(* aside.  ForkInv: a fork under way owns one EMBRYO, and has given it     *)
(* what it says it has.                                                    *)
(***************************************************************************)
At(p) == IF thr[p].pc \in {"y_sched", "y_back"} THEN thr[p].ypc ELSE thr[p].pc

ForkPcs == {"f_kstack", "f_copy", "f_run"}

ForkOk(p) ==
  LET np == thr[p].np IN
  IF At(p) \in ForkPcs
    THEN /\ np \in Procs /\ ptable[np].state = "EMBRYO"
         /\ At(p) \in {"f_copy", "f_run"} => ptable[np].kstack
         /\ At(p) \in {"f_kstack", "f_copy"} => ptable[np].parent = Nil
         /\ At(p) = "f_run" => ptable[np].pgdir /\ ptable[np].parent = p
    ELSE np = Nil

ForkInv ==
  /\ \A p \in Procs : ForkOk(p)
  /\ \A p, q \in Procs : thr[p].np = thr[q].np /\ thr[p].np # Nil => p = q

\* A process that is more than an EMBRYO has its stack and its page table, and
\* so has the one in c->proc, which its parent must not reap before switchkvm.
MemoryInv ==
  /\ \A p \in Procs : ptable[p].state \notin {"UNUSED", "EMBRYO"} => ptable[p].kstack /\ ptable[p].pgdir
  /\ \A c \in CPUs : cpu[c].proc # Nil => ptable[cpu[c].proc].state \notin {"UNUSED", "EMBRYO"}

\* Parents and children: ParentCanReap and WaiterHasReason hold under ptable.lock
\* too; a slot that is given to a child has no parent left in it.
Alive == {"RUNNABLE", "RUNNING", "SLEEPING"}

FamilyInv ==
  /\ ptable[initproc].parent = Nil /\ ptable[initproc].state \in Alive
  /\ \A p \in Procs : ptable[p].parent # p
  /\ \A p \in Procs : ptable[p].state = "UNUSED" => ptable[p].parent = Nil
  /\ \A p \in Procs \ {initproc} : ptable[p].state \notin {"UNUSED", "EMBRYO"} =>
       ptable[p].parent # Nil /\ ptable[ptable[p].parent].state \in Alive

WaitInv ==
  \A p \in Procs : ptable[p].state = "SLEEPING" /\ ptable[p].chan = p =>
    Children(p) # {} /\ Zombies(p) = {} /\ ~ptable[p].killed

\* A process that is going to sleep until a tick, or does, is not due, or the
\* clock is about to wake it.
SleepInv ==
  \A p \in Procs :
    /\ thr[p].pc = "s_sleep" => Elapsed(p) < SleepTicks
    /\ ptable[p].state = "SLEEPING" /\ ptable[p].chan = Ticks =>
         Elapsed(p) < SleepTicks \/ cpu[TickCpu].ipc = "wakeup"

\* Only a killed init panics.
PanicInv ==
  /\ ptable[initproc].pid = 1
  /\ At(initproc) = "exit" \/ panicked => ptable[initproc].killed
  /\ 1 \notin KillPids => ~ptable[initproc].killed

\* Those that tested nextpid against MaxPid and have not yet taken a pid.
Forking == {p \in Procs : At(p) = "fork"}
PidInv  == nextpid + Cardinality(Forking) <= MaxPid + NPROC + 1

IInv == /\ TypeOK /\ CpuInv /\ LockInv /\ TickInv /\ OneCpuPerStack /\ ThreadInv /\ ForkInv
        /\ MemoryInv /\ FamilyInv /\ WaitInv /\ SleepInv /\ PanicInv /\ PidInv

-----------------------------------------------------------------------------
(***************************************************************************)
(* What the steps do, slot by slot and CPU by CPU.                         *)
(***************************************************************************)
\* Processes are not the null pointer, nor a channel of the clock.
LEMMA Slots ==
  /\ \A p \in Procs : p # Nil /\ p # Ticks
  /\ Ticks # Nil /\ initproc \in Procs /\ initproc # Nil /\ NoCpu \notin CPUs /\ TickCpu \in CPUs
  /\ \A p \in Procs : p \in 1..(NPROC + 1) /\ p + 1 \in 1..(NPROC + 1)
BY ProcAssumption DEF Procs, Nil, Ticks, initproc

\* The thread p executes on c, with no interrupt under way.
Runs(c, p) == cpu[c].sp = p /\ p \in Procs /\ p # Nil /\ cpu[c].ipc = "none" /\ ~panicked

\* The thread p, and no other, goes to l.
Moves(p, l) ==
  /\ thr'[p].pc = l /\ thr'[p].np = thr[p].np /\ thr'[p].ticks0 = thr[p].ticks0 /\ thr'[p].ypc = thr[p].ypc
  /\ \A q \in Procs \ {p} : thr'[q] = thr[q]

\* The slots of the process table other than p, and the CPUs other than c, stay as they are.
TableBut(p) == \A q \in Procs \ {p} : ptable'[q] = ptable[q]
CpusBut(c)  == \A d \in CPUs \ {c} : cpu'[d] = cpu[d]

\* The thread that On names.
LEMMA OnRuns == ASSUME NEW c \in CPUs, NEW p \in Procs \cap {cpu[c].sp}, On(c, p) PROVE Runs(c, p)
BY Slots DEF On, Runs

\* The places of a thread.
LEMMA Places ==
  /\ NoLockPcs \subseteq PCs /\ SchedPcs \subseteq PCs
  /\ {"none", "dead", "forkret", "w_scan", "w_slept", "s_test", "s_sleep", "s_slept", "y_back"} \subseteq PCs
  /\ {"user", "ret", "fork", "f_kstack", "f_copy", "f_run", "exit", "wait", "kill", "sleep", "s_relock"}
       \subseteq PCs
  /\ "y_sched" \in PCs /\ "w_sched" \in PCs /\ "s_sched" \in PCs /\ "e_sched" \in PCs
BY DEF PCs, NoLockPcs, SchedPcs

\* The states of a process.
LEMMA StatesAre ==
  {"UNUSED", "EMBRYO", "SLEEPING", "RUNNABLE", "RUNNING", "ZOMBIE"} \subseteq States
BY DEF States

\* Goto changes one thread's pc.
LEMMA GotoIs ==
  ASSUME TypeOK, NEW p \in Procs, NEW l \in PCs, Goto(p, l)
  PROVE  thr' \in [Procs -> ThreadType] /\ Moves(p, l)
BY DEF TypeOK, Goto, ThreadType, Moves

\* A field of a slot is in its type.
LEMMA SlotType ==
  ASSUME TypeOK, NEW p \in Procs
  PROVE  /\ ptable[p].state \in States /\ ptable[p].pid \in 0..(MaxPid + NPROC)
         /\ ptable[p].parent \in Procs \cup {Nil} /\ ptable[p].killed \in BOOLEAN
         /\ ptable[p].chan \in Procs \cup {Nil, Ticks} /\ ptable[p].kstack \in BOOLEAN
         /\ ptable[p].pgdir \in BOOLEAN
         /\ thr[p].pc \in PCs /\ thr[p].np \in Procs \cup {Nil} /\ thr[p].ticks0 \in 0..(TickMod - 1)
         /\ thr[p].ypc \in NoLockPcs \cup {"none"}
BY DEF TypeOK, ProcType, ThreadType

\* A field of a CPU is in its type.
LEMMA CpuIs ==
  ASSUME TypeOK, NEW c \in CPUs
  PROVE  /\ cpu[c].proc \in Procs \cup {Nil} /\ cpu[c].sp \in Procs \cup {Nil} /\ cpu[c].cr3 \in Procs \cup {Nil}
         /\ cpu[c].spc \in {"idle", "scan", "swtch"} /\ cpu[c].i \in 1..(NPROC + 1)
         /\ cpu[c].ipc \in {"none", "wakeup", "release", "tail"}
BY DEF TypeOK, CpuType

\* What a step leaves in the slot q, in the thread p and on the CPU c, and nowhere else.
Slot(q, st, pid, pa, ki, ch, ks, pg) ==
  /\ ptable'[q].state = st /\ ptable'[q].pid = pid /\ ptable'[q].parent = pa /\ ptable'[q].killed = ki
  /\ ptable'[q].chan = ch /\ ptable'[q].kstack = ks /\ ptable'[q].pgdir = pg
  /\ TableBut(q)

Local(p, pc, np, t0, y) ==
  /\ thr'[p].pc = pc /\ thr'[p].np = np /\ thr'[p].ticks0 = t0 /\ thr'[p].ypc = y
  /\ \A q \in Procs \ {p} : thr'[q] = thr[q]

Processor(c, proc, sp, cr3, spc, i, ipc) ==
  /\ cpu'[c].proc = proc /\ cpu'[c].sp = sp /\ cpu'[c].cr3 = cr3 /\ cpu'[c].spc = spc /\ cpu'[c].i = i
  /\ cpu'[c].ipc = ipc
  /\ CpusBut(c)

\* Only the state of the slot q changes.
SetState(q, st) ==
  Slot(q, st, ptable[q].pid, ptable[q].parent, ptable[q].killed, ptable[q].chan, ptable[q].kstack,
       ptable[q].pgdir)

\* A set of processes that is not empty has a first one.
LEMMA FirstIs == ASSUME NEW S \in SUBSET Procs, S # {} PROVE Min(S) \in S
<1>1. S \subseteq Nat
  BY DEF Procs
<1>2. \E x \in S : \A y \in S : ~(<<y, x>> \in OpToRel(<, Nat))
  BY <1>1, NatLessThanWellFounded, WFMin
<1>3. \A x, y \in S : ~(<<y, x>> \in OpToRel(<, Nat)) => x <= y
  BY <1>1 DEF OpToRel
<1> QED
  BY <1>2, <1>3 DEF Min

\* Threads that stay at their step but for the system call they enter or leave.
LEMMA SyscallIs ==
  ASSUME TypeOK, NEW c \in CPUs, NEW p \in Procs \cap {cpu[c].sp}, NEW call \in Calls, Syscall(c, p, call)
  PROVE  /\ Runs(c, p) /\ thr[p].pc = "user" /\ call \in {"fork", "exit", "wait", "kill", "sleep"}
         /\ p = initproc => call \in {"fork", "wait"}
         /\ call = "fork" => nextpid <= MaxPid
         /\ Moves(p, IF ptable[p].killed THEN "exit" ELSE call) /\ thr' \in [Procs -> ThreadType]
         /\ UNCHANGED <<ptable, cpu, lock, tlock, ticks, nextpid, panicked>>
<1>1. call \in {"fork", "exit", "wait", "kill", "sleep"}
  BY ProcAssumption
<1>2. (IF ptable[p].killed THEN "exit" ELSE call) \in PCs
  BY <1>1 DEF PCs, NoLockPcs
<1> QED
  BY <1>1, <1>2, OnRuns, GotoIs DEF Syscall, Program

\* The end of a system call: a killed process goes on to exit.
LEMMA SysretIs ==
  ASSUME TypeOK, NEW c \in CPUs, NEW p \in Procs \cap {cpu[c].sp}, Sysret(c, p)
  PROVE  /\ Runs(c, p) /\ thr[p].pc = "ret" /\ thr' \in [Procs -> ThreadType]
         /\ Moves(p, IF ptable[p].killed THEN "exit" ELSE "user")
         /\ UNCHANGED <<ptable, cpu, lock, tlock, ticks, nextpid, panicked>>
<1>1. (IF ptable[p].killed THEN "exit" ELSE "user") \in PCs
  BY DEF PCs, NoLockPcs
<1> QED
  BY <1>1, OnRuns, GotoIs DEF Sysret

\* fork claims a slot ...
Claims(p, np) ==
  /\ ptable[np].state = "UNUSED" /\ nextpid' = nextpid + 1
  /\ Slot(np, "EMBRYO", nextpid, ptable[np].parent, ptable[np].killed, ptable[np].chan,
          ptable[np].kstack, ptable[np].pgdir)
  /\ Local(p, "f_kstack", np, thr[p].ticks0, thr[p].ypc)
  /\ nextpid \in 0..(MaxPid + NPROC) => ptable' \in [Procs -> ProcType]

\* allocproc claims the first UNUSED slot, or fork fails.
LEMMA AllocprocIs ==
  ASSUME TypeOK, NEW c \in CPUs, NEW p \in Procs \cap {cpu[c].sp}, allocproc(c, p)
  PROVE  /\ Runs(c, p) /\ thr[p].pc = "fork" /\ lock = NoCpu /\ thr' \in [Procs -> ThreadType]
         /\ UNCHANGED <<cpu, lock, tlock, ticks, panicked>>
         /\ \/ Moves(p, "ret") /\ UNCHANGED <<ptable, nextpid>>
            \/ \E np \in Procs : Claims(p, np)
<1>1. Runs(c, p) /\ thr[p].pc = "fork" /\ lock = NoCpu /\ UNCHANGED <<cpu, lock, tlock, ticks, panicked>>
  BY OnRuns DEF allocproc, acquire_ptable
<1>2. CASE Unused = {}
  BY <1>1, <1>2, GotoIs DEF allocproc, PCs, NoLockPcs
<1>3. CASE Unused # {}
  <2>1. PICK np \in Unused : np = Min(Unused)
    BY <1>3, FirstIs DEF Unused
  <2>2. /\ ptable' = [ptable EXCEPT ![np].state = "EMBRYO", ![np].pid = nextpid]
        /\ nextpid' = nextpid + 1
        /\ thr' = [thr EXCEPT ![p].np = np, ![p].pc = "f_kstack"]
    BY <1>3, <2>1 DEF allocproc
  <2>3. np \in Procs /\ ptable[np].state = "UNUSED"
    BY <2>1 DEF Unused
  <2>4. Slot(np, "EMBRYO", nextpid, ptable[np].parent, ptable[np].killed, ptable[np].chan,
             ptable[np].kstack, ptable[np].pgdir)
    BY <2>2, <2>3 DEF Slot, TableBut, TypeOK, ProcType
  <2>5. Local(p, "f_kstack", np, thr[p].ticks0, thr[p].ypc)
    BY <2>2, <2>3 DEF Local, TypeOK, ThreadType
  <2>6. thr' \in [Procs -> ThreadType]
    <3>1. "f_kstack" \in PCs
      BY Places
    <3> QED
      BY ZenonT(60), <2>2, <2>3, <3>1 DEF TypeOK, ThreadType
  <2>7. nextpid \in 0..(MaxPid + NPROC) => ptable' \in [Procs -> ProcType]
    <3>1. "EMBRYO" \in States
      BY StatesAre
    <3>2. ASSUME NEW r \in ProcType, NEW k \in 0..(MaxPid + NPROC)
          PROVE  [r EXCEPT !.state = "EMBRYO", !.pid = k] \in ProcType
      BY <3>1 DEF ProcType
    <3>3. ptable[np] \in ProcType
      BY <2>3 DEF TypeOK
    <3>4. ptable' = [ptable EXCEPT ![np] = [ptable[np] EXCEPT !.state = "EMBRYO", !.pid = nextpid]]
      BY <2>2, <2>3 DEF TypeOK
    <3> QED
      BY <3>2, <3>3, <3>4 DEF TypeOK
  <2> QED
    BY <1>1, <2>2, <2>3, <2>4, <2>5, <2>6, <2>7 DEF Claims
<1> QED
  BY <1>2, <1>3

\* The first thing a child does is to let go of the lock its scheduler holds.
LEMMA ForkretIs ==
  ASSUME TypeOK, NEW c \in CPUs, NEW p \in Procs \cap {cpu[c].sp}, forkret(c, p)
  PROVE  /\ Runs(c, p) /\ thr[p].pc = "forkret" /\ lock' = NoCpu
         /\ Moves(p, "ret") /\ thr' \in [Procs -> ThreadType]
         /\ UNCHANGED <<ptable, cpu, tlock, ticks, nextpid, panicked>>
BY OnRuns, GotoIs, Places DEF forkret, acquire_ptable

\* wait takes the lock.
LEMMA WaitLockIs ==
  ASSUME TypeOK, NEW c \in CPUs, NEW p \in Procs \cap {cpu[c].sp}, WaitLock(c, p)
  PROVE  /\ Runs(c, p) /\ thr[p].pc = "wait" /\ lock = NoCpu /\ lock' = c
         /\ Moves(p, "w_scan") /\ thr' \in [Procs -> ThreadType]
         /\ UNCHANGED <<ptable, cpu, tlock, ticks, nextpid, panicked>>
BY OnRuns, GotoIs, Places DEF WaitLock, acquire_ptable

\* A woken sleeper takes tickslock again.
LEMMA SleepRelockIs ==
  ASSUME TypeOK, NEW c \in CPUs, NEW p \in Procs \cap {cpu[c].sp}, SleepRelock(c, p)
  PROVE  /\ Runs(c, p) /\ thr[p].pc = "s_relock" /\ tlock = NoCpu /\ tlock' = c
         /\ Moves(p, "s_test") /\ thr' \in [Procs -> ThreadType]
         /\ UNCHANGED <<ptable, cpu, lock, ticks, nextpid, panicked>>
BY OnRuns, GotoIs, Places DEF SleepRelock, acquire_ptable

\* A sleeper that goes on forgets its channel.
LEMMA WaitAwakeIs ==
  ASSUME TypeOK, NEW c \in CPUs, NEW p \in Procs \cap {cpu[c].sp}, WaitAwake(c, p)
  PROVE  /\ Runs(c, p) /\ thr[p].pc = "w_slept"
         /\ Moves(p, "w_scan") /\ thr' \in [Procs -> ThreadType]
         /\ Slot(p, ptable[p].state, ptable[p].pid, ptable[p].parent, ptable[p].killed, Nil,
                 ptable[p].kstack, ptable[p].pgdir)
         /\ ptable' \in [Procs -> ProcType]
         /\ UNCHANGED <<cpu, lock, tlock, ticks, nextpid, panicked>>
<1>1. ptable' = [ptable EXCEPT ![p].chan = Nil]
  BY DEF WaitAwake
<1>2. ptable' \in [Procs -> ProcType]
  BY <1>1 DEF TypeOK, ProcType
<1>3. Slot(p, ptable[p].state, ptable[p].pid, ptable[p].parent, ptable[p].killed, Nil,
           ptable[p].kstack, ptable[p].pgdir)
  BY <1>1 DEF Slot, TableBut, TypeOK, ProcType
<1> QED
  BY <1>2, <1>3, OnRuns, GotoIs, Places DEF WaitAwake

\* A sleeper that goes on forgets its channel.
LEMMA SleepAwakeIs ==
  ASSUME TypeOK, NEW c \in CPUs, NEW p \in Procs \cap {cpu[c].sp}, SleepAwake(c, p)
  PROVE  /\ Runs(c, p) /\ thr[p].pc = "s_slept" /\ lock' = NoCpu
         /\ Moves(p, "s_relock") /\ thr' \in [Procs -> ThreadType]
         /\ Slot(p, ptable[p].state, ptable[p].pid, ptable[p].parent, ptable[p].killed, Nil,
                 ptable[p].kstack, ptable[p].pgdir)
         /\ ptable' \in [Procs -> ProcType]
         /\ UNCHANGED <<cpu, tlock, ticks, nextpid, panicked>>
<1>1. ptable' = [ptable EXCEPT ![p].chan = Nil]
  BY DEF SleepAwake
<1>2. ptable' \in [Procs -> ProcType]
  BY <1>1 DEF TypeOK, ProcType
<1>3. Slot(p, ptable[p].state, ptable[p].pid, ptable[p].parent, ptable[p].killed, Nil,
           ptable[p].kstack, ptable[p].pgdir)
  BY <1>1 DEF Slot, TableBut, TypeOK, ProcType
<1> QED
  BY <1>2, <1>3, OnRuns, GotoIs, Places DEF SleepAwake

\* ForkFail undoes a fork.
LEMMA ForkFailIs ==
  ASSUME TypeOK, NEW p \in Procs, NEW np \in Procs, np = thr[p].np, ForkFail(p)
  PROVE  /\ Slot(np, "UNUSED", ptable[np].pid, ptable[np].parent, ptable[np].killed, ptable[np].chan,
                 FALSE, FALSE)
         /\ Local(p, "ret", Nil, thr[p].ticks0, thr[p].ypc)
         /\ thr' \in [Procs -> ThreadType] /\ ptable' \in [Procs -> ProcType]
<1>1. /\ ptable' = [ptable EXCEPT ![np].state = "UNUSED", ![np].kstack = FALSE, ![np].pgdir = FALSE]
      /\ thr' = [thr EXCEPT ![p].np = Nil, ![p].pc = "ret"]
  BY DEF ForkFail
<1>2. "ret" \in PCs /\ "UNUSED" \in States
  BY Places, StatesAre
<1>3. thr' \in [Procs -> ThreadType] /\ Local(p, "ret", Nil, thr[p].ticks0, thr[p].ypc)
  BY ZenonT(60), <1>1, <1>2 DEF TypeOK, ThreadType, Local
<1>4. ptable' \in [Procs -> ProcType]
  BY SMTT(60), <1>1, <1>2 DEF TypeOK, ProcType
<1>5. Slot(np, "UNUSED", ptable[np].pid, ptable[np].parent, ptable[np].killed, ptable[np].chan, FALSE, FALSE)
  BY <1>1 DEF Slot, TableBut, TypeOK, ProcType
<1> QED
  BY <1>3, <1>4, <1>5

\* ... and gets memory for it or gives it back.
LEMMA ForkKstackIs ==
  ASSUME TypeOK, NEW c \in CPUs, NEW p \in Procs \cap {cpu[c].sp}, ForkKstack(c, p),
         NEW np \in Procs, np = thr[p].np
  PROVE  /\ Runs(c, p) /\ thr[p].pc = "f_kstack"
         /\ thr' \in [Procs -> ThreadType] /\ ptable' \in [Procs -> ProcType]
         /\ \/ /\ Slot(np, ptable[np].state, ptable[np].pid, ptable[np].parent, ptable[np].killed, ptable[np].chan,
                 TRUE, ptable[np].pgdir)
               /\ Moves(p, "f_copy")
            \/ /\ Slot(np, "UNUSED", ptable[np].pid, ptable[np].parent, ptable[np].killed, ptable[np].chan,
                       FALSE, FALSE)
               /\ Local(p, "ret", Nil, thr[p].ticks0, thr[p].ypc)
         /\ UNCHANGED <<cpu, lock, tlock, ticks, nextpid, panicked>>
<1>1. Runs(c, p) /\ thr[p].pc = "f_kstack" /\ UNCHANGED <<cpu, lock, tlock, ticks, nextpid, panicked>>
  BY OnRuns DEF ForkKstack
<1>2. CASE ForkFail(p)
  BY <1>1, <1>2, ForkFailIs
<1>3. CASE ptable' = [ptable EXCEPT ![thr[p].np].kstack = TRUE] /\ Goto(p, "f_copy")
  <2>1. ptable' \in [Procs -> ProcType]
    <3>1. ASSUME NEW r \in ProcType PROVE [r EXCEPT !.kstack = TRUE] \in ProcType
      BY DEF ProcType
    <3>2. ptable[np] \in ProcType
      BY DEF TypeOK
    <3>3. ptable' = [ptable EXCEPT ![np] = [ptable[np] EXCEPT !.kstack = TRUE]]
      BY <1>3 DEF TypeOK
    <3> QED
      BY <3>1, <3>2, <3>3 DEF TypeOK
  <2>2. Slot(np, ptable[np].state, ptable[np].pid, ptable[np].parent, ptable[np].killed, ptable[np].chan,
                 TRUE, ptable[np].pgdir)
    BY <1>3 DEF Slot, TableBut, TypeOK, ProcType
  <2> QED
    BY <1>1, <1>3, <2>1, <2>2, GotoIs, Places
<1> QED
  BY <1>2, <1>3 DEF ForkKstack

\* ... and gets memory for it or gives it back.
LEMMA ForkCopyIs ==
  ASSUME TypeOK, NEW c \in CPUs, NEW p \in Procs \cap {cpu[c].sp}, ForkCopy(c, p),
         NEW np \in Procs, np = thr[p].np
  PROVE  /\ Runs(c, p) /\ thr[p].pc = "f_copy"
         /\ thr' \in [Procs -> ThreadType] /\ ptable' \in [Procs -> ProcType]
         /\ \/ /\ Slot(np, ptable[np].state, ptable[np].pid, p, ptable[np].killed, ptable[np].chan,
                 ptable[np].kstack, TRUE)
               /\ Moves(p, "f_run")
            \/ /\ Slot(np, "UNUSED", ptable[np].pid, ptable[np].parent, ptable[np].killed, ptable[np].chan,
                       FALSE, FALSE)
               /\ Local(p, "ret", Nil, thr[p].ticks0, thr[p].ypc)
         /\ UNCHANGED <<cpu, lock, tlock, ticks, nextpid, panicked>>
<1>1. Runs(c, p) /\ thr[p].pc = "f_copy" /\ UNCHANGED <<cpu, lock, tlock, ticks, nextpid, panicked>>
  BY OnRuns DEF ForkCopy
<1>2. CASE ForkFail(p)
  BY <1>1, <1>2, ForkFailIs
<1>3. CASE ptable' = [ptable EXCEPT ![thr[p].np].pgdir = TRUE, ![thr[p].np].parent = p] /\ Goto(p, "f_run")
  <2>1. ptable' \in [Procs -> ProcType]
    <3>1. ptable' = [ptable EXCEPT ![np] = [ptable[np] EXCEPT !.pgdir = TRUE, !.parent = p]]
      BY <1>3 DEF TypeOK
    <3>2. ASSUME NEW r \in ProcType, NEW x \in Procs PROVE [r EXCEPT !.pgdir = TRUE, !.parent = x] \in ProcType
      BY DEF ProcType
    <3>3. ptable[np] \in ProcType /\ p \in Procs
      BY DEF TypeOK
    <3>4. [ptable[np] EXCEPT !.pgdir = TRUE, !.parent = p] \in ProcType
      BY <3>2, <3>3
    <3> QED
      BY <3>1, <3>4 DEF TypeOK
  <2>2. Slot(np, ptable[np].state, ptable[np].pid, p, ptable[np].killed, ptable[np].chan,
                 ptable[np].kstack, TRUE)
    BY <1>3 DEF Slot, TableBut, TypeOK, ProcType
  <2> QED
    BY ZenonT(60), <1>1, <1>3, <2>1, <2>2, GotoIs, Places
<1> QED
  BY <1>2, <1>3 DEF ForkCopy

\* The child becomes RUNNABLE with a thread of its own.
LEMMA ForkRunIs ==
  ASSUME TypeOK, NEW c \in CPUs, NEW p \in Procs \cap {cpu[c].sp}, ForkRun(c, p),
         NEW np \in Procs, np = thr[p].np, np # p
  PROVE  /\ Runs(c, p) /\ thr[p].pc = "f_run" /\ lock = NoCpu /\ SetState(np, "RUNNABLE")
         /\ thr' \in [Procs -> ThreadType] /\ ptable' \in [Procs -> ProcType]
         /\ thr'[np].pc = "forkret" /\ thr'[np].np = Nil /\ thr'[np].ticks0 = 0 /\ thr'[np].ypc = "none"
         /\ thr'[p].pc = "ret" /\ thr'[p].np = Nil /\ thr'[p].ticks0 = thr[p].ticks0 /\ thr'[p].ypc = thr[p].ypc
         /\ \A q \in Procs \ {p, np} : thr'[q] = thr[q]
         /\ UNCHANGED <<cpu, lock, tlock, ticks, nextpid, panicked>>
<1>1. /\ Runs(c, p) /\ thr[p].pc = "f_run" /\ lock = NoCpu
      /\ UNCHANGED <<cpu, lock, tlock, ticks, nextpid, panicked>>
  BY OnRuns DEF ForkRun, acquire_ptable
<1>2. /\ ptable' = [ptable EXCEPT ![np].state = "RUNNABLE"]
      /\ thr' = [thr EXCEPT ![np] = [NoThread EXCEPT !.pc = "forkret"], ![p].np = Nil, ![p].pc = "ret"]
  BY DEF ForkRun
<1>3. ptable' \in [Procs -> ProcType] /\ SetState(np, "RUNNABLE")
  <2>1. "RUNNABLE" \in States
    BY StatesAre
  <2>2. ptable' \in [Procs -> ProcType]
    BY SMTT(60), <1>2, <2>1 DEF TypeOK, ProcType
  <2>3. SetState(np, "RUNNABLE")
    BY <1>2 DEF SetState, Slot, TableBut, TypeOK, ProcType
  <2> QED
    BY <2>2, <2>3
<1>4. [NoThread EXCEPT !.pc = "forkret"] = [pc |-> "forkret", np |-> Nil, ticks0 |-> 0, ypc |-> "none"]
  BY DEF NoThread
<1>5. 0 \in 0..(TickMod - 1) /\ "forkret" \in PCs /\ "ret" \in PCs
  BY ProcAssumption, Places
<1>6. [pc |-> "forkret", np |-> Nil, ticks0 |-> 0, ypc |-> "none"] \in ThreadType
  BY <1>5 DEF ThreadType
<1>7. thr' \in [Procs -> ThreadType]
  <2>1. ASSUME NEW r \in ThreadType PROVE [r EXCEPT !.np = Nil, !.pc = "ret"] \in ThreadType
    BY <1>5 DEF ThreadType
  <2>2. thr[p] \in ThreadType
    BY DEF TypeOK
  <2>3. thr' = [thr EXCEPT ![np] = [pc |-> "forkret", np |-> Nil, ticks0 |-> 0, ypc |-> "none"],
                           ![p] = [thr[p] EXCEPT !.np = Nil, !.pc = "ret"]]
    BY <1>2, <1>4 DEF TypeOK
  <2> QED
    BY <1>6, <2>1, <2>2, <2>3 DEF TypeOK
<1>8. /\ thr'[np] = [pc |-> "forkret", np |-> Nil, ticks0 |-> 0, ypc |-> "none"]
      /\ \A q \in Procs \ {p, np} : thr'[q] = thr[q]
      /\ thr'[p] = [thr[p] EXCEPT !.np = Nil, !.pc = "ret"]
  BY <1>2, <1>4 DEF TypeOK
<1>9. thr'[p].pc = "ret" /\ thr'[p].np = Nil /\ thr'[p].ticks0 = thr[p].ticks0 /\ thr'[p].ypc = thr[p].ypc
  BY <1>8 DEF TypeOK, ThreadType
<1> QED
  BY <1>1, <1>3, <1>7, <1>8, <1>9

\* wakeup1 makes those that sleep on the channel RUNNABLE, and touches nothing else.
LEMMA Wakeup1Is ==
  ASSUME NEW t \in [Procs -> ProcType], NEW ch
  PROVE  /\ wakeup1(t, ch) \in [Procs -> ProcType]
         /\ \A q \in Procs :
              /\ t[q].state = "SLEEPING" /\ t[q].chan = ch => wakeup1(t, ch)[q].state = "RUNNABLE"
              /\ ~(t[q].state = "SLEEPING" /\ t[q].chan = ch) => wakeup1(t, ch)[q].state = t[q].state
              /\ wakeup1(t, ch)[q].pid = t[q].pid /\ wakeup1(t, ch)[q].parent = t[q].parent
              /\ wakeup1(t, ch)[q].killed = t[q].killed /\ wakeup1(t, ch)[q].chan = t[q].chan
              /\ wakeup1(t, ch)[q].kstack = t[q].kstack /\ wakeup1(t, ch)[q].pgdir = t[q].pgdir
<1>1. "RUNNABLE" \in States
  BY StatesAre
<1>2. ASSUME NEW q \in Procs PROVE t[q] \in ProcType /\ [t[q] EXCEPT !.state = "RUNNABLE"] \in ProcType
  BY <1>1 DEF ProcType
<1>3. wakeup1(t, ch) \in [Procs -> ProcType]
  BY <1>2 DEF wakeup1
<1>4. ASSUME NEW q \in Procs
      PROVE  wakeup1(t, ch)[q] = IF t[q].state = "SLEEPING" /\ t[q].chan = ch
                                   THEN [t[q] EXCEPT !.state = "RUNNABLE"] ELSE t[q]
  BY DEF wakeup1
<1> QED
  BY <1>2, <1>3, <1>4 DEF ProcType

\* Abandon hands the children of p to init.
LEMMA AbandonIs ==
  ASSUME NEW t \in [Procs -> ProcType], NEW p \in Procs
  PROVE  /\ Abandon(t, p) \in [Procs -> ProcType]
         /\ \A q \in Procs :
              /\ Abandon(t, p)[q].parent = IF t[q].parent = p THEN initproc ELSE t[q].parent
              /\ Abandon(t, p)[q].pid = t[q].pid /\ Abandon(t, p)[q].state = t[q].state
              /\ Abandon(t, p)[q].killed = t[q].killed /\ Abandon(t, p)[q].chan = t[q].chan
              /\ Abandon(t, p)[q].kstack = t[q].kstack /\ Abandon(t, p)[q].pgdir = t[q].pgdir
<1>1. ASSUME NEW q \in Procs PROVE t[q] \in ProcType /\ [t[q] EXCEPT !.parent = initproc] \in ProcType
  BY Slots DEF ProcType
<1>2. Abandon(t, p) \in [Procs -> ProcType]
  BY <1>1 DEF Abandon
<1>3. ASSUME NEW q \in Procs
      PROVE  Abandon(t, p)[q] = IF t[q].parent = p THEN [t[q] EXCEPT !.parent = initproc] ELSE t[q]
  BY DEF Abandon
<1> QED
  BY <1>1, <1>2, <1>3 DEF ProcType

\* exit as others see it: the zombie, its children with init, its parent awake, and
\* init too if it got a zombie.
ExitWakes(p, q) ==
  /\ ptable[q].state = "SLEEPING"
  /\ \/ ptable[q].chan = ptable[p].parent
     \/ ptable[q].chan = initproc /\ \E z \in Procs : ptable[z].parent = p /\ ptable[z].state = "ZOMBIE"

Exits(p) ==
  /\ ptable' \in [Procs -> ProcType]
  /\ ptable'[p].state = "ZOMBIE"
  /\ \A q \in Procs \ {p} :
       /\ ExitWakes(p, q) => ptable'[q].state = "RUNNABLE"
       /\ ~ExitWakes(p, q) => ptable'[q].state = ptable[q].state
  /\ \A q \in Procs :
       /\ ptable[q].parent = p => ptable'[q].parent = initproc
       /\ ptable[q].parent # p => ptable'[q].parent = ptable[q].parent
       /\ ptable'[q].pid = ptable[q].pid /\ ptable'[q].killed = ptable[q].killed
       /\ ptable'[q].chan = ptable[q].chan /\ ptable'[q].kstack = ptable[q].kstack
       /\ ptable'[q].pgdir = ptable[q].pgdir

\* ExitTable does that.
LEMMA ExitTableIs ==
  ASSUME TypeOK, NEW p \in Procs, ptable' = ExitTable(p)
  PROVE  Exits(p)
<1> DEFINE t1 == wakeup1(ptable, ptable[p].parent)
           t2 == Abandon(t1, p)
           t3 == WakeInit(t1, t2, p)
<1>1. ptable \in [Procs -> ProcType]
  BY DEF TypeOK
<1>2. t1 \in [Procs -> ProcType] /\ t2 \in [Procs -> ProcType]
  BY <1>1, Wakeup1Is, AbandonIs
<1>3. ZombieChild(t1, p) <=> \E z \in Procs : ptable[z].parent = p /\ ptable[z].state = "ZOMBIE"
  BY <1>1, Wakeup1Is DEF ZombieChild
<1>4. \A q \in Procs : t2[q].chan = ptable[q].chan /\ t2[q].state = t1[q].state
  BY SMTT(60), <1>1, <1>2, Wakeup1Is, AbandonIs
<1>5. t3 \in [Procs -> ProcType]
  BY <1>2, Wakeup1Is DEF WakeInit
<1>6. ASSUME NEW q \in Procs
      PROVE  /\ ExitWakes(p, q) => t3[q].state = "RUNNABLE"
             /\ ~ExitWakes(p, q) => t3[q].state = ptable[q].state
  <2>1. CASE ZombieChild(t1, p)
    <3>1. t3 = wakeup1(t2, initproc)
      BY <2>1 DEF WakeInit
    <3> QED
      BY <1>1, <1>2, <1>3, <1>4, <2>1, <3>1, Wakeup1Is DEF ExitWakes
  <2>2. CASE ~ZombieChild(t1, p)
    <3>1. t3 = t2
      BY <2>2 DEF WakeInit
    <3> QED
      BY <1>1, <1>3, <1>4, <2>2, <3>1, Wakeup1Is DEF ExitWakes
  <2> QED
    BY <2>1, <2>2
<1>7. ASSUME NEW q \in Procs
      PROVE  /\ t3[q].parent = t2[q].parent /\ t3[q].pid = t2[q].pid /\ t3[q].killed = t2[q].killed
             /\ t3[q].chan = t2[q].chan /\ t3[q].kstack = t2[q].kstack /\ t3[q].pgdir = t2[q].pgdir
  BY <1>2, Wakeup1Is DEF WakeInit
<1>8. ASSUME NEW q \in Procs
      PROVE  /\ t2[q].parent = (IF ptable[q].parent = p THEN initproc ELSE ptable[q].parent)
             /\ t2[q].pid = ptable[q].pid /\ t2[q].killed = ptable[q].killed
             /\ t2[q].chan = ptable[q].chan /\ t2[q].kstack = ptable[q].kstack
             /\ t2[q].pgdir = ptable[q].pgdir
  <2>1. /\ t1[q].parent = ptable[q].parent /\ t1[q].pid = ptable[q].pid /\ t1[q].killed = ptable[q].killed
        /\ t1[q].chan = ptable[q].chan /\ t1[q].kstack = ptable[q].kstack /\ t1[q].pgdir = ptable[q].pgdir
    BY <1>1, Wakeup1Is
  <2> HIDE DEF t1
  <2>2. /\ t2[q].parent = (IF t1[q].parent = p THEN initproc ELSE t1[q].parent)
        /\ t2[q].pid = t1[q].pid /\ t2[q].killed = t1[q].killed
        /\ t2[q].chan = t1[q].chan /\ t2[q].kstack = t1[q].kstack /\ t2[q].pgdir = t1[q].pgdir
    BY <1>2, AbandonIs
  <2> QED
    BY <2>1, <2>2
<1> HIDE DEF t1, t2
<1>9. ptable' = [t3 EXCEPT ![p].state = "ZOMBIE"]
  BY DEF ExitTable, t1, t2
<1> HIDE DEF t3
<1>10. "ZOMBIE" \in States
  BY StatesAre
<1>11. ptable' \in [Procs -> ProcType]
  BY <1>5, <1>9, <1>10 DEF ProcType
<1>12. /\ ptable'[p].state = "ZOMBIE"
       /\ \A q \in Procs \ {p} : ptable'[q] = t3[q]
       /\ ptable'[p].parent = t3[p].parent /\ ptable'[p].pid = t3[p].pid /\ ptable'[p].killed = t3[p].killed
       /\ ptable'[p].chan = t3[p].chan /\ ptable'[p].kstack = t3[p].kstack /\ ptable'[p].pgdir = t3[p].pgdir
  BY <1>5, <1>9 DEF ProcType
<1>13. \A q \in Procs :
         /\ ptable'[q].parent = t3[q].parent /\ ptable'[q].pid = t3[q].pid /\ ptable'[q].killed = t3[q].killed
         /\ ptable'[q].chan = t3[q].chan /\ ptable'[q].kstack = t3[q].kstack /\ ptable'[q].pgdir = t3[q].pgdir
  BY <1>12
<1>14. \A q \in Procs \ {p} :
         /\ ExitWakes(p, q) => ptable'[q].state = "RUNNABLE"
         /\ ~ExitWakes(p, q) => ptable'[q].state = ptable[q].state
  BY <1>6, <1>12
<1>15. \A q \in Procs :
         /\ ptable[q].parent = p => ptable'[q].parent = initproc
         /\ ptable[q].parent # p => ptable'[q].parent = ptable[q].parent
         /\ ptable'[q].pid = ptable[q].pid /\ ptable'[q].killed = ptable[q].killed
         /\ ptable'[q].chan = ptable[q].chan /\ ptable'[q].kstack = ptable[q].kstack
         /\ ptable'[q].pgdir = ptable[q].pgdir
  BY <1>7, <1>8, <1>13
<1>16. ptable'[p].state = "ZOMBIE"
  BY <1>12
<1> QED
  BY <1>11, <1>14, <1>15, <1>16 DEF Exits

\* init panics, every other process becomes a zombie; no zombie runs again.
LEMMA ExitIs ==
  ASSUME IInv, NEW c \in CPUs, NEW p \in Procs \cap {cpu[c].sp}, exit(c, p)
  PROVE  /\ Runs(c, p) /\ thr[p].pc = "exit" /\ UNCHANGED <<cpu, tlock, ticks, nextpid>>
         /\ \/ p = initproc /\ panicked' = TRUE /\ UNCHANGED <<ptable, thr, lock>>
            \/ /\ p # initproc /\ lock = NoCpu /\ lock' = c /\ Exits(p) /\ Moves(p, "e_sched")
               /\ thr' \in [Procs -> ThreadType] /\ UNCHANGED panicked
<1>0. thr[p].pc = "exit"
  <2>1. OnOk(p)
    BY DEF IInv, ThreadInv, OnCpu
  <2> QED
    BY <2>1 DEF exit, OnOk
<1>1. CASE p = initproc
  BY <1>0, <1>1, OnRuns DEF exit, IInv
<1>2. CASE p # initproc
  BY <1>0, <1>2, OnRuns, ExitTableIs, GotoIs, Places DEF exit, acquire_ptable, IInv
<1> QED
  BY <1>1, <1>2

\* wait reaps a zombie, returns, or goes to sleep.
Reaps(p, q) ==
  /\ q \in Procs /\ ptable[q].parent = p /\ ptable[q].state = "ZOMBIE"
  /\ Slot(q, "UNUSED", 0, Nil, FALSE, ptable[q].chan, FALSE, FALSE)
  /\ thr'[q] = NoThread
  /\ q # p => /\ thr'[p].pc = "ret" /\ thr'[p].np = thr[p].np /\ thr'[p].ticks0 = thr[p].ticks0
              /\ thr'[p].ypc = thr[p].ypc
  /\ \A o \in Procs \ {p, q} : thr'[o] = thr[o]

\* wait reaps a zombie child, gives up, or goes to sleep on its own slot.
LEMMA WaitScanIs ==
  ASSUME TypeOK, NEW c \in CPUs, NEW p \in Procs \cap {cpu[c].sp}, WaitScan(c, p),
         ptable[p].state # "ZOMBIE"
  PROVE  /\ Runs(c, p) /\ thr[p].pc = "w_scan"
         /\ thr' \in [Procs -> ThreadType] /\ ptable' \in [Procs -> ProcType]
         /\ \/ (\E q \in Procs : Reaps(p, q)) /\ lock' = NoCpu
            \/ Moves(p, "ret") /\ lock' = NoCpu /\ UNCHANGED ptable
            \/ /\ Zombies(p) = {} /\ Children(p) # {} /\ ~ptable[p].killed
               /\ Slot(p, "SLEEPING", ptable[p].pid, ptable[p].parent, ptable[p].killed, p,
                       ptable[p].kstack, ptable[p].pgdir)
               /\ Moves(p, "w_sched") /\ UNCHANGED lock
         /\ UNCHANGED <<cpu, tlock, ticks, nextpid, panicked>>
<1>1. Runs(c, p) /\ thr[p].pc = "w_scan" /\ UNCHANGED <<cpu, tlock, ticks, nextpid, panicked>> /\ p \in Procs
  BY OnRuns DEF WaitScan
<1>2. CASE Zombies(p) # {} /\ Reap(p) /\ lock' = NoCpu
  <2>1. PICK q \in Zombies(p) : q = Min(Zombies(p))
    <3>1. Zombies(p) \in SUBSET Procs
      BY DEF Zombies, Children
    <3> QED
      BY <1>2, <3>1, FirstIs
  <2>2. q \in Procs /\ ptable[q].parent = p /\ ptable[q].state = "ZOMBIE" /\ q # p
    BY <2>1 DEF Zombies, Children
  <2>3. /\ ptable' = [ptable EXCEPT ![q].kstack = FALSE, ![q].pgdir = FALSE, ![q].pid = 0,
                  ![q].parent = Nil, ![q].killed = FALSE, ![q].state = "UNUSED"]
        /\ thr' = [thr EXCEPT ![q] = NoThread, ![p].pc = "ret"]
    BY <1>2, <2>1 DEF Reap
  <2>4. NoThread \in ThreadType
    <3>1. 0 \in 0..(TickMod - 1) /\ "none" \in PCs
      BY ProcAssumption, Places
    <3> QED
      BY <3>1 DEF NoThread, ThreadType
  <2>5. thr' \in [Procs -> ThreadType]
    <3>1. "ret" \in PCs
      BY Places
    <3> QED
      BY <1>1, <2>2, <2>3, <2>4, <3>1 DEF TypeOK, ThreadType
  <2>6. /\ thr'[q] = NoThread /\ \A o \in Procs \ {p, q} : thr'[o] = thr[o]
        /\ thr'[p] = [thr[p] EXCEPT !.pc = "ret"]
    BY <1>1, <2>2, <2>3 DEF TypeOK
  <2>7. /\ thr'[p].pc = "ret" /\ thr'[p].np = thr[p].np /\ thr'[p].ticks0 = thr[p].ticks0
        /\ thr'[p].ypc = thr[p].ypc
    BY <1>1, <2>6 DEF TypeOK, ThreadType
  <2> DEFINE z == [ptable[q] EXCEPT !.kstack = FALSE, !.pgdir = FALSE, !.pid = 0, !.parent = Nil,
                                    !.killed = FALSE, !.state = "UNUSED"]
  <2>8. ptable' = [ptable EXCEPT ![q] = z]
    BY <2>2, <2>3 DEF TypeOK
  <2>9. ASSUME NEW r \in ProcType
        PROVE  [r EXCEPT !.kstack = FALSE, !.pgdir = FALSE, !.pid = 0, !.parent = Nil, !.killed = FALSE,
                         !.state = "UNUSED"] \in ProcType
    <3>1. "UNUSED" \in States /\ 0 \in 0..(MaxPid + NPROC)
      BY ProcAssumption, StatesAre
    <3> QED
      BY <3>1 DEF ProcType
  <2>10. ptable[q] \in ProcType /\ z \in ProcType
    BY <2>2, <2>9 DEF TypeOK
  <2>11. ptable' \in [Procs -> ProcType] /\ ptable'[q] = z /\ TableBut(q)
    BY <2>2, <2>8, <2>10 DEF TypeOK, TableBut
  <2>12. Slot(q, "UNUSED", 0, Nil, FALSE, ptable[q].chan, FALSE, FALSE)
    BY <2>10, <2>11 DEF Slot, ProcType
  <2> QED
    BY <1>1, <1>2, <2>2, <2>5, <2>6, <2>7, <2>11, <2>12 DEF Reaps
<1>3. CASE lock' = NoCpu /\ Goto(p, "ret") /\ UNCHANGED ptable
  <2>1. ptable' \in [Procs -> ProcType]
    BY <1>3 DEF TypeOK
  <2> QED
    BY <1>1, <1>3, <2>1, GotoIs, Places
<1>4. CASE /\ Zombies(p) = {} /\ Children(p) # {} /\ ~ptable[p].killed
           /\ ptable' = [ptable EXCEPT ![p].chan = p, ![p].state = "SLEEPING"]
           /\ Goto(p, "w_sched") /\ UNCHANGED lock
  <2>1. "SLEEPING" \in States
    BY StatesAre
  <2>2. ASSUME NEW r \in ProcType PROVE [r EXCEPT !.chan = p, !.state = "SLEEPING"] \in ProcType
    BY <1>1, <2>1 DEF ProcType
  <2>3. ptable' = [ptable EXCEPT ![p] = [ptable[p] EXCEPT !.chan = p, !.state = "SLEEPING"]]
    BY <1>1, <1>4 DEF TypeOK
  <2>4. ptable' \in [Procs -> ProcType]
    BY <1>1, <2>2, <2>3 DEF TypeOK
  <2>5. Slot(p, "SLEEPING", ptable[p].pid, ptable[p].parent, ptable[p].killed, p,
             ptable[p].kstack, ptable[p].pgdir)
    BY <1>1, <1>4 DEF Slot, TableBut, TypeOK, ProcType
  <2> QED
    BY <1>1, <1>4, <2>4, <2>5, GotoIs, Places
<1> QED
  BY <1>2, <1>3, <1>4 DEF WaitScan

\* kill marks a slot with the pid and wakes it.
LEMMA KillIs ==
  ASSUME TypeOK, NEW c \in CPUs, NEW p \in Procs \cap {cpu[c].sp}, NEW pid \in KillPids, kill(c, p, pid)
  PROVE  /\ Runs(c, p) /\ thr[p].pc = "kill" /\ lock = NoCpu
         /\ Moves(p, "ret") /\ thr' \in [Procs -> ThreadType] /\ ptable' \in [Procs -> ProcType]
         /\ \/ UNCHANGED ptable
            \/ \E m \in Procs :
                 /\ ptable[m].pid = pid
                 /\ Slot(m, IF ptable[m].state = "SLEEPING" THEN "RUNNABLE" ELSE ptable[m].state,
                         ptable[m].pid, ptable[m].parent, TRUE, ptable[m].chan, ptable[m].kstack,
                         ptable[m].pgdir)
         /\ UNCHANGED <<cpu, lock, tlock, ticks, nextpid, panicked>>
<1> DEFINE S == {q \in Procs : ptable[q].pid = pid}
<1>1. /\ Runs(c, p) /\ thr[p].pc = "kill" /\ lock = NoCpu
      /\ Moves(p, "ret") /\ thr' \in [Procs -> ThreadType]
      /\ UNCHANGED <<cpu, lock, tlock, ticks, nextpid, panicked>>
  BY OnRuns, GotoIs, Places DEF kill, acquire_ptable
<1>2. CASE S = {}
  <2>1. ptable' = ptable
    BY <1>2 DEF kill
  <2> QED
    BY <1>1, <2>1 DEF TypeOK
<1>3. CASE S # {}
  <2>1. PICK m \in S : m = Min(S)
    <3>1. S \in SUBSET Procs
      OBVIOUS
    <3> QED
      BY <1>3, <3>1, FirstIs
  <2>2. ptable' = [ptable EXCEPT ![m].killed = TRUE, ![m].state = IF @ = "SLEEPING" THEN "RUNNABLE" ELSE @]
    BY <1>3, <2>1 DEF kill
  <2> DEFINE st == IF ptable[m].state = "SLEEPING" THEN "RUNNABLE" ELSE ptable[m].state
  <2>3. m \in Procs /\ ptable[m].pid = pid
    BY <2>1
  <2>4. st \in States
    BY <2>3, StatesAre, SlotType
  <2>5. ptable' = [ptable EXCEPT ![m] = [ptable[m] EXCEPT !.killed = TRUE, !.state = st]]
    BY <2>2, <2>3 DEF TypeOK, ProcType
  <2> HIDE DEF st
  <2>6. ASSUME NEW r \in ProcType PROVE [r EXCEPT !.killed = TRUE, !.state = st] \in ProcType
    BY <2>4 DEF ProcType
  <2>7. ptable' \in [Procs -> ProcType]
    BY <2>3, <2>5, <2>6 DEF TypeOK
  <2>8. Slot(m, st, ptable[m].pid, ptable[m].parent, TRUE, ptable[m].chan, ptable[m].kstack, ptable[m].pgdir)
    BY <2>3, <2>5 DEF Slot, TableBut, TypeOK, ProcType
  <2> QED
    BY <1>1, <2>3, <2>7, <2>8 DEF st
<1> QED
  BY <1>2, <1>3

\* sys_sleep, up to the test of its loop ...
LEMMA SleepStartIs ==
  ASSUME TypeOK, NEW c \in CPUs, NEW p \in Procs \cap {cpu[c].sp}, SleepStart(c, p)
  PROVE  /\ Runs(c, p) /\ thr[p].pc = "sleep" /\ tlock = NoCpu /\ tlock' = c
         /\ Local(p, "s_test", thr[p].np, ticks, thr[p].ypc) /\ thr' \in [Procs -> ThreadType]
         /\ UNCHANGED <<ptable, cpu, lock, ticks, nextpid, panicked>>
<1>1. "s_test" \in PCs /\ ticks \in 0..(TickMod - 1)
  BY Places DEF TypeOK
<1>2. thr' = [thr EXCEPT ![p].ticks0 = ticks, ![p].pc = "s_test"]
  BY DEF SleepStart
<1>3. thr' \in [Procs -> ThreadType]
  BY ZenonT(60), <1>1, <1>2 DEF TypeOK, ThreadType
<1>4. Local(p, "s_test", thr[p].np, ticks, thr[p].ypc)
  BY <1>2 DEF Local, TypeOK, ThreadType
<1> QED
  BY <1>3, <1>4, OnRuns DEF SleepStart

\* ... the test ...
LEMMA SleepTestIs ==
  ASSUME TypeOK, NEW c \in CPUs, NEW p \in Procs \cap {cpu[c].sp}, SleepTest(c, p)
  PROVE  /\ Runs(c, p) /\ thr[p].pc = "s_test" /\ thr' \in [Procs -> ThreadType]
         /\ \/ Elapsed(p) < SleepTicks /\ Moves(p, "s_sleep") /\ UNCHANGED tlock
            \/ tlock' = NoCpu /\ Local(p, "ret", thr[p].np, 0, thr[p].ypc)
         /\ UNCHANGED <<ptable, cpu, lock, ticks, nextpid, panicked>>
<1>1. "ret" \in PCs /\ 0 \in 0..(TickMod - 1)
  BY Places, ProcAssumption
<1>2. Runs(c, p) /\ thr[p].pc = "s_test" /\ UNCHANGED <<ptable, cpu, lock, ticks, nextpid, panicked>>
  BY OnRuns DEF SleepTest
<1>3. CASE tlock' = NoCpu /\ thr' = [thr EXCEPT ![p].pc = "ret", ![p].ticks0 = 0]
  <2>1. thr' \in [Procs -> ThreadType]
    BY ZenonT(60), <1>1, <1>3 DEF TypeOK, ThreadType
  <2>2. Local(p, "ret", thr[p].np, 0, thr[p].ypc)
    BY <1>3 DEF Local, TypeOK, ThreadType
  <2> QED
    BY <1>2, <1>3, <2>1, <2>2
<1>4. CASE Elapsed(p) < SleepTicks /\ Goto(p, "s_sleep") /\ UNCHANGED tlock
  BY <1>2, <1>4, GotoIs, Places
<1> QED
  BY <1>3, <1>4 DEF SleepTest

\* ... and sleep.
LEMMA SleepIs ==
  ASSUME TypeOK, NEW c \in CPUs, NEW p \in Procs \cap {cpu[c].sp}, sleep(c, p)
  PROVE  /\ Runs(c, p) /\ thr[p].pc = "s_sleep" /\ lock = NoCpu /\ lock' = c /\ tlock' = NoCpu
         /\ Moves(p, "s_sched") /\ thr' \in [Procs -> ThreadType] /\ ptable' \in [Procs -> ProcType]
         /\ Slot(p, "SLEEPING", ptable[p].pid, ptable[p].parent, ptable[p].killed, Ticks,
                 ptable[p].kstack, ptable[p].pgdir)
         /\ UNCHANGED <<cpu, ticks, nextpid, panicked>>
<1>1. "SLEEPING" \in States
  BY StatesAre
<1>2. ptable' = [ptable EXCEPT ![p].chan = Ticks, ![p].state = "SLEEPING"]
  BY DEF sleep
<1>3. ptable' \in [Procs -> ProcType]
  <2>1. ASSUME NEW r \in ProcType PROVE [r EXCEPT !.chan = Ticks, !.state = "SLEEPING"] \in ProcType
    BY <1>1 DEF ProcType
  <2>2. ptable[p] \in ProcType
    BY DEF TypeOK
  <2>3. ptable' = [ptable EXCEPT ![p] = [ptable[p] EXCEPT !.chan = Ticks, !.state = "SLEEPING"]]
    BY <1>2 DEF TypeOK
  <2> QED
    BY <2>1, <2>2, <2>3 DEF TypeOK
<1>4. Slot(p, "SLEEPING", ptable[p].pid, ptable[p].parent, ptable[p].killed, Ticks,
           ptable[p].kstack, ptable[p].pgdir)
  BY <1>2 DEF Slot, TableBut, TypeOK, ProcType
<1> QED
  BY <1>3, <1>4, OnRuns, GotoIs, Places DEF sleep, acquire_ptable

\* Where sched returns to.
LEMMA ResumeIs ==
  /\ Resume("e_sched") = "dead" /\ Resume("w_sched") = "w_slept"
  /\ Resume("s_sched") = "s_slept" /\ Resume("y_sched") = "y_back"
BY DEF Resume

\* sched leaves the thread for the scheduler of the CPU, or panics.
LEMMA SchedIs ==
  ASSUME TypeOK, NEW c \in CPUs, NEW p \in Procs \cap {cpu[c].sp}, sched(c, p)
  PROVE  /\ Runs(c, p) /\ thr[p].pc \in SchedPcs /\ UNCHANGED <<ptable, lock, tlock, ticks, nextpid>>
         /\ \/ /\ lock # c \/ tlock = c \/ ptable[p].state = "RUNNING"
               /\ panicked' = TRUE /\ UNCHANGED <<cpu, thr>>
            \/ /\ Processor(c, cpu[c].proc, Nil, cpu[c].cr3, cpu[c].spc, cpu[c].i, cpu[c].ipc)
               /\ cpu' \in [CPUs -> CpuType] /\ thr' \in [Procs -> ThreadType]
               /\ Moves(p, Resume(thr[p].pc)) /\ Resume(thr[p].pc) \in {"dead", "w_slept", "s_slept", "y_back"}
               /\ UNCHANGED panicked
<1>1. Runs(c, p) /\ thr[p].pc \in SchedPcs /\ UNCHANGED <<ptable, lock, tlock, ticks, nextpid>>
  BY OnRuns DEF sched
<1>2. CASE lock # c \/ tlock = c \/ ptable[p].state = "RUNNING"
  BY <1>1, <1>2 DEF sched
<1>3. CASE ~(lock # c \/ tlock = c \/ ptable[p].state = "RUNNING")
  <2>0. ~InterruptsOn(c)
    BY <1>1, Slots DEF InterruptsOn, SchedPcs, NoLockPcs
  <2>1. cpu' = [cpu EXCEPT ![c].sp = Nil] /\ Goto(p, Resume(thr[p].pc)) /\ UNCHANGED panicked
    BY <1>3, <2>0 DEF sched
  <2>2. cpu' \in [CPUs -> CpuType]
    BY <2>1 DEF TypeOK, CpuType
  <2>3. Processor(c, cpu[c].proc, Nil, cpu[c].cr3, cpu[c].spc, cpu[c].i, cpu[c].ipc)
    BY <2>1 DEF Processor, CpusBut, TypeOK, CpuType
  <2>4. Resume(thr[p].pc) \in {"dead", "w_slept", "s_slept", "y_back"}
    BY <1>1, ResumeIs DEF SchedPcs
  <2>5. Resume(thr[p].pc) \in PCs
    BY <2>4, Places
  <2> QED
    BY <1>1, <2>1, <2>2, <2>3, <2>4, <2>5, GotoIs
<1> QED
  BY <1>2, <1>3

\* A process that gets the CPU back after a yield goes on where it was, or exits.
LEMMA YieldBackIs ==
  ASSUME TypeOK, NEW c \in CPUs, NEW p \in Procs \cap {cpu[c].sp}, YieldBack(c, p),
         thr[p].ypc # "none"
  PROVE  /\ Runs(c, p) /\ thr[p].pc = "y_back" /\ lock' = NoCpu /\ thr' \in [Procs -> ThreadType]
         /\ \/ /\ Local(p, "exit", thr[p].np, thr[p].ticks0, "none")
               /\ ptable[p].killed /\ thr[p].ypc = "user"
            \/ Local(p, thr[p].ypc, thr[p].np, thr[p].ticks0, "none")
         /\ UNCHANGED <<ptable, cpu, tlock, ticks, nextpid, panicked>>
<1> DEFINE l == IF ptable[p].killed /\ thr[p].ypc = "user" THEN "exit" ELSE thr[p].ypc
<1>1. thr[p].ypc \in NoLockPcs
  BY SlotType
<1>2. l \in PCs
  BY <1>1, Places
<1>3. thr' = [thr EXCEPT ![p].ypc = "none", ![p].pc = l]
  BY DEF YieldBack
<1> HIDE DEF l
<1>4. thr' \in [Procs -> ThreadType]
  BY ZenonT(60), <1>2, <1>3 DEF TypeOK, ThreadType
<1>5. Local(p, l, thr[p].np, thr[p].ticks0, "none")
  BY <1>3 DEF Local, TypeOK, ThreadType
<1> QED
  BY <1>4, <1>5, OnRuns DEF YieldBack, l

\* The scheduler takes the lock and scans the table ...
LEMMA SchedAcquireIs ==
  ASSUME TypeOK, NEW c \in CPUs, SchedAcquire(c)
  PROVE  /\ cpu[c].sp = Nil /\ cpu[c].ipc = "none" /\ ~panicked /\ cpu[c].spc = "idle" /\ lock = NoCpu /\ lock' = c
         /\ Processor(c, cpu[c].proc, cpu[c].sp, cpu[c].cr3, "scan", 1, cpu[c].ipc) /\ cpu' \in [CPUs -> CpuType]
         /\ UNCHANGED <<ptable, thr, tlock, ticks, nextpid, panicked>>
<1>1. cpu' = [cpu EXCEPT ![c].spc = "scan", ![c].i = 1]
  BY DEF SchedAcquire
<1>2. 1 \in 1..(NPROC + 1)
  BY ProcAssumption
<1>3. cpu' \in [CPUs -> CpuType]
  <2>1. ASSUME NEW r \in CpuType PROVE [r EXCEPT !.spc = "scan", !.i = 1] \in CpuType
    BY <1>2 DEF CpuType
  <2>2. cpu' = [cpu EXCEPT ![c] = [cpu[c] EXCEPT !.spc = "scan", !.i = 1]]
    BY <1>1 DEF TypeOK
  <2> QED
    BY <2>1, <2>2 DEF TypeOK
<1>4. Processor(c, cpu[c].proc, cpu[c].sp, cpu[c].cr3, "scan", 1, cpu[c].ipc)
  BY <1>1 DEF Processor, CpusBut, TypeOK, CpuType
<1> QED
  BY <1>3, <1>4 DEF SchedAcquire, On, acquire_ptable

\* ... switches to a RUNNABLE process ...
LEMMA SchedSwitchIs ==
  ASSUME TypeOK, NEW c \in CPUs, SchedSwitch(c)
  PROVE  /\ cpu[c].sp = Nil /\ cpu[c].ipc = "none" /\ ~panicked /\ cpu[c].spc = "scan"
         /\ \E p \in Procs : /\ ptable[p].state = "RUNNABLE" /\ SetState(p, "RUNNING")
                             /\ Processor(c, p, p, p, "swtch", p, cpu[c].ipc)
         /\ cpu' \in [CPUs -> CpuType] /\ ptable' \in [Procs -> ProcType]
         /\ UNCHANGED <<thr, lock, tlock, ticks, nextpid, panicked>>
<1>1. PICK p \in Runnable(c) : p = Min(Runnable(c))
  <2>1. Runnable(c) \in SUBSET Procs /\ Runnable(c) # {}
    BY ZenonT(60) DEF Runnable, SchedSwitch
  <2> QED
    BY SMTT(60), <2>1, FirstIs
<1>2. /\ cpu' = [cpu EXCEPT ![c].proc = p, ![c].cr3 = p, ![c].sp = p, ![c].i = p, ![c].spc = "swtch"]
      /\ ptable' = [ptable EXCEPT ![p].state = "RUNNING"]
  BY <1>1 DEF SchedSwitch
<1>3. p \in Procs /\ p \in 1..(NPROC + 1) /\ ptable[p].state = "RUNNABLE" /\ "RUNNING" \in States
  BY <1>1, Slots, StatesAre DEF Runnable
<1>4. ASSUME NEW r \in CpuType
      PROVE  [r EXCEPT !.proc = p, !.cr3 = p, !.sp = p, !.i = p, !.spc = "swtch"] \in CpuType
  BY <1>3 DEF CpuType
<1>5. cpu' = [cpu EXCEPT ![c] = [cpu[c] EXCEPT !.proc = p, !.cr3 = p, !.sp = p, !.i = p, !.spc = "swtch"]]
  BY <1>2 DEF TypeOK
<1>6. cpu' \in [CPUs -> CpuType]
  BY <1>4, <1>5 DEF TypeOK
<1>7. Processor(c, p, p, p, "swtch", p, cpu[c].ipc)
  BY <1>2 DEF Processor, CpusBut, TypeOK, CpuType
<1>8. ptable' \in [Procs -> ProcType]
  BY <1>2, <1>3 DEF TypeOK, ProcType
<1>9. SetState(p, "RUNNING")
  BY <1>2, <1>3 DEF SetState, Slot, TableBut, TypeOK, ProcType
<1> QED
  BY <1>3, <1>6, <1>7, <1>8, <1>9 DEF SchedSwitch, On

\* ... goes on after it ...
LEMMA SchedBackIs ==
  ASSUME TypeOK, NEW c \in CPUs, SchedBack(c),
         cpu[c].i \in Procs
  PROVE  /\ cpu[c].sp = Nil /\ cpu[c].ipc = "none" /\ ~panicked /\ cpu[c].spc = "swtch"
         /\ Processor(c, Nil, Nil, Nil, "scan", cpu[c].i + 1, cpu[c].ipc) /\ cpu' \in [CPUs -> CpuType]
         /\ UNCHANGED <<ptable, thr, lock, tlock, ticks, nextpid, panicked>>
<1>1. cpu' = [cpu EXCEPT ![c].proc = Nil, ![c].cr3 = Nil, ![c].i = @ + 1, ![c].spc = "scan"]
  BY DEF SchedBack
<1>2. PICK k \in 1..(NPROC + 1) : k = cpu[c].i + 1
  BY Slots
<1>3. cpu' = [cpu EXCEPT ![c] = [cpu[c] EXCEPT !.proc = Nil, !.cr3 = Nil, !.i = k, !.spc = "scan"]]
  BY <1>1, <1>2 DEF TypeOK, CpuType
<1>4. ASSUME NEW r \in CpuType PROVE [r EXCEPT !.proc = Nil, !.cr3 = Nil, !.i = k, !.spc = "scan"] \in CpuType
  BY DEF CpuType
<1>5. cpu' \in [CPUs -> CpuType]
  BY <1>3, <1>4 DEF TypeOK
<1>6. Processor(c, Nil, cpu[c].sp, Nil, "scan", k, cpu[c].ipc)
  BY <1>3 DEF Processor, CpusBut, TypeOK, CpuType
<1> QED
  BY <1>2, <1>5, <1>6 DEF SchedBack, On, Processor

\* ... and lets go of the lock when nobody is left.
LEMMA SchedReleaseIs ==
  ASSUME TypeOK, NEW c \in CPUs, SchedRelease(c)
  PROVE  /\ cpu[c].sp = Nil /\ cpu[c].ipc = "none" /\ ~panicked /\ cpu[c].spc = "scan" /\ lock' = NoCpu
         /\ Processor(c, cpu[c].proc, cpu[c].sp, cpu[c].cr3, "idle", 1, cpu[c].ipc) /\ cpu' \in [CPUs -> CpuType]
         /\ UNCHANGED <<ptable, thr, tlock, ticks, nextpid, panicked>>
<1>1. cpu' = [cpu EXCEPT ![c].spc = "idle", ![c].i = 1]
  BY DEF SchedRelease
<1>2. 1 \in 1..(NPROC + 1)
  BY ProcAssumption
<1>3. cpu' \in [CPUs -> CpuType]
  <2>1. ASSUME NEW r \in CpuType PROVE [r EXCEPT !.spc = "idle", !.i = 1] \in CpuType
    BY <1>2 DEF CpuType
  <2>2. cpu' = [cpu EXCEPT ![c] = [cpu[c] EXCEPT !.spc = "idle", !.i = 1]]
    BY <1>1 DEF TypeOK
  <2> QED
    BY <2>1, <2>2 DEF TypeOK
<1>4. Processor(c, cpu[c].proc, cpu[c].sp, cpu[c].cr3, "idle", 1, cpu[c].ipc)
  BY <1>1 DEF Processor, CpusBut, TypeOK, CpuType
<1> QED
  BY <1>3, <1>4 DEF SchedRelease, On, acquire_ptable

\* The clock of TickCpu counts, ...
LEMMA ClockTickIs ==
  ASSUME TypeOK, NEW c \in CPUs, ClockTick(c)
  PROVE  /\ InterruptsOn(c) /\ c = TickCpu /\ tlock = NoCpu /\ tlock' = c
         /\ ticks' = (ticks + 1) % TickMod /\ ticks' \in 0..(TickMod - 1)
         /\ Processor(c, cpu[c].proc, cpu[c].sp, cpu[c].cr3, cpu[c].spc, cpu[c].i, "wakeup")
         /\ cpu' \in [CPUs -> CpuType]
         /\ UNCHANGED <<ptable, thr, lock, nextpid, panicked>>
<1>1. cpu' = [cpu EXCEPT ![c].ipc = "wakeup"]
  BY DEF ClockTick
<1>2. cpu' \in [CPUs -> CpuType]
  BY <1>1 DEF TypeOK, CpuType
<1>3. Processor(c, cpu[c].proc, cpu[c].sp, cpu[c].cr3, cpu[c].spc, cpu[c].i, "wakeup")
  BY <1>1 DEF Processor, CpusBut, TypeOK, CpuType
<1>4. (ticks + 1) % TickMod \in 0..(TickMod - 1)
  BY ProcAssumption DEF TypeOK
<1> QED
  BY <1>2, <1>3, <1>4 DEF ClockTick

\* ... wakes the sleepers ...
Wakes(ch) ==
  \A q \in Procs :
    /\ ptable[q].state = "SLEEPING" /\ ptable[q].chan = ch => ptable'[q].state = "RUNNABLE"
    /\ ~(ptable[q].state = "SLEEPING" /\ ptable[q].chan = ch) => ptable'[q].state = ptable[q].state
    /\ ptable'[q].pid = ptable[q].pid /\ ptable'[q].parent = ptable[q].parent
    /\ ptable'[q].killed = ptable[q].killed /\ ptable'[q].chan = ptable[q].chan
    /\ ptable'[q].kstack = ptable[q].kstack /\ ptable'[q].pgdir = ptable[q].pgdir

\* ... wakes the sleepers of the clock ...
LEMMA ClockWakeupIs ==
  ASSUME TypeOK, NEW c \in CPUs, ClockWakeup(c)
  PROVE  /\ cpu[c].ipc = "wakeup" /\ ~panicked /\ lock = NoCpu
         /\ Wakes(Ticks) /\ ptable' \in [Procs -> ProcType]
         /\ Processor(c, cpu[c].proc, cpu[c].sp, cpu[c].cr3, cpu[c].spc, cpu[c].i, "release")
         /\ cpu' \in [CPUs -> CpuType]
         /\ UNCHANGED <<thr, lock, tlock, ticks, nextpid, panicked>>
<1>1. cpu' = [cpu EXCEPT ![c].ipc = "release"]
  BY DEF ClockWakeup
<1>2. cpu' \in [CPUs -> CpuType]
  BY <1>1 DEF TypeOK, CpuType
<1>3. Processor(c, cpu[c].proc, cpu[c].sp, cpu[c].cr3, cpu[c].spc, cpu[c].i, "release")
  BY <1>1 DEF Processor, CpusBut, TypeOK, CpuType
<1>4. ptable \in [Procs -> ProcType] /\ ptable' = wakeup1(ptable, Ticks)
  BY DEF TypeOK, ClockWakeup
<1>5. Wakes(Ticks) /\ ptable' \in [Procs -> ProcType]
  BY <1>4, Wakeup1Is DEF Wakes
<1> QED
  BY <1>2, <1>3, <1>5 DEF ClockWakeup, acquire_ptable

\* ... and lets go of tickslock.
LEMMA ClockReleaseIs ==
  ASSUME TypeOK, NEW c \in CPUs, ClockRelease(c)
  PROVE  /\ cpu[c].ipc = "release" /\ ~panicked /\ tlock' = NoCpu
         /\ Processor(c, cpu[c].proc, cpu[c].sp, cpu[c].cr3, cpu[c].spc, cpu[c].i, "tail") /\ cpu' \in [CPUs -> CpuType]
         /\ UNCHANGED <<ptable, thr, lock, ticks, nextpid, panicked>>
<1>1. cpu' = [cpu EXCEPT ![c].ipc = "tail"]
  BY DEF ClockRelease
<1>2. 1 \in 1..(NPROC + 1)
  BY ProcAssumption
<1>3. cpu' \in [CPUs -> CpuType]
  BY <1>1, <1>2 DEF TypeOK, CpuType
<1>4. Processor(c, cpu[c].proc, cpu[c].sp, cpu[c].cr3, cpu[c].spc, cpu[c].i, "tail")
  BY <1>1 DEF Processor, CpusBut, TypeOK, CpuType
<1> QED
  BY <1>3, <1>4 DEF ClockRelease, On, acquire_ptable

\* The end of an interrupt: a killed process exits, another yields, the scheduler goes on.
LEMMA TrapTailIs ==
  ASSUME TypeOK, NEW c \in CPUs, TrapTail(c), cpu[c].sp # Nil => thr[cpu[c].sp].pc \in NoLockPcs
  PROVE  /\ cpu[c].ipc = "tail" \/ InterruptsOn(c)
         /\ ~panicked
         /\ Processor(c, cpu[c].proc, cpu[c].sp, cpu[c].cr3, cpu[c].spc, cpu[c].i, "none")
         /\ cpu' \in [CPUs -> CpuType] /\ ptable' \in [Procs -> ProcType] /\ thr' \in [Procs -> ThreadType]
         /\ \/ /\ cpu[c].sp \in Procs /\ ptable[cpu[c].sp].killed /\ thr[cpu[c].sp].pc = "user"
               /\ Moves(cpu[c].sp, "exit") /\ UNCHANGED <<ptable, lock>>
            \/ /\ cpu[c].sp \in Procs /\ lock = NoCpu /\ lock' = c
               /\ SetState(cpu[c].sp, "RUNNABLE")
               /\ Local(cpu[c].sp, "y_sched", thr[cpu[c].sp].np, thr[cpu[c].sp].ticks0, thr[cpu[c].sp].pc)
            \/ cpu[c].sp = Nil /\ UNCHANGED <<ptable, thr, lock>>
         /\ UNCHANGED <<tlock, ticks, nextpid, panicked>>
<1>1. cpu' = [cpu EXCEPT ![c].ipc = "none"]
  BY DEF TrapTail
<1>2. cpu' \in [CPUs -> CpuType]
  BY <1>1 DEF TypeOK, CpuType
<1>3. Processor(c, cpu[c].proc, cpu[c].sp, cpu[c].cr3, cpu[c].spc, cpu[c].i, "none")
  BY <1>1 DEF Processor, CpusBut, TypeOK, CpuType
<1>4. (cpu[c].ipc = "tail" \/ InterruptsOn(c)) /\ ~panicked /\ UNCHANGED <<tlock, ticks, nextpid, panicked>>
  BY DEF TrapTail
<1>5. CASE cpu[c].sp = Nil
  <2>1. UNCHANGED <<ptable, thr, lock>>
    BY <1>5 DEF TrapTail
  <2> QED
    BY <1>2, <1>3, <1>4, <1>5, <2>1 DEF TypeOK
<1>6. CASE cpu[c].sp # Nil
  <2>1. PICK p \in Procs : p = cpu[c].sp
    BY <1>6, CpuIs
  <2>2. CASE ptable[p].killed /\ thr[p].pc = "user"
    <3>1. Goto(p, "exit") /\ UNCHANGED <<ptable, lock>>
      BY <1>6, <2>1, <2>2 DEF TrapTail
    <3>2. ptable' \in [Procs -> ProcType]
      BY SMTT(60), <3>1 DEF TypeOK
    <3> QED
      BY <1>2, <1>3, <1>4, <2>1, <2>2, <3>1, <3>2, GotoIs, Places
  <2>3. CASE ~(ptable[p].killed /\ thr[p].pc = "user")
    <3>1. /\ lock = NoCpu /\ lock' = c /\ ptable' = [ptable EXCEPT ![p].state = "RUNNABLE"]
          /\ thr' = [thr EXCEPT ![p].ypc = thr[p].pc, ![p].pc = "y_sched"]
      BY <1>6, <2>1, <2>3 DEF TrapTail, acquire_ptable
    <3>2. "y_sched" \in PCs /\ thr[p].pc \in NoLockPcs /\ "RUNNABLE" \in States
      BY <1>6, <2>1, Places, StatesAre
    <3>3. ptable' \in [Procs -> ProcType]
      BY <3>1, <3>2 DEF TypeOK, ProcType
    <3>4. SetState(p, "RUNNABLE")
      BY <3>1 DEF SetState, Slot, TableBut, TypeOK, ProcType
    <3>5. thr' \in [Procs -> ThreadType]
      <4>1. PICK l \in NoLockPcs : l = thr[p].pc
        BY <3>2
      <4>2. ASSUME NEW r \in ThreadType PROVE [r EXCEPT !.ypc = l, !.pc = "y_sched"] \in ThreadType
        BY <3>2 DEF ThreadType
      <4>3. thr' = [thr EXCEPT ![p] = [thr[p] EXCEPT !.ypc = l, !.pc = "y_sched"]]
        BY <3>1, <4>1 DEF TypeOK
      <4> QED
        BY <4>2, <4>3 DEF TypeOK
    <3>6. Local(p, "y_sched", thr[p].np, thr[p].ticks0, thr[p].pc)
      BY <3>1 DEF Local, TypeOK, ThreadType
    <3> QED
      BY SMTT(60), <1>2, <1>3, <1>4, <2>1, <3>1, <3>3, <3>4, <3>5, <3>6
  <2> QED
    BY <2>2, <2>3
<1> QED
  BY <1>5, <1>6

-----------------------------------------------------------------------------
(***************************************************************************)
(* What the invariant says of the thread that takes a step.                *)
(***************************************************************************)
LEMMA RunsIs ==
  ASSUME IInv, NEW c \in CPUs, NEW p, Runs(c, p)
  PROVE  /\ p \in Procs /\ p # Nil /\ cpu[c].sp = p /\ OnOk(p) /\ cpu[c].spc = "swtch" /\ cpu[c].proc = p
         /\ lock = c <=> thr[p].pc \in LockPcs
         /\ tlock = c <=> thr[p].pc \in TickPcs
         /\ \A d \in CPUs \ {c} : cpu[d].sp # p
         /\ thr[p].ypc # "none" <=> thr[p].pc \in {"y_sched", "y_back"}
         /\ ForkOk(p)
<1>1. p \in Procs /\ p # Nil /\ cpu[c].sp = p /\ cpu[c].ipc = "none"
  BY DEF Runs
<1>2. OnOk(p) /\ (thr[p].ypc # "none" <=> thr[p].pc \in {"y_sched", "y_back"})
  BY <1>1 DEF IInv, ThreadInv, OnCpu
<1>3. cpu[c].spc = "swtch" /\ cpu[c].proc = p
  BY <1>1 DEF IInv, CpuInv
<1>4. lock = c <=> thr[p].pc \in LockPcs
  BY <1>1, <1>3 DEF IInv, LockInv, InSection
<1>5. tlock = c <=> thr[p].pc \in TickPcs
  BY <1>1 DEF IInv, TickInv
<1>6. \A d \in CPUs \ {c} : cpu[d].sp # p
  BY <1>1 DEF IInv, OneCpuPerStack
<1>7. ForkOk(p)
  BY <1>1 DEF IInv, ForkInv
<1> QED
  BY <1>1, <1>2, <1>3, <1>4, <1>5, <1>6, <1>7

\* A fork under way, with the slot it has claimed.
LEMMA ForkUnderWay ==
  ASSUME IInv, NEW c \in CPUs, NEW p, Runs(c, p), thr[p].pc \in ForkPcs
  PROVE  /\ thr[p].np \in Procs /\ thr[p].np # p /\ thr[p].np # initproc /\ ptable[p].state = "RUNNING"
         /\ ptable[thr[p].np].state = "EMBRYO" /\ thr[thr[p].np].pc = "none" /\ ~OnCpu(thr[p].np)
<1>1. At(p) = thr[p].pc
  BY DEF At, ForkPcs
<1>2. thr[p].np \in Procs /\ ptable[thr[p].np].state = "EMBRYO"
  BY <1>1, RunsIs DEF ForkOk
<1>3. ptable[p].state = "RUNNING"
  BY RunsIs DEF OnOk, ForkPcs
<1>4. thr[p].np # initproc
  BY <1>2 DEF IInv, FamilyInv, Alive
<1>5. ~OnCpu(thr[p].np) /\ thr[thr[p].np].pc = "none"
  BY <1>2 DEF IInv, ThreadInv, OnOk, OffOk
<1> QED
  BY <1>2, <1>3, <1>4, <1>5

\* The six steps that need it to be described.
LEMMA ForkKstackDoes ==
  ASSUME IInv, NEW c \in CPUs, NEW p \in Procs \cap {cpu[c].sp}, ForkKstack(c, p)
  PROVE  \E np \in Procs :
           /\ np = thr[p].np /\ np # p /\ np # initproc /\ ptable[np].state = "EMBRYO"
           /\ Runs(c, p) /\ thr[p].pc = "f_kstack"
           /\ thr' \in [Procs -> ThreadType] /\ ptable' \in [Procs -> ProcType]
           /\ \/ /\ Slot(np, "EMBRYO", ptable[np].pid, ptable[np].parent, ptable[np].killed, ptable[np].chan,
                         TRUE, ptable[np].pgdir)
                 /\ Moves(p, "f_copy")
              \/ /\ Slot(np, "UNUSED", ptable[np].pid, ptable[np].parent, ptable[np].killed, ptable[np].chan,
                         FALSE, FALSE)
                 /\ Local(p, "ret", Nil, thr[p].ticks0, thr[p].ypc)
           /\ UNCHANGED <<cpu, lock, tlock, ticks, nextpid, panicked>>
<1>1. Runs(c, p) /\ thr[p].pc = "f_kstack" /\ TypeOK
  BY OnRuns DEF ForkKstack, IInv
<1>2. PICK np \in Procs : np = thr[p].np /\ np # p /\ np # initproc /\ ptable[np].state = "EMBRYO"
  BY <1>1, ForkUnderWay DEF ForkPcs
<1> QED
  BY <1>1, <1>2, ForkKstackIs

\* copyuvm: the EMBRYO has a page table and a parent, or is given back.
LEMMA ForkCopyDoes ==
  ASSUME IInv, NEW c \in CPUs, NEW p \in Procs \cap {cpu[c].sp}, ForkCopy(c, p)
  PROVE  \E np \in Procs :
           /\ np = thr[p].np /\ np # p /\ np # initproc /\ ptable[np].state = "EMBRYO" /\ ptable[np].kstack
           /\ ptable[np].parent = Nil /\ Runs(c, p) /\ thr[p].pc = "f_copy"
           /\ thr' \in [Procs -> ThreadType] /\ ptable' \in [Procs -> ProcType]
           /\ \/ /\ Slot(np, "EMBRYO", ptable[np].pid, p, ptable[np].killed, ptable[np].chan,
                         ptable[np].kstack, TRUE)
                 /\ Moves(p, "f_run")
              \/ /\ Slot(np, "UNUSED", ptable[np].pid, ptable[np].parent, ptable[np].killed, ptable[np].chan,
                         FALSE, FALSE)
                 /\ Local(p, "ret", Nil, thr[p].ticks0, thr[p].ypc)
           /\ UNCHANGED <<cpu, lock, tlock, ticks, nextpid, panicked>>
<1>1. Runs(c, p) /\ thr[p].pc = "f_copy" /\ TypeOK
  BY OnRuns DEF ForkCopy, IInv
<1>2. PICK np \in Procs : np = thr[p].np /\ np # p /\ np # initproc /\ ptable[np].state = "EMBRYO"
  BY <1>1, ForkUnderWay DEF ForkPcs
<1>3. ptable[np].kstack /\ ptable[np].parent = Nil
  BY <1>1, <1>2, RunsIs DEF ForkOk, At, ForkPcs
<1> QED
  BY ZenonT(60), <1>1, <1>2, <1>3, ForkCopyIs

\* The EMBRYO becomes RUNNABLE.
LEMMA ForkRunDoes ==
  ASSUME IInv, NEW c \in CPUs, NEW p \in Procs \cap {cpu[c].sp}, ForkRun(c, p)
  PROVE  \E np \in Procs :
           /\ np = thr[p].np /\ np # p /\ np # initproc /\ ptable[np].state = "EMBRYO" /\ ~OnCpu(np)
           /\ ptable[np].kstack /\ ptable[np].pgdir /\ ptable[np].parent = p /\ ptable[p].state = "RUNNING"
           /\ thr[np].pc = "none"
           /\ Runs(c, p) /\ thr[p].pc = "f_run" /\ lock = NoCpu /\ SetState(np, "RUNNABLE")
           /\ thr' \in [Procs -> ThreadType] /\ ptable' \in [Procs -> ProcType]
           /\ thr'[np].pc = "forkret" /\ thr'[np].np = Nil /\ thr'[np].ticks0 = 0 /\ thr'[np].ypc = "none"
           /\ thr'[p].pc = "ret" /\ thr'[p].np = Nil /\ thr'[p].ticks0 = thr[p].ticks0
           /\ thr'[p].ypc = thr[p].ypc
           /\ \A q \in Procs \ {p, np} : thr'[q] = thr[q]
           /\ UNCHANGED <<cpu, lock, tlock, ticks, nextpid, panicked>>
<1>1. Runs(c, p) /\ thr[p].pc = "f_run" /\ TypeOK
  BY OnRuns DEF ForkRun, IInv
<1>2. PICK np \in Procs : /\ np = thr[p].np /\ np # p /\ np # initproc /\ ptable[np].state = "EMBRYO"
                         /\ ptable[p].state = "RUNNING" /\ thr[np].pc = "none" /\ ~OnCpu(np)
  BY <1>1, ForkUnderWay DEF ForkPcs
<1>3. ptable[np].kstack /\ ptable[np].pgdir /\ ptable[np].parent = p
  BY <1>1, <1>2, RunsIs DEF ForkOk, At, ForkPcs
<1> QED
  BY <1>1, <1>2, <1>3, ForkRunIs

\* What wait reaps is a zombie that has left its stack.
LEMMA WaitScanDoes ==
  ASSUME IInv, NEW c \in CPUs, NEW p \in Procs \cap {cpu[c].sp}, WaitScan(c, p)
  PROVE  /\ Runs(c, p) /\ thr[p].pc = "w_scan" /\ ptable[p].state = "RUNNING" /\ lock = c
         /\ thr' \in [Procs -> ThreadType] /\ ptable' \in [Procs -> ProcType]
         /\ \/ (\E q \in Procs \ {p, initproc} : Reaps(p, q) /\ ~OnCpu(q)) /\ lock' = NoCpu
            \/ Moves(p, "ret") /\ lock' = NoCpu /\ UNCHANGED ptable
            \/ /\ Zombies(p) = {} /\ Children(p) # {} /\ ~ptable[p].killed
               /\ Slot(p, "SLEEPING", ptable[p].pid, ptable[p].parent, ptable[p].killed, p,
                       ptable[p].kstack, ptable[p].pgdir)
               /\ Moves(p, "w_sched") /\ UNCHANGED lock
         /\ UNCHANGED <<cpu, tlock, ticks, nextpid, panicked>>
<1>1. Runs(c, p) /\ thr[p].pc = "w_scan" /\ TypeOK
  BY OnRuns DEF WaitScan, IInv
<1>2. ptable[p].state = "RUNNING" /\ lock = c
  BY <1>1, RunsIs DEF OnOk, LockPcs
<1>3. ASSUME NEW q \in Procs, Reaps(p, q) PROVE q # p /\ q # initproc /\ ~OnCpu(q)
  <2>1. ptable[q].state = "ZOMBIE"
    BY <1>3 DEF Reaps
  <2>2. q # p /\ q # initproc
    BY <1>2, <2>1 DEF IInv, FamilyInv, Alive
  <2>3. ASSUME NEW d \in CPUs, cpu[d].sp = q PROVE FALSE
    <3>1. thr[q].pc = "e_sched"
      BY <2>1, <2>3 DEF IInv, ThreadInv, OnCpu, OnOk
    <3>2. lock = d
      BY <2>3, <3>1, Slots DEF IInv, LockInv, InSection, LockPcs, SchedPcs
    <3> QED
      BY <1>1, <1>2, <2>2, <2>3, <3>2 DEF Runs
  <2> QED
    BY <2>2, <2>3 DEF OnCpu
<1> QED
  BY <1>1, <1>2, <1>3, WaitScanIs

\* A process that yielded is RUNNING again under the lock.
LEMMA YieldBackDoes ==
  ASSUME IInv, NEW c \in CPUs, NEW p \in Procs \cap {cpu[c].sp}, YieldBack(c, p)
  PROVE  /\ Runs(c, p) /\ thr[p].pc = "y_back" /\ lock' = NoCpu /\ thr' \in [Procs -> ThreadType]
         /\ thr[p].ypc \in NoLockPcs
         /\ \/ /\ Local(p, "exit", thr[p].np, thr[p].ticks0, "none")
               /\ ptable[p].killed /\ thr[p].ypc = "user"
            \/ Local(p, thr[p].ypc, thr[p].np, thr[p].ticks0, "none")
         /\ UNCHANGED <<ptable, cpu, tlock, ticks, nextpid, panicked>>
<1>1. Runs(c, p) /\ thr[p].pc = "y_back" /\ TypeOK
  BY OnRuns DEF YieldBack, IInv
<1>2. thr[p].ypc # "none"
  BY <1>1, RunsIs
<1>3. thr[p].ypc \in NoLockPcs
  BY <1>1, <1>2, SlotType
<1> QED
  BY <1>1, <1>2, <1>3, YieldBackIs

\* The scheduler goes on after the process that it ran has left its stack.
LEMMA SchedBackDoes ==
  ASSUME IInv, NEW c \in CPUs, SchedBack(c)
  PROVE  /\ cpu[c].sp = Nil /\ cpu[c].ipc = "none" /\ ~panicked /\ cpu[c].spc = "swtch"
         /\ Processor(c, Nil, Nil, Nil, "scan", cpu[c].i + 1, cpu[c].ipc) /\ cpu' \in [CPUs -> CpuType]
         /\ UNCHANGED <<ptable, thr, lock, tlock, ticks, nextpid, panicked>>
<1>1. cpu[c].spc = "swtch" /\ TypeOK
  BY DEF SchedBack, IInv
<1>2. cpu[c].i \in Procs
  BY <1>1, CpuIs DEF IInv, CpuInv
<1> QED
  BY <1>1, <1>2, SchedBackIs

\* The end of an interrupt finds no lock held on its CPU.
LEMMA TrapTailDoes ==
  ASSUME IInv, NEW c \in CPUs, TrapTail(c)
  PROVE  /\ cpu[c].ipc = "tail" \/ InterruptsOn(c)
         /\ ~panicked
         /\ Processor(c, cpu[c].proc, cpu[c].sp, cpu[c].cr3, cpu[c].spc, cpu[c].i, "none")
         /\ cpu' \in [CPUs -> CpuType] /\ ptable' \in [Procs -> ProcType] /\ thr' \in [Procs -> ThreadType]
         /\ \/ cpu[c].sp = Nil /\ cpu[c].spc = "idle" /\ UNCHANGED <<ptable, thr, lock>>
            \/ \E p \in Procs :
                 /\ p = cpu[c].sp /\ thr[p].pc \in NoLockPcs /\ ptable[p].state = "RUNNING"
                 /\ \/ /\ ptable[p].killed /\ thr[p].pc = "user"
                       /\ Moves(p, "exit") /\ UNCHANGED <<ptable, lock>>
                    \/ /\ lock = NoCpu /\ lock' = c /\ SetState(p, "RUNNABLE")
                       /\ Local(p, "y_sched", thr[p].np, thr[p].ticks0, thr[p].pc)
         /\ UNCHANGED <<tlock, ticks, nextpid, panicked>>
<1>1. (cpu[c].ipc = "tail" \/ InterruptsOn(c)) /\ TypeOK
  BY DEF TrapTail, IInv
<1>2. IF cpu[c].sp = Nil THEN cpu[c].spc = "idle" ELSE thr[cpu[c].sp].pc \in NoLockPcs
  BY <1>1 DEF IInv, TickInv, InterruptsOn
<1>3. ASSUME NEW p \in Procs, p = cpu[c].sp PROVE ptable[p].state = "RUNNING" /\ thr[p].pc \in NoLockPcs
  <2>1. thr[p].pc \in NoLockPcs
    BY <1>2, <1>3, Slots
  <2>2. OnOk(p)
    BY <1>3 DEF IInv, ThreadInv, OnCpu
  <2> QED
    BY <2>1, <2>2 DEF OnOk, NoLockPcs
<1> QED
  BY <1>1, <1>2, <1>3, TrapTailIs

\* A RUNNABLE process is off its stack when a scheduler looks at it.
LEMMA OffCpu ==
  ASSUME IInv, NEW c \in CPUs, cpu[c].spc = "scan", cpu[c].sp = Nil, NEW p \in Procs, ptable[p].state = "RUNNABLE"
  PROVE  ~OnCpu(p) /\ OffOk(p)
<1>1. lock = c
  BY DEF IInv, LockInv, InSection
<1>2. ASSUME NEW d \in CPUs, cpu[d].sp = p PROVE FALSE
  <2>1. thr[p].pc = "y_sched"
    BY <1>2 DEF IInv, ThreadInv, OnCpu, OnOk
  <2>2. lock = d
    BY <1>2, <2>1, Slots DEF IInv, LockInv, InSection, LockPcs, SchedPcs
  <2> QED
    BY <1>1, <1>2, <2>2, Slots
<1>3. ~OnCpu(p)
  BY <1>2 DEF OnCpu
<1> QED
  BY <1>3 DEF IInv, ThreadInv

\* What the steps of threads leave alone.
LEMMA CpuKept ==
  ASSUME NEW c \in CPUs, NEW p \in Procs, Thread(c, p)
  PROVE  sched(c, p) \/ UNCHANGED cpu
<1>1. (\E call \in Calls : Syscall(c, p, call)) \/ Sysret(c, p) \/ allocproc(c, p) => UNCHANGED cpu
  BY DEF Syscall, Sysret, allocproc
<1>2. ForkKstack(c, p) \/ ForkCopy(c, p) \/ ForkRun(c, p) \/ forkret(c, p) => UNCHANGED cpu
  BY DEF ForkKstack, ForkCopy, ForkRun, forkret
<1>3. exit(c, p) \/ WaitLock(c, p) \/ WaitScan(c, p) \/ WaitAwake(c, p) => UNCHANGED cpu
  BY DEF exit, WaitLock, WaitScan, WaitAwake
<1>4. (\E pid \in KillPids : kill(c, p, pid)) \/ SleepStart(c, p) \/ SleepTest(c, p) => UNCHANGED cpu
  BY DEF kill, SleepStart, SleepTest
<1>5. sleep(c, p) \/ SleepAwake(c, p) \/ SleepRelock(c, p) \/ YieldBack(c, p) => UNCHANGED cpu
  BY DEF sleep, SleepAwake, SleepRelock, YieldBack
<1> QED
  BY <1>1, <1>2, <1>3, <1>4, <1>5 DEF Thread

\* sched never panics: its thread holds ptable.lock, not tickslock, and is not RUNNING.
LEMMA SchedDoes ==
  ASSUME IInv, NEW c \in CPUs, NEW p \in Procs \cap {cpu[c].sp}, sched(c, p)
  PROVE  /\ Runs(c, p) /\ thr[p].pc \in SchedPcs /\ lock = c /\ tlock # c /\ ptable[p].state # "RUNNING"
         /\ Processor(c, cpu[c].proc, Nil, cpu[c].cr3, cpu[c].spc, cpu[c].i, cpu[c].ipc)
         /\ cpu' \in [CPUs -> CpuType] /\ thr' \in [Procs -> ThreadType]
         /\ Moves(p, Resume(thr[p].pc)) /\ Resume(thr[p].pc) \in {"dead", "w_slept", "s_slept", "y_back"}
         /\ UNCHANGED <<ptable, lock, tlock, ticks, nextpid, panicked>>
<1>1. TypeOK /\ Runs(c, p) /\ thr[p].pc \in SchedPcs
  BY OnRuns DEF IInv, sched
<1>2. lock = c /\ tlock # c
  BY <1>1, RunsIs DEF LockPcs, TickPcs, SchedPcs
<1>3. ptable[p].state # "RUNNING"
  BY <1>1, RunsIs DEF OnOk
<1> QED
  BY <1>1, <1>2, <1>3, SchedIs

\* The process a scheduler switches to has left its stack, and waits in a section under the lock.
LEMMA SchedSwitchDoes ==
  ASSUME IInv, NEW c \in CPUs, SchedSwitch(c)
  PROVE  /\ cpu[c].sp = Nil /\ cpu[c].ipc = "none" /\ ~panicked /\ cpu[c].spc = "scan" /\ lock = c
         /\ \E p \in Procs :
              /\ ptable[p].state = "RUNNABLE" /\ SetState(p, "RUNNING") /\ ~OnCpu(p)
              /\ thr[p].pc \in {"forkret", "y_back", "w_slept", "s_slept"}
              /\ Processor(c, p, p, p, "swtch", p, "none")
         /\ cpu' \in [CPUs -> CpuType] /\ ptable' \in [Procs -> ProcType]
         /\ UNCHANGED <<thr, lock, tlock, ticks, nextpid, panicked>>
<1>1. TypeOK
  BY DEF IInv
<1>2. cpu[c].sp = Nil /\ cpu[c].spc = "scan" /\ cpu[c].ipc = "none"
  BY <1>1, SchedSwitchIs
<1>3. PICK p \in Procs : /\ ptable[p].state = "RUNNABLE" /\ SetState(p, "RUNNING")
                        /\ Processor(c, p, p, p, "swtch", p, "none")
  BY <1>1, <1>2, SchedSwitchIs
<1>4. ~OnCpu(p) /\ OffOk(p)
  BY <1>2, <1>3, OffCpu
<1>5. thr[p].pc \in {"forkret", "y_back", "w_slept", "s_slept"}
  BY <1>3, <1>4 DEF OffOk
<1>6. lock = c
  BY <1>2 DEF IInv, LockInv, InSection
<1> QED
  BY <1>1, <1>2, <1>3, <1>4, <1>5, <1>6, SchedSwitchIs

-----------------------------------------------------------------------------
\* The scheduler has a process exactly between its two switches.
LEMMA CpuStep == IInv /\ [Next]_vars => CpuInv'
<1> SUFFICES ASSUME IInv, [Next]_vars PROVE CpuInv'
  OBVIOUS
<1>0. TypeOK /\ CpuInv
  BY DEF IInv
<1>1. ASSUME NEW c \in CPUs, NEW p \in Procs \cap {cpu[c].sp}, sched(c, p) PROVE CpuInv'
  <2>1. UNCHANGED cpu \/ Processor(c, cpu[c].proc, Nil, cpu[c].cr3, cpu[c].spc, cpu[c].i, cpu[c].ipc)
    BY <1>0, <1>1, SchedIs
  <2> QED
    BY <1>0, <2>1 DEF Processor, CpusBut, CpuInv
<1>2. ASSUME NEW c \in CPUs, SchedAcquire(c) PROVE CpuInv'
  BY <1>0, <1>2, SchedAcquireIs, Slots DEF Processor, CpusBut, CpuInv
<1>3. ASSUME NEW c \in CPUs, SchedSwitch(c) PROVE CpuInv'
  BY <1>0, <1>3, SchedSwitchDoes, Slots DEF Processor, CpusBut, CpuInv
<1>4. ASSUME NEW c \in CPUs, SchedBack(c) PROVE CpuInv'
  BY <1>0, <1>4, SchedBackDoes, Slots DEF Processor, CpusBut, CpuInv
<1>5. ASSUME NEW c \in CPUs, SchedRelease(c) PROVE CpuInv'
  BY <1>0, <1>5, SchedReleaseIs, Slots DEF Processor, CpusBut, CpuInv
<1>6. ASSUME NEW c \in CPUs, ClockTick(c) PROVE CpuInv'
  BY <1>0, <1>6, ClockTickIs, Slots DEF Processor, CpusBut, CpuInv
<1>7. ASSUME NEW c \in CPUs, ClockWakeup(c) PROVE CpuInv'
  BY <1>0, <1>7, ClockWakeupIs, Slots DEF Processor, CpusBut, CpuInv
<1>8. ASSUME NEW c \in CPUs, ClockRelease(c) PROVE CpuInv'
  BY <1>0, <1>8, ClockReleaseIs, Slots DEF Processor, CpusBut, CpuInv
<1>9. ASSUME NEW c \in CPUs, TrapTail(c) PROVE CpuInv'
  BY <1>0, <1>9, TrapTailDoes, Slots DEF Processor, CpusBut, CpuInv
<1>10. CASE UNCHANGED cpu
  BY <1>0, <1>10 DEF Processor, CpusBut, CpuInv
<1>11. \/ UNCHANGED cpu
       \/ \E c \in CPUs : \E p \in Procs \cap {cpu[c].sp} :
            \/ sched(c, p)
       \/ \E c \in CPUs : SchedAcquire(c) \/ SchedSwitch(c) \/ SchedBack(c) \/ SchedRelease(c) \/ ClockTick(c)
                          \/ ClockWakeup(c) \/ ClockRelease(c) \/ TrapTail(c)
  BY CpuKept DEF Next, Scheduler, Clock, vars
<1> QED
  BY <1>1, <1>2, <1>3, <1>4, <1>5, <1>6, <1>7, <1>8, <1>9, <1>10, <1>11

\* A scheduler switches to a process only when no CPU is on its stack: a process that is
\* RUNNABLE and still on one holds the lock that the scheduler has.
LEMMA StackStep == IInv /\ [Next]_vars => OneCpuPerStack'
<1> SUFFICES ASSUME IInv, [Next]_vars PROVE OneCpuPerStack'
  OBVIOUS
<1>0. TypeOK /\ CpuInv /\ LockInv /\ OneCpuPerStack /\ ThreadInv
  BY DEF IInv
<1>1. ASSUME NEW c \in CPUs, NEW p \in Procs \cap {cpu[c].sp}, sched(c, p) PROVE OneCpuPerStack'
  <2>1. UNCHANGED cpu \/ Processor(c, cpu[c].proc, Nil, cpu[c].cr3, cpu[c].spc, cpu[c].i, cpu[c].ipc)
    BY <1>0, <1>1, SchedIs
  <2> QED
    BY <1>0, <2>1 DEF Processor, CpusBut, OneCpuPerStack
<1>2. ASSUME NEW c \in CPUs, SchedAcquire(c) PROVE OneCpuPerStack'
  BY <1>0, <1>2, SchedAcquireIs, Slots DEF Processor, CpusBut, OneCpuPerStack
<1>3. ASSUME NEW c \in CPUs, SchedSwitch(c) PROVE OneCpuPerStack'
  <2>1. PICK p \in Procs : ptable[p].state = "RUNNABLE" /\ Processor(c, p, p, p, "swtch", p, cpu[c].ipc)
    BY <1>0, <1>3, SchedSwitchIs
  <2>2. cpu[c].spc = "scan" /\ cpu[c].sp = Nil
    BY <1>0, <1>3, SchedSwitchIs
  <2>3. ~OnCpu(p)
    BY <2>1, <2>2, OffCpu
  <2> QED
    BY <1>0, <2>1, <2>3 DEF Processor, CpusBut, OneCpuPerStack, OnCpu
<1>4. ASSUME NEW c \in CPUs, SchedBack(c) PROVE OneCpuPerStack'
  BY <1>0, <1>4, SchedBackDoes, Slots DEF Processor, CpusBut, OneCpuPerStack
<1>5. ASSUME NEW c \in CPUs, SchedRelease(c) PROVE OneCpuPerStack'
  BY <1>0, <1>5, SchedReleaseIs, Slots DEF Processor, CpusBut, OneCpuPerStack
<1>6. ASSUME NEW c \in CPUs, ClockTick(c) PROVE OneCpuPerStack'
  BY <1>0, <1>6, ClockTickIs, Slots DEF Processor, CpusBut, OneCpuPerStack
<1>7. ASSUME NEW c \in CPUs, ClockWakeup(c) PROVE OneCpuPerStack'
  BY <1>0, <1>7, ClockWakeupIs, Slots DEF Processor, CpusBut, OneCpuPerStack
<1>8. ASSUME NEW c \in CPUs, ClockRelease(c) PROVE OneCpuPerStack'
  BY <1>0, <1>8, ClockReleaseIs, Slots DEF Processor, CpusBut, OneCpuPerStack
<1>9. ASSUME NEW c \in CPUs, TrapTail(c) PROVE OneCpuPerStack'
  BY <1>0, <1>9, TrapTailDoes, Slots DEF Processor, CpusBut, OneCpuPerStack
<1>10. CASE UNCHANGED cpu
  BY <1>0, <1>10 DEF Processor, CpusBut, OneCpuPerStack
<1>11. \/ UNCHANGED cpu
       \/ \E c \in CPUs : \E p \in Procs \cap {cpu[c].sp} :
            \/ sched(c, p)
       \/ \E c \in CPUs : SchedAcquire(c) \/ SchedSwitch(c) \/ SchedBack(c) \/ SchedRelease(c) \/ ClockTick(c)
                          \/ ClockWakeup(c) \/ ClockRelease(c) \/ TrapTail(c)
  BY CpuKept DEF Next, Scheduler, Clock, vars
<1> QED
  BY <1>1, <1>2, <1>3, <1>4, <1>5, <1>6, <1>7, <1>8, <1>9, <1>10, <1>11

\* A step of the thread p on the CPU c: the other CPUs and their threads are where they were, and
\* both locks stay with whom they were or change hands with this thread's place.
Steps(c, p) ==
  /\ Runs(c, p) /\ UNCHANGED cpu
  /\ \A q \in Procs \ {p} : OnCpu(q) => thr'[q] = thr[q]
  /\ lock' = lock \/ (lock = NoCpu /\ lock' = c) \/ (lock = c /\ lock' = NoCpu)
  /\ lock' = c <=> thr'[p].pc \in LockPcs
  /\ tlock' = tlock \/ (tlock = NoCpu /\ tlock' = c) \/ (tlock = c /\ tlock' = NoCpu)
  /\ tlock' = c <=> thr'[p].pc \in TickPcs

\* Every step of a thread that does not leave the CPU is one.
LEMMA ThreadSteps ==
  ASSUME IInv, NEW c \in CPUs, NEW p \in Procs \cap {cpu[c].sp}, Thread(c, p), ~sched(c, p)
  PROVE  Steps(c, p)
<1>0. TypeOK
  BY DEF IInv
<1>1. ASSUME NEW call \in Calls, Syscall(c, p, call) PROVE Steps(c, p)
  BY <1>0, <1>1, SyscallIs, RunsIs, Slots DEF Steps, Moves, Local, Runs, LockPcs, SchedPcs, TickPcs
<1>2. CASE Sysret(c, p)
  BY <1>0, <1>2, SysretIs, RunsIs, Slots DEF Steps, Moves, Local, Runs, LockPcs, SchedPcs, TickPcs
<1>3. CASE allocproc(c, p)
  <2>1. Runs(c, p) /\ thr[p].pc = "fork" /\ UNCHANGED <<cpu, lock, tlock>>
    BY <1>0, <1>3, AllocprocIs
  <2>2. thr'[p].pc \in {"ret", "f_kstack"} /\ \A q \in Procs \ {p} : thr'[q] = thr[q]
    BY <1>0, <1>3, AllocprocIs DEF Moves, Local, Claims
  <2> QED
    BY <2>1, <2>2, RunsIs, Slots DEF Steps, LockPcs, SchedPcs, TickPcs
<1>4. CASE ForkKstack(c, p)
  <2>1. Runs(c, p) /\ thr[p].pc = "f_kstack" /\ UNCHANGED <<cpu, lock, tlock>>
    BY <1>4, ForkKstackDoes
  <2>2. Moves(p, "f_copy") \/ Local(p, "ret", Nil, thr[p].ticks0, thr[p].ypc)
    BY <1>4, ForkKstackDoes
  <2> QED
    BY <2>1, <2>2, RunsIs, Slots DEF Steps, LockPcs, SchedPcs, TickPcs, Moves, Local
<1>5. CASE ForkCopy(c, p)
  <2>1. Runs(c, p) /\ thr[p].pc = "f_copy" /\ UNCHANGED <<cpu, lock, tlock>>
    BY <1>0, <1>5, ForkCopyDoes
  <2>2. thr'[p].pc \in {"ret", "f_run"} /\ \A q \in Procs \ {p} : thr'[q] = thr[q]
    BY ZenonT(60), <1>0, <1>5, ForkCopyDoes DEF Moves, Local
  <2> QED
    BY <2>1, <2>2, RunsIs, Slots DEF Steps, LockPcs, SchedPcs, TickPcs
<1>6. CASE ForkRun(c, p)
  BY <1>0, <1>6, ForkRunDoes, RunsIs, Slots DEF Steps, Moves, Local, Runs, LockPcs, SchedPcs, TickPcs
<1>7. CASE forkret(c, p)
  BY <1>0, <1>7, ForkretIs, RunsIs, Slots DEF Steps, Moves, Local, Runs, LockPcs, SchedPcs, TickPcs
<1>8. CASE exit(c, p)
  <2>1. CASE p = initproc /\ UNCHANGED <<thr, lock>>
    BY ZenonT(60), <1>0, <1>8, <2>1, ExitIs, RunsIs DEF Steps
  <2>2. CASE lock = NoCpu /\ lock' = c /\ Moves(p, "e_sched")
    <3>1. Runs(c, p) /\ thr[p].pc = "exit" /\ UNCHANGED <<cpu, tlock>>
      BY <1>0, <1>8, ExitIs
    <3> QED
      BY <2>2, <3>1, RunsIs, Slots DEF Steps, Moves, LockPcs, SchedPcs, TickPcs
  <2> QED
    BY <1>0, <1>8, <2>1, <2>2, ExitIs
<1>9. CASE WaitLock(c, p)
  BY <1>0, <1>9, WaitLockIs, RunsIs, Slots DEF Steps, Moves, Local, Runs, LockPcs, SchedPcs, TickPcs
<1>10. CASE WaitScan(c, p)
  <2>1. Runs(c, p) /\ thr[p].pc = "w_scan" /\ lock = c /\ UNCHANGED <<cpu, tlock>>
    BY <1>10, WaitScanDoes
  <2>2. CASE \E q \in Procs \ {p, initproc} : Reaps(p, q) /\ ~OnCpu(q) /\ lock' = NoCpu
    <3>1. thr'[p].pc = "ret" /\ \A o \in Procs \ {p} : OnCpu(o) => thr'[o] = thr[o]
      BY <2>1, <2>2 DEF Reaps
    <3> QED
      BY <2>1, <2>2, <3>1, RunsIs, Slots DEF Steps, LockPcs, SchedPcs, TickPcs
  <2>3. CASE Moves(p, "ret") /\ lock' = NoCpu
    BY <2>1, <2>3, RunsIs, Slots DEF Steps, Moves, LockPcs, SchedPcs, TickPcs
  <2>4. CASE Moves(p, "w_sched") /\ UNCHANGED lock
    BY <2>1, <2>4, RunsIs, Slots DEF Steps, Moves, LockPcs, SchedPcs, TickPcs
  <2> QED
    BY <1>10, <2>2, <2>3, <2>4, WaitScanDoes
<1>11. CASE WaitAwake(c, p)
  BY <1>0, <1>11, WaitAwakeIs, RunsIs, Slots DEF Steps, Moves, Local, Runs, LockPcs, SchedPcs, TickPcs
<1>12. ASSUME NEW pid \in KillPids, kill(c, p, pid) PROVE Steps(c, p)
  <2>1. Runs(c, p) /\ thr[p].pc = "kill" /\ UNCHANGED <<cpu, lock, tlock>>
    BY <1>0, <1>12, KillIs
  <2>2. thr'[p].pc = "ret" /\ \A q \in Procs \ {p} : thr'[q] = thr[q]
    BY <1>0, <1>12, KillIs DEF Moves, Local
  <2> QED
    BY <2>1, <2>2, RunsIs, Slots DEF Steps, LockPcs, SchedPcs, TickPcs
<1>13. CASE SleepStart(c, p)
  BY <1>0, <1>13, SleepStartIs, RunsIs, Slots DEF Steps, Moves, Local, Runs, LockPcs, SchedPcs, TickPcs
<1>14. CASE SleepTest(c, p)
  BY <1>0, <1>14, SleepTestIs, RunsIs, Slots DEF Steps, Moves, Local, Runs, LockPcs, SchedPcs, TickPcs
<1>15. CASE sleep(c, p)
  BY <1>0, <1>15, SleepIs, RunsIs, Slots DEF Steps, Moves, Local, Runs, LockPcs, SchedPcs, TickPcs
<1>16. CASE SleepAwake(c, p)
  BY <1>0, <1>16, SleepAwakeIs, RunsIs, Slots DEF Steps, Moves, Local, Runs, LockPcs, SchedPcs, TickPcs
<1>17. CASE SleepRelock(c, p)
  BY <1>0, <1>17, SleepRelockIs, RunsIs, Slots DEF Steps, Moves, Local, Runs, LockPcs, SchedPcs, TickPcs
<1>18. CASE YieldBack(c, p)
  <2>1. Runs(c, p) /\ thr[p].pc = "y_back" /\ lock' = NoCpu /\ UNCHANGED <<cpu, tlock>>
    BY <1>0, <1>18, YieldBackDoes
  <2>2. thr'[p].pc \in NoLockPcs /\ \A q \in Procs \ {p} : thr'[q] = thr[q]
    BY <1>0, <1>18, YieldBackDoes DEF Moves, Local, NoLockPcs
  <2> QED
    BY <2>1, <2>2, RunsIs, Slots DEF Steps, LockPcs, SchedPcs, TickPcs, NoLockPcs
<1> QED
  BY <1>1, <1>2, <1>3, <1>4, <1>5, <1>6, <1>7, <1>8, <1>9, <1>10, <1>11, <1>12, <1>13, <1>14, <1>15, <1>16, <1>17, <1>18 DEF Thread

\* The CPU that takes ptable.lock is in a section under it, on whatever thread, until it lets go.
LEMMA LockStep == IInv /\ [Next]_vars => LockInv'
<1> SUFFICES ASSUME IInv, [Next]_vars PROVE LockInv'
  OBVIOUS
<1>0. TypeOK /\ CpuInv /\ LockInv /\ TickInv /\ OneCpuPerStack
  BY DEF IInv
<1>1. ASSUME NEW c \in CPUs, NEW p \in Procs \cap {cpu[c].sp}, Thread(c, p), ~sched(c, p) PROVE LockInv'
  <2>1. PICK q \in Procs : q = p /\ Steps(c, q)
    BY <1>1, ThreadSteps
  <2> QED
    BY <1>0, <2>1, RunsIs, Slots, CpuIs DEF Steps, LockInv, InSection, OnCpu
<1>2. ASSUME NEW c \in CPUs, NEW p \in Procs \cap {cpu[c].sp}, sched(c, p) PROVE LockInv'
  <2>1. /\ Runs(c, p) /\ thr[p].pc \in SchedPcs /\ lock = c /\ tlock # c /\ ptable[p].state # "RUNNING"
        /\ Processor(c, cpu[c].proc, Nil, cpu[c].cr3, cpu[c].spc, cpu[c].i, cpu[c].ipc)
        /\ Moves(p, Resume(thr[p].pc)) /\ UNCHANGED <<ptable, lock, tlock, ticks, nextpid, panicked>>
    BY <1>2, SchedDoes
  <2>2. \A d \in CPUs \ {c} : cpu'[d] = cpu[d] /\ (cpu[d].sp # Nil => thr'[cpu[d].sp] = thr[cpu[d].sp])
    BY <1>0, <2>1, Slots, CpuIs, RunsIs DEF Processor, CpusBut, Moves
  <2>3. cpu'[c].sp = Nil /\ cpu'[c].spc = "swtch" /\ cpu'[c].ipc = "none"
    BY <2>1, RunsIs DEF Processor, Runs
  <2> QED
    BY <1>0, <2>1, <2>2, <2>3, Slots DEF LockInv, InSection
<1>3. ASSUME NEW c \in CPUs, SchedAcquire(c) PROVE LockInv'
  BY <1>0, <1>3, SchedAcquireIs, Slots DEF Moves, Local, Processor, CpusBut, LockInv, InSection, LockPcs, SchedPcs, NoLockPcs
<1>4. ASSUME NEW c \in CPUs, SchedSwitch(c) PROVE LockInv'
  <2>1. PICK p \in Procs : /\ ptable[p].state = "RUNNABLE" /\ SetState(p, "RUNNING") /\ ~OnCpu(p)
                          /\ thr[p].pc \in {"forkret", "y_back", "w_slept", "s_slept"}
                          /\ Processor(c, p, p, p, "swtch", p, "none")
    BY <1>4, SchedSwitchDoes
  <2>2. /\ cpu[c].sp = Nil /\ cpu[c].ipc = "none" /\ cpu[c].spc = "scan" /\ lock = c
        /\ UNCHANGED <<thr, lock, tlock, ticks, nextpid, panicked>>
    BY <1>4, SchedSwitchDoes
  <2> QED
    BY <1>0, <2>1, <2>2, Slots DEF Processor, CpusBut, LockInv, InSection, LockPcs
<1>5. ASSUME NEW c \in CPUs, SchedBack(c) PROVE LockInv'
  BY <1>0, <1>5, SchedBackDoes, Slots DEF Moves, Local, Processor, CpusBut, LockInv, InSection, LockPcs, SchedPcs, NoLockPcs
<1>6. ASSUME NEW c \in CPUs, SchedRelease(c) PROVE LockInv'
  BY <1>0, <1>6, SchedReleaseIs, Slots DEF Moves, Local, Processor, CpusBut, LockInv, InSection, LockPcs, SchedPcs, NoLockPcs
<1>7. ASSUME NEW c \in CPUs, ClockTick(c) PROVE LockInv'
  BY <1>0, <1>7, ClockTickIs, Slots DEF Moves, Local, Processor, CpusBut, LockInv, InSection, LockPcs, SchedPcs, NoLockPcs
<1>8. ASSUME NEW c \in CPUs, ClockWakeup(c) PROVE LockInv'
  BY <1>0, <1>8, ClockWakeupIs, Slots DEF Moves, Local, Processor, CpusBut, LockInv, InSection, LockPcs, SchedPcs, NoLockPcs
<1>9. ASSUME NEW c \in CPUs, ClockRelease(c) PROVE LockInv'
  BY <1>0, <1>9, ClockReleaseIs, Slots DEF Moves, Local, Processor, CpusBut, LockInv, InSection, LockPcs, SchedPcs, NoLockPcs
<1>10. ASSUME NEW c \in CPUs, TrapTail(c) PROVE LockInv'
  <2>1. Processor(c, cpu[c].proc, cpu[c].sp, cpu[c].cr3, cpu[c].spc, cpu[c].i, "none") 
        /\ cpu[c].ipc \in {"tail", "none"} /\ UNCHANGED <<tlock, ticks>>
    BY <1>10, TrapTailDoes DEF InterruptsOn
  <2>2. CASE cpu[c].sp = Nil /\ cpu[c].spc = "idle" /\ UNCHANGED <<ptable, thr, lock>>
    BY <1>0, <2>1, <2>2, Slots DEF Processor, CpusBut, LockInv, InSection, LockPcs, SchedPcs, NoLockPcs
  <2>3. ASSUME NEW p \in Procs, p = cpu[c].sp, thr[p].pc \in NoLockPcs, Moves(p, "exit"), UNCHANGED <<ptable, lock>>
        PROVE  LockInv'
    <3>1. \A d \in CPUs \ {c} : cpu'[d] = cpu[d] /\ (cpu[d].sp # Nil => thr'[cpu[d].sp] = thr[cpu[d].sp])
      BY <1>0, <2>1, <2>3, Slots, CpuIs DEF Processor, CpusBut, Moves, OneCpuPerStack
    <3>2. thr'[p].pc = "exit" /\ cpu'[c].sp = p /\ cpu'[c].spc = cpu[c].spc /\ cpu'[c].ipc = "none"
      BY <2>1, <2>3 DEF Processor, Moves
    <3> QED
      BY <1>0, <2>1, <2>3, <3>1, <3>2, Slots DEF LockInv, InSection, LockPcs, SchedPcs, NoLockPcs
  <2>4. ASSUME NEW p \in Procs, p = cpu[c].sp, thr[p].pc \in NoLockPcs, lock = NoCpu, lock' = c,
               SetState(p, "RUNNABLE"), Local(p, "y_sched", thr[p].np, thr[p].ticks0, thr[p].pc)
        PROVE  LockInv'
    <3>1. \A d \in CPUs \ {c} : cpu'[d] = cpu[d] /\ (cpu[d].sp # Nil => thr'[cpu[d].sp] = thr[cpu[d].sp])
      BY <1>0, <2>1, <2>4, Slots, CpuIs DEF Processor, CpusBut, Local, OneCpuPerStack
    <3>2. thr'[p].pc = "y_sched" /\ cpu'[c].sp = p /\ cpu'[c].spc = cpu[c].spc /\ cpu'[c].ipc = "none"
      BY <2>1, <2>4 DEF Processor, Local
    <3> QED
      BY <1>0, <2>1, <2>4, <3>1, <3>2, Slots DEF LockInv, InSection, LockPcs, SchedPcs, NoLockPcs
  <2> QED
    BY <1>10, <2>2, <2>3, <2>4, TrapTailDoes
<1>11. CASE UNCHANGED vars
  BY <1>0, <1>11 DEF vars, Moves, Local, Processor, CpusBut, LockInv, InSection, LockPcs, SchedPcs, NoLockPcs
<1> QED
  BY <1>1, <1>2, <1>3, <1>4, <1>5, <1>6, <1>7, <1>8, <1>9, <1>10, <1>11 DEF Next, Scheduler, Clock

\* The same for tickslock; an interrupt leaves the thread under it where it is.
LEMMA TickStep == IInv /\ [Next]_vars => TickInv'
<1> SUFFICES ASSUME IInv, [Next]_vars PROVE TickInv'
  OBVIOUS
<1>0. TypeOK /\ CpuInv /\ TickInv /\ OneCpuPerStack
  BY DEF IInv
<1>1. ASSUME NEW c \in CPUs, NEW p \in Procs \cap {cpu[c].sp}, Thread(c, p), ~sched(c, p) PROVE TickInv'
  <2>1. PICK q \in Procs : q = p /\ Steps(c, q)
    BY <1>1, ThreadSteps
  <2> QED
    BY <1>0, <2>1, RunsIs, Slots, CpuIs DEF Steps, TickInv, OnCpu, Runs
<1>2. ASSUME NEW c \in CPUs, NEW p \in Procs \cap {cpu[c].sp}, sched(c, p) PROVE TickInv'
  <2>1. /\ Runs(c, p) /\ thr[p].pc \in SchedPcs /\ lock = c /\ tlock # c /\ ptable[p].state # "RUNNING"
        /\ Processor(c, cpu[c].proc, Nil, cpu[c].cr3, cpu[c].spc, cpu[c].i, cpu[c].ipc)
        /\ Moves(p, Resume(thr[p].pc)) /\ UNCHANGED <<ptable, lock, tlock, ticks, nextpid, panicked>>
    BY <1>2, SchedDoes
  <2>2. \A d \in CPUs \ {c} : cpu'[d] = cpu[d] /\ (cpu[d].sp # Nil => thr'[cpu[d].sp] = thr[cpu[d].sp])
    BY <1>0, <2>1, Slots, CpuIs, RunsIs DEF Processor, CpusBut, Moves
  <2>3. cpu'[c].sp = Nil /\ cpu'[c].spc = "swtch" /\ cpu'[c].ipc = "none"
    BY <2>1, RunsIs DEF Processor, Runs
  <2> QED
    BY <1>0, <2>1, <2>2, <2>3, Slots DEF TickInv, TickPcs, Runs
<1>3. ASSUME NEW c \in CPUs, SchedAcquire(c) PROVE TickInv'
  BY <1>0, <1>3, SchedAcquireIs, Slots DEF Moves, Local, Processor, CpusBut, TickInv, TickPcs, NoLockPcs, SchedPcs, Runs
<1>4. ASSUME NEW c \in CPUs, SchedSwitch(c) PROVE TickInv'
  <2>1. PICK p \in Procs : /\ ptable[p].state = "RUNNABLE" /\ SetState(p, "RUNNING") /\ ~OnCpu(p)
                          /\ thr[p].pc \in {"forkret", "y_back", "w_slept", "s_slept"}
                          /\ Processor(c, p, p, p, "swtch", p, "none")
    BY <1>4, SchedSwitchDoes
  <2>2. /\ cpu[c].sp = Nil /\ cpu[c].ipc = "none" /\ cpu[c].spc = "scan" /\ lock = c
        /\ UNCHANGED <<thr, lock, tlock, ticks, nextpid, panicked>>
    BY <1>4, SchedSwitchDoes
  <2> QED
    BY <1>0, <2>1, <2>2, Slots DEF Processor, CpusBut, TickInv, TickPcs
<1>5. ASSUME NEW c \in CPUs, SchedBack(c) PROVE TickInv'
  BY <1>0, <1>5, SchedBackDoes, Slots DEF Moves, Local, Processor, CpusBut, TickInv, TickPcs, NoLockPcs, SchedPcs, Runs
<1>6. ASSUME NEW c \in CPUs, SchedRelease(c) PROVE TickInv'
  BY <1>0, <1>6, SchedReleaseIs, Slots DEF Moves, Local, Processor, CpusBut, TickInv, TickPcs, NoLockPcs, SchedPcs, Runs
<1>7. ASSUME NEW c \in CPUs, ClockTick(c) PROVE TickInv'
  BY <1>0, <1>7, ClockTickIs, Slots DEF Moves, Local, Processor, CpusBut, TickInv, TickPcs, NoLockPcs, SchedPcs, Runs, InterruptsOn
<1>8. ASSUME NEW c \in CPUs, ClockWakeup(c) PROVE TickInv'
  BY <1>0, <1>8, ClockWakeupIs, Slots DEF Moves, Local, Processor, CpusBut, TickInv, TickPcs, NoLockPcs, SchedPcs, Runs
<1>9. ASSUME NEW c \in CPUs, ClockRelease(c) PROVE TickInv'
  BY <1>0, <1>9, ClockReleaseIs, Slots DEF Moves, Local, Processor, CpusBut, TickInv, TickPcs, NoLockPcs, SchedPcs, Runs
<1>10. ASSUME NEW c \in CPUs, TrapTail(c) PROVE TickInv'
  <2>1. Processor(c, cpu[c].proc, cpu[c].sp, cpu[c].cr3, cpu[c].spc, cpu[c].i, "none") 
        /\ cpu[c].ipc \in {"tail", "none"} /\ UNCHANGED <<tlock, ticks>>
    BY <1>10, TrapTailDoes DEF InterruptsOn
  <2>2. CASE cpu[c].sp = Nil /\ cpu[c].spc = "idle" /\ UNCHANGED <<ptable, thr, lock>>
    BY <1>0, <2>1, <2>2, Slots DEF Processor, CpusBut, TickInv, TickPcs, NoLockPcs
  <2>3. ASSUME NEW p \in Procs, p = cpu[c].sp, thr[p].pc \in NoLockPcs, Moves(p, "exit"), UNCHANGED <<ptable, lock>>
        PROVE  TickInv'
    <3>1. \A d \in CPUs \ {c} : cpu'[d] = cpu[d] /\ (cpu[d].sp # Nil => thr'[cpu[d].sp] = thr[cpu[d].sp])
      BY SMTT(60), <1>0, <2>1, <2>3, Slots, CpuIs DEF Processor, CpusBut, Moves, OneCpuPerStack
    <3>2. thr'[p].pc = "exit" /\ cpu'[c].sp = p /\ cpu'[c].spc = cpu[c].spc /\ cpu'[c].ipc = "none"
      BY <2>1, <2>3 DEF Processor, Moves
    <3> QED
      BY <1>0, <2>1, <2>3, <3>1, <3>2, Slots DEF TickInv, TickPcs, NoLockPcs
  <2>4. ASSUME NEW p \in Procs, p = cpu[c].sp, thr[p].pc \in NoLockPcs, lock = NoCpu, lock' = c,
               SetState(p, "RUNNABLE"), Local(p, "y_sched", thr[p].np, thr[p].ticks0, thr[p].pc)
        PROVE  TickInv'
    <3>1. \A d \in CPUs \ {c} : cpu'[d] = cpu[d] /\ (cpu[d].sp # Nil => thr'[cpu[d].sp] = thr[cpu[d].sp])
      BY <1>0, <2>1, <2>4, Slots, CpuIs DEF Processor, CpusBut, Local, OneCpuPerStack
    <3>2. thr'[p].pc = "y_sched" /\ cpu'[c].sp = p /\ cpu'[c].spc = cpu[c].spc /\ cpu'[c].ipc = "none"
      BY <2>1, <2>4 DEF Processor, Local
    <3> QED
      BY <1>0, <2>1, <2>4, <3>1, <3>2, Slots DEF TickInv, TickPcs, NoLockPcs
  <2> QED
    BY <1>10, <2>2, <2>3, <2>4, TrapTailDoes
<1>11. CASE UNCHANGED vars
  BY <1>0, <1>11 DEF vars, Moves, Local, Processor, CpusBut, TickInv, TickPcs, NoLockPcs, SchedPcs, Runs
<1> QED
  BY <1>1, <1>2, <1>3, <1>4, <1>5, <1>6, <1>7, <1>8, <1>9, <1>10, <1>11 DEF Next, Scheduler, Clock

\* What is to be shown of the process q after a step that leaves every CPU on its stack.
Follows(q) ==
  /\ IF OnCpu(q) THEN OnOk(q)' ELSE OffOk(q)'
  /\ thr'[q].ypc # "none" <=> thr'[q].pc \in {"y_sched", "y_back"}

\* A process whose thread and state stay follows.
LEMMA FollowsKept ==
  ASSUME IInv, NEW q \in Procs, thr'[q] = thr[q], ptable'[q].state = ptable[q].state
  PROVE  Follows(q)
BY DEF IInv, ThreadInv, Follows, OnOk, OffOk

\* The thread p that runs goes on running.
LEMMA FollowsRunning ==
  ASSUME IInv, NEW c \in CPUs, NEW p, Runs(c, p), ptable'[p].state = "RUNNING", thr'[p].ypc = "none",
         thr'[p].pc \notin SchedPcs \cup {"none", "dead", "y_back"}
  PROVE  Follows(p)
<1>1. OnCpu(p)
  BY DEF Runs, OnCpu
<1> QED
  BY <1>1 DEF Follows, OnOk, SchedPcs

\* A process asleep while ptable.lock is free has left its stack.
LEMMA SleeperOff ==
  ASSUME IInv, lock = NoCpu, NEW q \in Procs, ptable[q].state = "SLEEPING"
  PROVE  ~OnCpu(q) /\ thr[q].pc \in {"w_slept", "s_slept"}
<1>1. ASSUME NEW d \in CPUs, cpu[d].sp = q PROVE FALSE
  <2>1. thr[q].pc \in {"w_sched", "s_sched"}
    BY <1>1 DEF IInv, ThreadInv, OnCpu, OnOk
  <2>2. lock = d
    BY <1>1, <2>1, Slots DEF IInv, LockInv, InSection, LockPcs, SchedPcs
  <2> QED
    BY <2>2, Slots
<1>2. ~OnCpu(q)
  BY <1>1 DEF OnCpu
<1> QED
  BY <1>2 DEF IInv, ThreadInv, OffOk

\* It may be woken.
LEMMA FollowsWoken ==
  ASSUME IInv, lock = NoCpu, NEW q \in Procs, ptable[q].state = "SLEEPING", ptable'[q].state = "RUNNABLE",
         thr'[q] = thr[q]
  PROVE  Follows(q)
<1>1. ~OnCpu(q) /\ thr[q].pc \in {"w_slept", "s_slept"}
  BY SleeperOff
<1> QED
  BY <1>1 DEF IInv, ThreadInv, Follows, OffOk

\* A step of a thread keeps what the states say: nobody is woken, reaped or started on a stack in use.
LEMMA ThreadFollows ==
  ASSUME IInv, NEW c \in CPUs, NEW p \in Procs \cap {cpu[c].sp}, Thread(c, p), ~sched(c, p)
  PROVE  \A q \in Procs : Follows(q)
<1>0. TypeOK
  BY DEF IInv
<1>1. ASSUME NEW call \in Calls, Syscall(c, p, call) PROVE \A q \in Procs : Follows(q)
  BY <1>0, <1>1, SyscallIs, RunsIs, Slots, FollowsKept, FollowsRunning, SlotType DEF Moves, Local, Slot, TableBut, OnOk, SchedPcs
<1>2. CASE Sysret(c, p)
  BY <1>0, <1>2, SysretIs, RunsIs, Slots, FollowsKept, FollowsRunning, SlotType DEF Moves, Local, Slot, TableBut, OnOk, SchedPcs
<1>3. CASE allocproc(c, p)
  <2>1. Runs(c, p) /\ thr[p].pc = "fork"
    BY <1>0, <1>3, AllocprocIs
  <2>2. ptable[p].state = "RUNNING" /\ thr[p].ypc = "none"
    BY <2>1, RunsIs, SlotType DEF OnOk, SchedPcs
  <2>3. CASE Moves(p, "ret") /\ UNCHANGED ptable
    BY <2>1, <2>2, <2>3, FollowsKept, FollowsRunning DEF Moves, SchedPcs
  <2>4. ASSUME NEW np \in Procs, Claims(p, np) PROVE \A q \in Procs : Follows(q)
    <3>1. /\ np # p /\ ptable[np].state = "UNUSED" /\ ptable'[np].state = "EMBRYO" /\ thr'[np] = thr[np]
          /\ \A q \in Procs \ {p, np} : ptable'[q] = ptable[q] /\ thr'[q] = thr[q]
          /\ ptable'[p] = ptable[p] /\ thr'[p].pc = "f_kstack" /\ thr'[p].ypc = thr[p].ypc
      BY <2>2, <2>4 DEF Claims, Slot, TableBut, Local
    <3>2. Follows(np)
      BY <3>1 DEF IInv, ThreadInv, Follows, OnOk, OffOk
    <3>3. Follows(p)
      BY <2>1, <2>2, <3>1, FollowsRunning DEF SchedPcs
    <3> QED
      BY <3>1, <3>2, <3>3, FollowsKept
  <2> QED
    BY <1>0, <1>3, <2>3, <2>4, AllocprocIs
<1>4. CASE ForkKstack(c, p)
  <2>1. Runs(c, p) /\ thr[p].pc = "f_kstack"
    BY <1>0, <1>4, ForkKstackDoes
  <2>2. ptable[p].state = "RUNNING" /\ thr[p].ypc = "none"
    BY <2>1, RunsIs, SlotType DEF OnOk, SchedPcs
  <2>3. PICK np \in Procs :
          /\ np # p /\ ptable[np].state = "EMBRYO" /\ ptable'[np].state \in {"EMBRYO", "UNUSED"} /\ thr'[np] = thr[np]
          /\ \A q \in Procs \ {p, np} : ptable'[q] = ptable[q] /\ thr'[q] = thr[q]
          /\ ptable'[p] = ptable[p] /\ thr'[p].pc \in {"ret", "f_copy"} /\ thr'[p].ypc = thr[p].ypc
    <3>1. PICK np \in Procs :
            /\ np # p /\ ptable[np].state = "EMBRYO" /\ TableBut(np) /\ ptable'[np].state \in {"EMBRYO", "UNUSED"}
            /\ Moves(p, "f_copy") \/ Local(p, "ret", Nil, thr[p].ticks0, thr[p].ypc)
      <4>1. PICK np \in Procs :
              /\ np # p /\ ptable[np].state = "EMBRYO"
              /\ \/ /\ \E pa, ks, pg : Slot(np, "EMBRYO", ptable[np].pid, pa, ptable[np].killed, ptable[np].chan, ks, pg)
                    /\ Moves(p, "f_copy")
                 \/ /\ \E pa, ks, pg : Slot(np, "UNUSED", ptable[np].pid, pa, ptable[np].killed, ptable[np].chan, ks, pg)
                    /\ Local(p, "ret", Nil, thr[p].ticks0, thr[p].ypc)
        BY ZenonT(60), <1>4, ForkKstackDoes
      <4> QED
        BY <4>1 DEF Slot
    <3>2. TableBut(np) => ptable'[p] = ptable[p] /\ \A q \in Procs \ {p, np} : ptable'[q] = ptable[q]
      BY <3>1 DEF TableBut
    <3>3. thr'[np] = thr[np] /\ \A q \in Procs \ {p, np} : thr'[q] = thr[q]
      BY <3>1 DEF Moves, Local
    <3>4. thr'[p].pc \in {"ret", "f_copy"} /\ thr'[p].ypc = thr[p].ypc
      BY <3>1 DEF Moves, Local
    <3> QED
      BY <3>1, <3>2, <3>3, <3>4
  <2>4. Follows(np)
    BY <2>3 DEF IInv, ThreadInv, Follows, OnOk, OffOk
  <2>5. Follows(p)
    BY <2>1, <2>2, <2>3, FollowsRunning DEF SchedPcs
  <2> QED
    BY <2>3, <2>4, <2>5, FollowsKept
<1>5. CASE ForkCopy(c, p)
  <2>1. Runs(c, p) /\ thr[p].pc = "f_copy"
    BY <1>0, <1>5, ForkCopyDoes
  <2>2. ptable[p].state = "RUNNING" /\ thr[p].ypc = "none"
    BY <2>1, RunsIs, SlotType DEF OnOk, SchedPcs
  <2>3. PICK np \in Procs :
          /\ np # p /\ ptable[np].state = "EMBRYO" /\ ptable'[np].state \in {"EMBRYO", "UNUSED"} /\ thr'[np] = thr[np]
          /\ \A q \in Procs \ {p, np} : ptable'[q] = ptable[q] /\ thr'[q] = thr[q]
          /\ ptable'[p] = ptable[p] /\ thr'[p].pc \in {"ret", "f_run"} /\ thr'[p].ypc = thr[p].ypc
    <3>1. PICK np \in Procs :
            /\ np # p /\ ptable[np].state = "EMBRYO" /\ TableBut(np) /\ ptable'[np].state \in {"EMBRYO", "UNUSED"}
            /\ Moves(p, "f_run") \/ Local(p, "ret", Nil, thr[p].ticks0, thr[p].ypc)
      <4>1. PICK np \in Procs :
              /\ np # p /\ ptable[np].state = "EMBRYO"
              /\ \/ /\ \E pa, ks, pg : Slot(np, "EMBRYO", ptable[np].pid, pa, ptable[np].killed, ptable[np].chan, ks, pg)
                    /\ Moves(p, "f_run")
                 \/ /\ \E pa, ks, pg : Slot(np, "UNUSED", ptable[np].pid, pa, ptable[np].killed, ptable[np].chan, ks, pg)
                    /\ Local(p, "ret", Nil, thr[p].ticks0, thr[p].ypc)
        BY ZenonT(60), <1>5, ForkCopyDoes
      <4> QED
        BY <4>1 DEF Slot
    <3>2. TableBut(np) => ptable'[p] = ptable[p] /\ \A q \in Procs \ {p, np} : ptable'[q] = ptable[q]
      BY <3>1 DEF TableBut
    <3>3. thr'[np] = thr[np] /\ \A q \in Procs \ {p, np} : thr'[q] = thr[q]
      BY <3>1 DEF Moves, Local
    <3>4. thr'[p].pc \in {"ret", "f_run"} /\ thr'[p].ypc = thr[p].ypc
      BY <3>1 DEF Moves, Local
    <3> QED
      BY <3>1, <3>2, <3>3, <3>4
  <2>4. Follows(np)
    BY <2>3 DEF IInv, ThreadInv, Follows, OnOk, OffOk
  <2>5. Follows(p)
    BY <2>1, <2>2, <2>3, FollowsRunning DEF SchedPcs
  <2> QED
    BY <2>3, <2>4, <2>5, FollowsKept
<1>6. CASE ForkRun(c, p)
  <2>1. Runs(c, p) /\ thr[p].pc = "f_run"
    BY <1>0, <1>6, ForkRunDoes
  <2>2. ptable[p].state = "RUNNING" /\ thr[p].ypc = "none"
    BY <2>1, RunsIs, SlotType DEF OnOk, SchedPcs
  <2>3. PICK np \in Procs :
          /\ np # p /\ ~OnCpu(np) /\ ptable'[np].state = "RUNNABLE" /\ TableBut(np)
          /\ thr'[np].pc = "forkret" /\ thr'[np].ypc = "none"
          /\ thr'[p].pc = "ret" /\ thr'[p].ypc = thr[p].ypc /\ \A q \in Procs \ {p, np} : thr'[q] = thr[q]
    BY <1>6, ForkRunDoes DEF SetState, Slot
  <2>4. Follows(np)
    BY <2>3 DEF Follows, OffOk
  <2>5. Follows(p)
    <3>1. ptable'[p].state = "RUNNING"
      BY <2>2, <2>3 DEF TableBut
    <3> QED
      BY <2>1, <2>2, <2>3, <3>1, FollowsRunning DEF SchedPcs
  <2>6. \A q \in Procs \ {p, np} : thr'[q] = thr[q] /\ ptable'[q].state = ptable[q].state
    BY <2>3 DEF TableBut
  <2> QED
    BY <2>4, <2>5, <2>6, FollowsKept
<1>7. CASE forkret(c, p)
  BY <1>0, <1>7, ForkretIs, RunsIs, Slots, FollowsKept, FollowsRunning, SlotType DEF Moves, Local, Slot, TableBut, OnOk, SchedPcs
<1>8. CASE exit(c, p)
  <2>1. Runs(c, p) /\ thr[p].pc = "exit"
    BY <1>0, <1>8, ExitIs
  <2>2. ptable[p].state = "RUNNING" /\ thr[p].ypc = "none"
    BY <2>1, RunsIs, SlotType DEF OnOk, SchedPcs
  <2>3. CASE UNCHANGED <<ptable, thr>>
    BY <2>3, FollowsKept
  <2>4. CASE lock = NoCpu /\ Exits(p) /\ Moves(p, "e_sched")
    <3>1. Follows(p)
      <4>1. OnCpu(p)
        BY <2>1 DEF Runs, OnCpu
      <4>2. ptable'[p].state = "ZOMBIE" /\ thr'[p].pc = "e_sched" /\ thr'[p].ypc = "none"
        BY <2>2, <2>4 DEF Exits, Moves
      <4> QED
        BY <4>1, <4>2 DEF Follows, OnOk
    <3>2. ASSUME NEW q \in Procs \ {p} PROVE Follows(q)
      <4>1. thr'[q] = thr[q]
        BY <2>4 DEF Moves
      <4>2. CASE ExitWakes(p, q)
        <5>1. ptable[q].state = "SLEEPING" /\ ptable'[q].state = "RUNNABLE"
          BY <2>4, <4>2 DEF Exits, ExitWakes
        <5> QED
          BY <2>4, <4>1, <5>1, FollowsWoken
      <4>3. CASE ~ExitWakes(p, q)
        <5>1. ptable'[q].state = ptable[q].state
          BY <2>4, <4>3 DEF Exits
        <5> QED
          BY <4>1, <5>1, FollowsKept
      <4> QED
        BY <4>2, <4>3
    <3> QED
      BY <3>1, <3>2
  <2> QED
    BY <1>0, <1>8, <2>3, <2>4, ExitIs
<1>9. CASE WaitLock(c, p)
  BY <1>0, <1>9, WaitLockIs, RunsIs, Slots, FollowsKept, FollowsRunning, SlotType DEF Moves, Local, Slot, TableBut, OnOk, SchedPcs
<1>10. CASE WaitScan(c, p)
  <2>1. Runs(c, p) /\ thr[p].pc = "w_scan"
    BY <1>0, <1>10, WaitScanDoes
  <2>2. ptable[p].state = "RUNNING" /\ thr[p].ypc = "none"
    BY <2>1, RunsIs, SlotType DEF OnOk, SchedPcs
  <2>3. ASSUME NEW q \in Procs \ {p, initproc}, Reaps(p, q), ~OnCpu(q) PROVE \A o \in Procs : Follows(o)
    <3>1. /\ ptable'[q].state = "UNUSED" /\ thr'[q] = NoThread /\ ptable'[p] = ptable[p]
          /\ thr'[p].pc = "ret" /\ thr'[p].ypc = thr[p].ypc
          /\ \A o \in Procs \ {p, q} : ptable'[o] = ptable[o] /\ thr'[o] = thr[o]
      BY <2>3 DEF Reaps, Slot, TableBut
    <3>2. Follows(q)
      BY <2>3, <3>1 DEF Follows, OffOk, NoThread
    <3>3. Follows(p)
      BY <2>1, <2>2, <3>1, FollowsRunning DEF SchedPcs
    <3> QED
      BY <3>1, <3>2, <3>3, FollowsKept
  <2>4. CASE Moves(p, "ret") /\ UNCHANGED ptable
    BY <2>1, <2>2, <2>4, FollowsKept, FollowsRunning DEF Moves, SchedPcs
  <2>5. CASE /\ Slot(p, "SLEEPING", ptable[p].pid, ptable[p].parent, ptable[p].killed, p,
                    ptable[p].kstack, ptable[p].pgdir)
             /\ Moves(p, "w_sched")
    <3>1. /\ ptable'[p].state = "SLEEPING" /\ thr'[p].pc = "w_sched" /\ thr'[p].ypc = "none" /\ OnCpu(p)
          /\ \A q \in Procs \ {p} : ptable'[q] = ptable[q] /\ thr'[q] = thr[q]
      BY <2>1, <2>2, <2>5 DEF Slot, TableBut, Moves, Runs, OnCpu
    <3>2. Follows(p)
      BY <3>1 DEF Follows, OnOk
    <3> QED
      BY <3>1, <3>2, FollowsKept
  <2> QED
    BY <1>10, <2>3, <2>4, <2>5, WaitScanDoes
<1>11. CASE WaitAwake(c, p)
  BY <1>0, <1>11, WaitAwakeIs, RunsIs, Slots, FollowsKept, FollowsRunning, SlotType DEF Moves, Local, Slot, TableBut, OnOk, SchedPcs
<1>12. ASSUME NEW pid \in KillPids, kill(c, p, pid) PROVE \A q \in Procs : Follows(q)
  <2>1. Runs(c, p) /\ thr[p].pc = "kill"
    BY <1>0, <1>12, KillIs
  <2>2. ptable[p].state = "RUNNING" /\ thr[p].ypc = "none"
    BY <2>1, RunsIs, SlotType DEF OnOk, SchedPcs
  <2>3. lock = NoCpu /\ Moves(p, "ret")
    BY <1>0, <1>12, KillIs
  <2>4. CASE UNCHANGED ptable
    BY <2>1, <2>2, <2>3, <2>4, FollowsKept, FollowsRunning DEF Moves, SchedPcs
  <2>5. ASSUME NEW m \in Procs, TableBut(m),
               ptable'[m].state = IF ptable[m].state = "SLEEPING" THEN "RUNNABLE" ELSE ptable[m].state
        PROVE  \A q \in Procs : Follows(q)
    <3>1. Follows(p)
      <4>1. ptable'[p].state = "RUNNING"
        BY <2>2, <2>5 DEF TableBut
      <4>2. thr'[p].pc = "ret" /\ thr'[p].ypc = "none"
        BY <2>2, <2>3 DEF Moves
      <4> QED
        BY <2>1, <4>1, <4>2, FollowsRunning DEF SchedPcs
    <3>2. ASSUME NEW q \in Procs \ {p} PROVE Follows(q)
      <4>1. thr'[q] = thr[q]
        BY <2>3 DEF Moves
      <4>2. \/ ptable'[q].state = ptable[q].state
            \/ ptable[q].state = "SLEEPING" /\ ptable'[q].state = "RUNNABLE"
        BY <2>5 DEF TableBut
      <4> QED
        BY <2>3, <4>1, <4>2, FollowsKept, FollowsWoken
    <3> QED
      BY <3>1, <3>2
  <2> QED
    BY <1>0, <1>12, <2>4, <2>5, KillIs DEF Slot
<1>13. CASE SleepStart(c, p)
  BY <1>0, <1>13, SleepStartIs, RunsIs, Slots, FollowsKept, FollowsRunning, SlotType DEF Moves, Local, Slot, TableBut, OnOk, SchedPcs
<1>14. CASE SleepTest(c, p)
  BY <1>0, <1>14, SleepTestIs, RunsIs, Slots, FollowsKept, FollowsRunning, SlotType DEF Moves, Local, Slot, TableBut, OnOk, SchedPcs
<1>15. CASE sleep(c, p)
  <2>1. Runs(c, p) /\ thr[p].pc = "s_sleep"
    BY <1>0, <1>15, SleepIs
  <2>2. ptable[p].state = "RUNNING" /\ thr[p].ypc = "none"
    BY <2>1, RunsIs, SlotType DEF OnOk, SchedPcs
  <2>3. /\ ptable'[p].state = "SLEEPING" /\ thr'[p].pc = "s_sched" /\ thr'[p].ypc = "none" /\ OnCpu(p)
        /\ \A q \in Procs \ {p} : ptable'[q] = ptable[q] /\ thr'[q] = thr[q]
    <3>1. /\ Slot(p, "SLEEPING", ptable[p].pid, ptable[p].parent, ptable[p].killed, Ticks,
                  ptable[p].kstack, ptable[p].pgdir)
          /\ Moves(p, "s_sched")
      BY <1>0, <1>15, SleepIs
    <3> QED
      BY <2>1, <2>2, <3>1 DEF Slot, TableBut, Moves, Runs, OnCpu
  <2>4. Follows(p)
    BY <2>3 DEF Follows, OnOk
  <2> QED
    BY <2>3, <2>4, FollowsKept
<1>16. CASE SleepAwake(c, p)
  BY <1>0, <1>16, SleepAwakeIs, RunsIs, Slots, FollowsKept, FollowsRunning, SlotType DEF Moves, Local, Slot, TableBut, OnOk, SchedPcs
<1>17. CASE SleepRelock(c, p)
  BY <1>0, <1>17, SleepRelockIs, RunsIs, Slots, FollowsKept, FollowsRunning, SlotType DEF Moves, Local, Slot, TableBut, OnOk, SchedPcs
<1>18. CASE YieldBack(c, p)
  <2>1. Runs(c, p) /\ thr[p].pc = "y_back" /\ UNCHANGED ptable
    BY <1>18, YieldBackDoes
  <2>2. ptable[p].state = "RUNNING"
    BY <2>1, RunsIs DEF OnOk, SchedPcs
  <2>3. /\ thr'[p].pc \in NoLockPcs /\ thr'[p].ypc = "none"
        /\ \A q \in Procs \ {p} : thr'[q] = thr[q]
    BY <1>18, YieldBackDoes DEF Local, NoLockPcs
  <2>4. Follows(p)
    BY <2>1, <2>2, <2>3, FollowsRunning DEF SchedPcs, NoLockPcs
  <2> QED
    BY <2>1, <2>3, <2>4, FollowsKept
<1> QED
  BY <1>1, <1>2, <1>3, <1>4, <1>5, <1>6, <1>7, <1>8, <1>9, <1>10, <1>11, <1>12, <1>13, <1>14, <1>15, <1>16, <1>17, <1>18 DEF Thread

\* The states keep telling where the threads are.
LEMMA ThreadStep == IInv /\ [Next]_vars => ThreadInv'
<1> SUFFICES ASSUME IInv, [Next]_vars PROVE ThreadInv'
  OBVIOUS
<1>0. TypeOK /\ CpuInv /\ LockInv /\ OneCpuPerStack /\ ThreadInv
  BY DEF IInv
<1>1. ASSUME NEW c \in CPUs, NEW p \in Procs \cap {cpu[c].sp}, Thread(c, p), ~sched(c, p) PROVE ThreadInv'
  <2>1. \A q \in Procs : Follows(q)
    BY <1>1, ThreadFollows
  <2>2. UNCHANGED cpu
    BY <1>1, CpuKept
  <2> QED
    BY <2>1, <2>2 DEF ThreadInv, Follows, OnCpu
<1>2. ASSUME NEW c \in CPUs, NEW p \in Procs \cap {cpu[c].sp}, sched(c, p) PROVE ThreadInv'
  <2>1. /\ Runs(c, p) /\ thr[p].pc \in SchedPcs
        /\ Processor(c, cpu[c].proc, Nil, cpu[c].cr3, cpu[c].spc, cpu[c].i, cpu[c].ipc)
        /\ Moves(p, Resume(thr[p].pc)) /\ UNCHANGED ptable
    BY <1>2, SchedDoes
  <2>2. OnOk(p) /\ ~OnCpu(p)' /\ (thr[p].ypc # "none" <=> thr[p].pc \in {"y_sched", "y_back"})
    BY <2>1, RunsIs, Slots DEF Processor, CpusBut, OnCpu
  <2>3. OffOk(p)' /\ (thr'[p].ypc # "none" <=> thr'[p].pc \in {"y_sched", "y_back"})
    BY <2>1, <2>2, ResumeIs DEF OnOk, OffOk, Moves, SchedPcs
  <2>4. ASSUME NEW q \in Procs \ {p} PROVE (OnCpu(q)' <=> OnCpu(q)) /\ thr'[q] = thr[q]
    BY <2>1, <2>4, Slots DEF Processor, CpusBut, OnCpu, Moves, Runs
  <2> QED
    BY <1>0, <2>1, <2>2, <2>3, <2>4 DEF ThreadInv, OnOk, OffOk
<1>3. ASSUME NEW c \in CPUs, SchedAcquire(c) PROVE ThreadInv'
  BY <1>0, <1>3, SchedAcquireIs, Slots DEF Processor, CpusBut, ThreadInv, OnCpu, OnOk, OffOk
<1>4. ASSUME NEW c \in CPUs, SchedSwitch(c) PROVE ThreadInv'
  <2>1. PICK p \in Procs : /\ SetState(p, "RUNNING")
                          /\ thr[p].pc \in {"forkret", "y_back", "w_slept", "s_slept"}
                          /\ Processor(c, p, p, p, "swtch", p, "none")
    BY <1>4, SchedSwitchDoes
  <2>2. cpu[c].sp = Nil /\ UNCHANGED thr
    BY <1>4, SchedSwitchDoes
  <2>3. OnCpu(p)' /\ OnOk(p)'
    BY <2>1, <2>2 DEF Processor, OnCpu, OnOk, SetState, Slot, SchedPcs
  <2>4. ASSUME NEW q \in Procs \ {p} PROVE (OnCpu(q)' <=> OnCpu(q)) /\ ptable'[q] = ptable[q]
    BY <2>1, <2>2, <2>4, Slots DEF Processor, CpusBut, OnCpu, SetState, Slot, TableBut
  <2> QED
    BY <1>0, <2>2, <2>3, <2>4 DEF ThreadInv, OnOk, OffOk
<1>5. ASSUME NEW c \in CPUs, SchedBack(c) PROVE ThreadInv'
  BY <1>0, <1>5, SchedBackDoes, Slots DEF Processor, CpusBut, ThreadInv, OnCpu, OnOk, OffOk
<1>6. ASSUME NEW c \in CPUs, SchedRelease(c) PROVE ThreadInv'
  BY <1>0, <1>6, SchedReleaseIs, Slots DEF Processor, CpusBut, ThreadInv, OnCpu, OnOk, OffOk
<1>7. ASSUME NEW c \in CPUs, ClockTick(c) PROVE ThreadInv'
  BY <1>0, <1>7, ClockTickIs, Slots DEF Processor, CpusBut, ThreadInv, OnCpu, OnOk, OffOk
<1>8. ASSUME NEW c \in CPUs, ClockWakeup(c) PROVE ThreadInv'
  <2>1. /\ lock = NoCpu /\ Wakes(Ticks) /\ UNCHANGED thr
        /\ Processor(c, cpu[c].proc, cpu[c].sp, cpu[c].cr3, cpu[c].spc, cpu[c].i, "release")
    BY <1>0, <1>8, ClockWakeupIs
  <2>2. ASSUME NEW q \in Procs PROVE Follows(q)
    <3>1. \/ ptable'[q].state = ptable[q].state
          \/ ptable[q].state = "SLEEPING" /\ ptable'[q].state = "RUNNABLE"
      BY <2>1 DEF Wakes
    <3> QED
      BY <2>1, <3>1, FollowsKept, FollowsWoken
  <2>3. ASSUME NEW q \in Procs PROVE OnCpu(q)' <=> OnCpu(q)
    BY <2>1 DEF Processor, CpusBut, OnCpu
  <2> QED
    BY <2>2, <2>3 DEF ThreadInv, Follows
<1>9. ASSUME NEW c \in CPUs, ClockRelease(c) PROVE ThreadInv'
  BY <1>0, <1>9, ClockReleaseIs, Slots DEF Processor, CpusBut, ThreadInv, OnCpu, OnOk, OffOk
<1>10. ASSUME NEW c \in CPUs, TrapTail(c) PROVE ThreadInv'
  <2>1. Processor(c, cpu[c].proc, cpu[c].sp, cpu[c].cr3, cpu[c].spc, cpu[c].i, "none")
    BY <1>10, TrapTailDoes
  <2>2. ASSUME NEW q \in Procs PROVE OnCpu(q)' <=> OnCpu(q)
    BY <2>1 DEF Processor, CpusBut, OnCpu
  <2>3. CASE UNCHANGED <<ptable, thr>>
    BY <1>0, <2>2, <2>3 DEF ThreadInv, OnOk, OffOk
  <2>4. ASSUME NEW p \in Procs, p = cpu[c].sp, thr[p].pc \in NoLockPcs, ptable[p].state = "RUNNING",
               \/ Moves(p, "exit") /\ UNCHANGED ptable
               \/ SetState(p, "RUNNABLE") /\ Local(p, "y_sched", thr[p].np, thr[p].ticks0, thr[p].pc)
        PROVE  ThreadInv'
    <3>1. OnCpu(p)'
      BY <2>2, <2>4 DEF OnCpu
    <3>2. thr[p].ypc = "none"
      BY <1>0, <2>4 DEF ThreadInv, NoLockPcs
    <3>3. OnOk(p)' /\ (thr'[p].ypc # "none" <=> thr'[p].pc \in {"y_sched", "y_back"})
      <4>1. CASE Moves(p, "exit") /\ UNCHANGED ptable
        BY <2>4, <3>2, <4>1 DEF OnOk, Moves, SchedPcs
      <4>2. CASE SetState(p, "RUNNABLE") /\ Local(p, "y_sched", thr[p].np, thr[p].ticks0, thr[p].pc)
        BY <2>4, <4>2 DEF OnOk, SetState, Slot, Local, NoLockPcs
      <4> QED
        BY <2>4, <4>1, <4>2
    <3>4. \A q \in Procs \ {p} : thr'[q] = thr[q] /\ ptable'[q] = ptable[q]
      BY <2>4 DEF Moves, SetState, Slot, TableBut, Local
    <3> QED
      BY <1>0, <2>2, <3>1, <3>3, <3>4 DEF ThreadInv, OnOk, OffOk
  <2> QED
    BY <1>10, <2>3, <2>4, TrapTailDoes
<1>11. CASE UNCHANGED vars
  BY <1>0, <1>11 DEF vars, Processor, CpusBut, ThreadInv, OnCpu, OnOk, OffOk
<1> QED
  BY <1>1, <1>2, <1>3, <1>4, <1>5, <1>6, <1>7, <1>8, <1>9, <1>10, <1>11 DEF Next, Scheduler, Clock

(***************************************************************************)
(* A fork under way: its EMBRYO is left alone by every other thread.       *)
(***************************************************************************)
\* The slot q, if it is an EMBRYO, keeps what its fork has given it; a dying p may give its children away.
EmbryoKept(p, q) ==
  ptable[q].state = "EMBRYO" =>
    /\ ptable'[q].state = "EMBRYO" /\ ptable'[q].kstack = ptable[q].kstack /\ ptable'[q].pgdir = ptable[q].pgdir
    /\ ptable[q].parent # p => ptable'[q].parent = ptable[q].parent

EmbryoSame(q) ==
  ptable[q].state = "EMBRYO" =>
    /\ ptable'[q].state = "EMBRYO" /\ ptable'[q].kstack = ptable[q].kstack /\ ptable'[q].pgdir = ptable[q].pgdir
    /\ ptable'[q].parent = ptable[q].parent

\* The thread q is as far in its fork as it was, or has nothing to do with one.
ForkKept(q) ==
  \/ thr'[q].np = thr[q].np /\ At(q)' = At(q)
  \/ thr'[q].np = Nil /\ At(q)' \notin ForkPcs

\* A step that keeps every fork under way, and its EMBRYO, keeps ForkInv.
LEMMA ForkStays ==
  ASSUME IInv, NEW p \in Procs, \A q \in Procs \ {p} : ForkKept(q), ForkOk(p)',
         thr'[p].np \in {thr[p].np, Nil} \/ ptable[thr'[p].np].state # "EMBRYO",
         \A q \in Procs \ {thr[p].np} : EmbryoKept(p, q)
  PROVE  ForkInv'
<1>1. /\ \A q \in Procs : ForkOk(q)
      /\ \A q, r \in Procs : thr[q].np = thr[r].np /\ thr[q].np # Nil => q = r
  BY DEF IInv, ForkInv
<1>2. ASSUME NEW q \in Procs \ {p} PROVE ForkOk(q)'
  <2>1. CASE thr'[q].np = Nil /\ At(q)' \notin ForkPcs
    BY <2>1 DEF ForkOk
  <2>2. CASE thr'[q].np = thr[q].np /\ At(q)' = At(q) /\ At(q) \notin ForkPcs
    BY <1>1, <2>2 DEF ForkOk
  <2>3. CASE thr'[q].np = thr[q].np /\ At(q)' = At(q) /\ At(q) \in ForkPcs
    <3>1. PICK np \in Procs : np = thr[q].np
      BY <1>1, <2>3 DEF ForkOk
    <3>2. /\ ptable[np].state = "EMBRYO" /\ (At(q) \in {"f_copy", "f_run"} => ptable[np].kstack)
          /\ At(q) \in {"f_kstack", "f_copy"} => ptable[np].parent = Nil
          /\ At(q) = "f_run" => ptable[np].pgdir /\ ptable[np].parent = q
      BY <1>1, <2>3, <3>1 DEF ForkOk
    <3>3. np # thr[p].np
      BY <1>1, <1>2, <3>1, Slots
    <3>4. EmbryoKept(p, np)
      BY <3>3
    <3>5. /\ ptable'[np].state = "EMBRYO" /\ (At(q) \in {"f_copy", "f_run"} => ptable'[np].kstack)
          /\ At(q) \in {"f_kstack", "f_copy"} => ptable'[np].parent = Nil
          /\ At(q) = "f_run" => ptable'[np].pgdir /\ ptable'[np].parent = q
      BY <1>2, <3>2, <3>4, Slots DEF EmbryoKept, ForkPcs
    <3> QED
      BY <2>3, <3>1, <3>5 DEF ForkOk
  <2> QED
    BY <2>1, <2>2, <2>3 DEF ForkKept
<1>3. ASSUME NEW q \in Procs, thr[q].np # Nil PROVE thr[q].np \in Procs /\ ptable[thr[q].np].state = "EMBRYO"
  BY <1>1, <1>3 DEF ForkOk
<1>4. \A q, r \in Procs : thr'[q].np = thr'[r].np /\ thr'[q].np # Nil => q = r
  BY <1>1, <1>3 DEF ForkKept
<1>5. \A q \in Procs : ForkOk(q)'
  BY <1>2
<1> QED
  BY <1>4, <1>5 DEF ForkInv

\* A thread outside fork has no EMBRYO.
LEMMA NotForking ==
  ASSUME IInv, NEW q \in Procs, At(q) \notin ForkPcs
  PROVE  thr[q].np = Nil
BY DEF IInv, ForkInv, ForkOk

\* The thread p moves from a place outside fork to another; the table's EMBRYOs are kept.
LEMMA ForkMoves ==
  ASSUME IInv, NEW p \in Procs, NEW l, Moves(p, l), thr[p].pc \notin ForkPcs \cup {"y_sched", "y_back"},
         l \notin ForkPcs \cup {"y_sched", "y_back"}, \A q \in Procs : EmbryoKept(p, q)
  PROVE  ForkInv'
<1>1. At(p) \notin ForkPcs /\ At(p)' \notin ForkPcs
  BY DEF At, Moves
<1>2. thr[p].np = Nil
  BY <1>1, NotForking
<1>3. ForkOk(p)' /\ thr'[p].np = Nil
  BY <1>1, <1>2 DEF ForkOk, Moves
<1>4. \A q \in Procs \ {p} : ForkKept(q)
  BY DEF ForkKept, Moves, At
<1> QED
  BY <1>3, <1>4, ForkStays

\* The places and the EMBRYOs of all stay.
LEMMA ForkAll ==
  ASSUME IInv, \A q \in Procs : thr'[q].np = thr[q].np /\ At(q)' = At(q), \A q \in Procs : EmbryoSame(q)
  PROVE  ForkInv'
<1>1. \A q \in Procs : ForkOk(q)
  BY DEF IInv, ForkInv
<1>2. \A q \in Procs : ForkOk(q)'
  BY <1>1, Slots DEF ForkOk, EmbryoSame
<1> QED
  BY <1>2 DEF IInv, ForkInv

\* A fork keeps its EMBRYO to itself until it makes it RUNNABLE or gives it back.
LEMMA ForkStep == IInv /\ [Next]_vars => ForkInv'
<1> SUFFICES ASSUME IInv, [Next]_vars PROVE ForkInv'
  OBVIOUS
<1>0. TypeOK /\ FamilyInv
  BY DEF IInv
<1>1. ASSUME NEW c \in CPUs, NEW p \in Procs \cap {cpu[c].sp}, NEW call \in Calls, Syscall(c, p, call) PROVE ForkInv'
  <2>1. /\ p \in Procs /\ thr[p].pc = "user" /\ Moves(p, IF ptable[p].killed THEN "exit" ELSE call)
        /\ call \in {"fork", "exit", "wait", "kill", "sleep"} /\ UNCHANGED ptable
    BY <1>0, <1>1, SyscallIs
  <2>2. \A q \in Procs : EmbryoKept(p, q)
    BY <2>1 DEF EmbryoKept
  <2>3. (IF ptable[p].killed THEN "exit" ELSE call) \notin ForkPcs \cup {"y_sched", "y_back"}
    BY <2>1 DEF ForkPcs
  <2> QED
    BY <2>1, <2>2, <2>3, ForkMoves DEF ForkPcs
<1>2. ASSUME NEW c \in CPUs, NEW p \in Procs \cap {cpu[c].sp}, Sysret(c, p) PROVE ForkInv'
  <2>1. /\ p \in Procs /\ thr[p].pc = "ret" /\ Moves(p, IF ptable[p].killed THEN "exit" ELSE "user")
        /\ UNCHANGED ptable
    BY <1>0, <1>2, SysretIs
  <2>2. \A q \in Procs : EmbryoKept(p, q)
    BY <2>1 DEF EmbryoKept
  <2>3. (IF ptable[p].killed THEN "exit" ELSE "user") \notin ForkPcs \cup {"y_sched", "y_back"}
    BY <2>1 DEF ForkPcs
  <2> QED
    BY <2>1, <2>2, <2>3, ForkMoves DEF ForkPcs
<1>3. ASSUME NEW c \in CPUs, NEW p \in Procs \cap {cpu[c].sp}, allocproc(c, p) PROVE ForkInv'
  <2>1. p \in Procs /\ Runs(c, p) /\ thr[p].pc = "fork"
    BY <1>0, <1>3, AllocprocIs
  <2>2. CASE Moves(p, "ret") /\ UNCHANGED ptable
    <3>1. \A q \in Procs : EmbryoKept(p, q)
      BY <2>2 DEF EmbryoKept
    <3> QED
      BY <2>1, <2>2, <3>1, ForkMoves DEF ForkPcs
  <2>3. ASSUME NEW np \in Procs, Claims(p, np) PROVE ForkInv'
    <3>1. /\ ptable[np].state = "UNUSED" /\ ptable'[np].state = "EMBRYO" /\ TableBut(np)
          /\ ptable'[np].parent = Nil /\ thr'[p].pc = "f_kstack" /\ thr'[p].np = np /\ \A q \in Procs \ {p} : thr'[q] = thr[q]
      BY <1>0, <2>3 DEF Claims, Slot, Local, FamilyInv
    <3>2. ForkOk(p)'
      BY <3>1 DEF ForkOk, At, ForkPcs
    <3>3. \A q \in Procs \ {p} : ForkKept(q)
      BY <3>1 DEF ForkKept, At
    <3>4. \A q \in Procs : EmbryoKept(p, q)
      BY <3>1 DEF EmbryoKept, TableBut
    <3> QED
      BY <2>1, <3>1, <3>2, <3>3, <3>4, ForkStays
  <2> QED
    BY <1>0, <1>3, <2>2, <2>3, AllocprocIs
<1>4. ASSUME NEW c \in CPUs, NEW p \in Procs \cap {cpu[c].sp}, ForkKstack(c, p) PROVE ForkInv'
  <2>1. PICK np \in Procs :
          /\ np = thr[p].np /\ np # p /\ ptable[np].state = "EMBRYO" /\ Runs(c, p) /\ thr[p].pc = "f_kstack"
          /\ TableBut(np)
          /\ \/ /\ ptable'[np].state = "EMBRYO" /\ ptable'[np].kstack /\ ptable'[np].parent = Nil
                /\ Moves(p, "f_copy")
             \/ Local(p, "ret", Nil, thr[p].ticks0, thr[p].ypc)
    <3>1. PICK np \in Procs : /\ np = thr[p].np /\ np # p /\ ptable[np].state = "EMBRYO" /\ Runs(c, p)
                          /\ thr[p].pc = "f_kstack"
                          /\ \/ Slot(np, "EMBRYO", ptable[np].pid, ptable[np].parent, ptable[np].killed, ptable[np].chan, TRUE, ptable[np].pgdir) /\ Moves(p, "f_copy")
                             \/ /\ Slot(np, "UNUSED", ptable[np].pid, ptable[np].parent, ptable[np].killed, ptable[np].chan, FALSE, FALSE)
                                /\ Local(p, "ret", Nil, thr[p].ticks0, thr[p].ypc)
      BY ZenonT(60), <1>4, ForkKstackDoes
    <3> QED
      BY <3>1, RunsIs DEF Slot, ForkOk, At, ForkPcs
  <2>2. p \in Procs /\ thr[p].ypc = "none" /\ \A q \in Procs \ {p} : ForkKept(q)
    BY <2>1, RunsIs, SlotType, <1>0 DEF ForkKept, Moves, Local, At
  <2>3. \A q \in Procs \ {thr[p].np} : EmbryoKept(p, q)
    BY <2>1 DEF EmbryoKept, TableBut
  <2>4. ForkOk(p)' /\ thr'[p].np \in {thr[p].np, Nil}
    BY SMTT(60), <2>1, <2>2 DEF ForkOk, At, ForkPcs, Moves, Local
  <2> QED
    BY SMTT(60), <2>2, <2>3, <2>4, ForkStays
<1>5. ASSUME NEW c \in CPUs, NEW p \in Procs \cap {cpu[c].sp}, ForkCopy(c, p) PROVE ForkInv'
  <2>1. PICK np \in Procs :
          /\ np = thr[p].np /\ np # p /\ ptable[np].state = "EMBRYO" /\ Runs(c, p) /\ thr[p].pc = "f_copy"
          /\ TableBut(np)
          /\ \/ /\ ptable'[np].state = "EMBRYO" /\ ptable'[np].kstack /\ ptable'[np].pgdir /\ ptable'[np].parent = p
                /\ Moves(p, "f_run")
             \/ Local(p, "ret", Nil, thr[p].ticks0, thr[p].ypc)
    <3>1. PICK np \in Procs : /\ np = thr[p].np /\ np # p /\ ptable[np].state = "EMBRYO" /\ Runs(c, p)
                          /\ thr[p].pc = "f_copy"
                          /\ \/ Slot(np, "EMBRYO", ptable[np].pid, p, ptable[np].killed, ptable[np].chan, ptable[np].kstack, TRUE) /\ Moves(p, "f_run")
                             \/ /\ Slot(np, "UNUSED", ptable[np].pid, ptable[np].parent, ptable[np].killed, ptable[np].chan, FALSE, FALSE)
                                /\ Local(p, "ret", Nil, thr[p].ticks0, thr[p].ypc)
      BY ZenonT(60), <1>5, ForkCopyDoes
    <3> QED
      BY <3>1, RunsIs DEF Slot, ForkOk, At, ForkPcs
  <2>2. p \in Procs /\ thr[p].ypc = "none" /\ \A q \in Procs \ {p} : ForkKept(q)
    BY <2>1, RunsIs, SlotType, <1>0 DEF ForkKept, Moves, Local, At
  <2>3. \A q \in Procs \ {thr[p].np} : EmbryoKept(p, q)
    BY <2>1 DEF EmbryoKept, TableBut
  <2>4. ForkOk(p)' /\ thr'[p].np \in {thr[p].np, Nil}
    BY SMTT(60), <2>1, <2>2 DEF ForkOk, At, ForkPcs, Moves, Local
  <2> QED
    BY SMTT(60), <2>2, <2>3, <2>4, ForkStays
<1>6. ASSUME NEW c \in CPUs, NEW p \in Procs \cap {cpu[c].sp}, ForkRun(c, p) PROVE ForkInv'
  <2>1. PICK np \in Procs :
          /\ np = thr[p].np /\ np # p /\ Runs(c, p) /\ SetState(np, "RUNNABLE")
          /\ thr'[np].pc = "forkret" /\ thr'[np].np = Nil /\ thr'[p].pc = "ret" /\ thr'[p].np = Nil
          /\ \A q \in Procs \ {p, np} : thr'[q] = thr[q]
    BY <1>6, ForkRunDoes
  <2>2. p \in Procs /\ ForkOk(p)'
    BY <2>1 DEF ForkOk, At, ForkPcs
  <2>3. \A q \in Procs \ {p} : ForkKept(q)
    BY <2>1 DEF ForkKept, At, ForkPcs
  <2>4. \A q \in Procs \ {thr[p].np} : EmbryoKept(p, q)
    BY <2>1 DEF EmbryoKept, SetState, Slot, TableBut
  <2> QED
    BY <2>1, <2>2, <2>3, <2>4, ForkStays
<1>7. ASSUME NEW c \in CPUs, NEW p \in Procs \cap {cpu[c].sp}, forkret(c, p) PROVE ForkInv'
  <2>1. p \in Procs /\ thr[p].pc = "forkret" /\ Moves(p, "ret") /\ UNCHANGED ptable
    BY <1>0, <1>7, ForkretIs
  <2>2. \A q \in Procs : EmbryoKept(p, q)
    BY <2>1 DEF EmbryoKept
  <2> QED
    BY <2>1, <2>2, ForkMoves DEF ForkPcs
<1>8. ASSUME NEW c \in CPUs, NEW p \in Procs \cap {cpu[c].sp}, exit(c, p) PROVE ForkInv'
  <2>1. p \in Procs /\ Runs(c, p) /\ thr[p].pc = "exit"
    BY <1>0, <1>8, ExitIs
  <2>2. CASE UNCHANGED <<ptable, thr>>
    BY <2>2, ForkAll DEF At, EmbryoSame
  <2>3. CASE Exits(p) /\ Moves(p, "e_sched")
    <3>1. ptable[p].state # "EMBRYO"
      BY <2>1, RunsIs DEF OnOk
    <3>2. \A q \in Procs : EmbryoKept(p, q)
      BY <2>3, <3>1 DEF EmbryoKept, Exits, ExitWakes
    <3> QED
      BY <2>1, <2>3, <3>2, ForkMoves DEF ForkPcs
  <2> QED
    BY <1>0, <1>8, <2>2, <2>3, ExitIs
<1>9. ASSUME NEW c \in CPUs, NEW p \in Procs \cap {cpu[c].sp}, WaitLock(c, p) PROVE ForkInv'
  <2>1. p \in Procs /\ thr[p].pc = "wait" /\ Moves(p, "w_scan") /\ UNCHANGED ptable
    BY <1>0, <1>9, WaitLockIs
  <2>2. \A q \in Procs : EmbryoKept(p, q)
    BY <2>1 DEF EmbryoKept
  <2> QED
    BY <2>1, <2>2, ForkMoves DEF ForkPcs
<1>10. ASSUME NEW c \in CPUs, NEW p \in Procs \cap {cpu[c].sp}, WaitScan(c, p) PROVE ForkInv'
  <2>1. p \in Procs /\ Runs(c, p) /\ thr[p].pc = "w_scan" /\ ptable[p].state = "RUNNING"
    BY <1>10, WaitScanDoes
  <2>2. ASSUME NEW q \in Procs \ {p, initproc}, Reaps(p, q) PROVE ForkInv'
    <3>1. /\ ptable[q].state = "ZOMBIE" /\ thr'[q].np = Nil /\ thr'[q].pc = "none" /\ TableBut(q)
          /\ thr'[p].pc = "ret" /\ thr'[p].np = thr[p].np /\ \A o \in Procs \ {p, q} : thr'[o] = thr[o]
      BY <2>2 DEF Reaps, Slot, NoThread
    <3>2. \A o \in Procs : EmbryoKept(p, o)
      BY <3>1 DEF EmbryoKept, TableBut
    <3>3. thr[p].np = Nil
      BY <2>1, NotForking DEF At, ForkPcs
    <3>4. ForkOk(p)'
      BY <3>1, <3>3 DEF ForkOk, At, ForkPcs
    <3>5. \A o \in Procs \ {p} : ForkKept(o)
      BY <3>1 DEF ForkKept, At, ForkPcs
    <3> QED
      BY <2>1, <3>1, <3>2, <3>4, <3>5, ForkStays
  <2>3. CASE Moves(p, "ret") /\ UNCHANGED ptable
    <3>1. \A q \in Procs : EmbryoKept(p, q)
      BY <2>3 DEF EmbryoKept
    <3> QED
      BY <2>1, <2>3, <3>1, ForkMoves DEF ForkPcs
  <2>4. CASE Moves(p, "w_sched") /\ TableBut(p)
    <3>1. \A q \in Procs : EmbryoKept(p, q)
      BY <2>1, <2>4 DEF EmbryoKept, TableBut
    <3> QED
      BY <2>1, <2>4, <3>1, ForkMoves DEF ForkPcs
  <2> QED
    BY <1>10, <2>2, <2>3, <2>4, WaitScanDoes DEF Slot
<1>11. ASSUME NEW c \in CPUs, NEW p \in Procs \cap {cpu[c].sp}, WaitAwake(c, p) PROVE ForkInv'
  <2>1. /\ p \in Procs /\ Runs(c, p) /\ thr[p].pc = "w_slept" /\ Moves(p, "w_scan") /\ TableBut(p)
    BY <1>0, <1>11, WaitAwakeIs DEF Slot
  <2>2. ptable[p].state # "EMBRYO"
    BY <2>1, RunsIs DEF OnOk
  <2>3. \A q \in Procs : EmbryoKept(p, q)
    BY <2>1, <2>2 DEF EmbryoKept, TableBut
  <2> QED
    BY <2>1, <2>3, ForkMoves DEF ForkPcs
<1>12. ASSUME NEW c \in CPUs, NEW p \in Procs \cap {cpu[c].sp}, NEW pid \in KillPids, kill(c, p, pid) PROVE ForkInv'
  <2>1. p \in Procs /\ Runs(c, p) /\ thr[p].pc = "kill" /\ Moves(p, "ret")
    BY <1>0, <1>12, KillIs
  <2>2. \A q \in Procs : EmbryoKept(p, q)
    BY ZenonT(60), <1>0, <1>12, KillIs DEF EmbryoKept, Slot, TableBut
  <2> QED
    BY <2>1, <2>2, ForkMoves DEF ForkPcs
<1>13. ASSUME NEW c \in CPUs, NEW p \in Procs \cap {cpu[c].sp}, SleepStart(c, p) PROVE ForkInv'
  <2>1. /\ p \in Procs /\ thr[p].pc = "sleep" /\ Local(p, "s_test", thr[p].np, ticks, thr[p].ypc)
        /\ UNCHANGED ptable
    BY <1>0, <1>13, SleepStartIs
  <2>2. thr[p].np = Nil
    BY <2>1, NotForking DEF At, ForkPcs
  <2>3. ForkOk(p)' /\ thr'[p].np = Nil
    BY <2>1, <2>2 DEF ForkOk, At, ForkPcs, Local
  <2>4. \A q \in Procs \ {p} : ForkKept(q)
    BY <2>1 DEF ForkKept, At, Local
  <2>5. \A q \in Procs : EmbryoKept(p, q)
    BY <2>1 DEF EmbryoKept
  <2> QED
    BY <2>1, <2>3, <2>4, <2>5, ForkStays
<1>14. ASSUME NEW c \in CPUs, NEW p \in Procs \cap {cpu[c].sp}, SleepTest(c, p) PROVE ForkInv'
  <2>1. /\ p \in Procs /\ thr[p].pc = "s_test" /\ UNCHANGED ptable
        /\ Moves(p, "s_sleep") \/ Local(p, "ret", thr[p].np, 0, thr[p].ypc)
    BY <1>0, <1>14, SleepTestIs
  <2>2. thr[p].np = Nil
    BY <2>1, NotForking DEF At, ForkPcs
  <2>3. ForkOk(p)' /\ thr'[p].np = Nil
    BY <2>1, <2>2 DEF ForkOk, At, ForkPcs, Local, Moves
  <2>4. \A q \in Procs \ {p} : ForkKept(q)
    BY <2>1 DEF ForkKept, At, Local, Moves
  <2>5. \A q \in Procs : EmbryoKept(p, q)
    BY <2>1 DEF EmbryoKept
  <2> QED
    BY <2>1, <2>3, <2>4, <2>5, ForkStays
<1>15. ASSUME NEW c \in CPUs, NEW p \in Procs \cap {cpu[c].sp}, sleep(c, p) PROVE ForkInv'
  <2>1. /\ p \in Procs /\ Runs(c, p) /\ thr[p].pc = "s_sleep" /\ Moves(p, "s_sched") /\ TableBut(p)
    BY <1>0, <1>15, SleepIs DEF Slot
  <2>2. ptable[p].state # "EMBRYO"
    BY <2>1, RunsIs DEF OnOk
  <2>3. \A q \in Procs : EmbryoKept(p, q)
    BY <2>1, <2>2 DEF EmbryoKept, TableBut
  <2> QED
    BY <2>1, <2>3, ForkMoves DEF ForkPcs
<1>16. ASSUME NEW c \in CPUs, NEW p \in Procs \cap {cpu[c].sp}, SleepAwake(c, p) PROVE ForkInv'
  <2>1. /\ p \in Procs /\ Runs(c, p) /\ thr[p].pc = "s_slept" /\ Moves(p, "s_relock") /\ TableBut(p)
    BY <1>0, <1>16, SleepAwakeIs DEF Slot
  <2>2. ptable[p].state # "EMBRYO"
    BY <2>1, RunsIs DEF OnOk
  <2>3. \A q \in Procs : EmbryoKept(p, q)
    BY <2>1, <2>2 DEF EmbryoKept, TableBut
  <2> QED
    BY <2>1, <2>3, ForkMoves DEF ForkPcs
<1>17. ASSUME NEW c \in CPUs, NEW p \in Procs \cap {cpu[c].sp}, SleepRelock(c, p) PROVE ForkInv'
  <2>1. p \in Procs /\ thr[p].pc = "s_relock" /\ Moves(p, "s_test") /\ UNCHANGED ptable
    BY <1>0, <1>17, SleepRelockIs
  <2>2. \A q \in Procs : EmbryoKept(p, q)
    BY <2>1 DEF EmbryoKept
  <2> QED
    BY <2>1, <2>2, ForkMoves DEF ForkPcs
<1>18. ASSUME NEW c \in CPUs, NEW p \in Procs \cap {cpu[c].sp}, sched(c, p) PROVE ForkInv'
  <2>1. p \in Procs /\ thr[p].pc \in SchedPcs /\ Moves(p, Resume(thr[p].pc)) /\ UNCHANGED ptable
    BY <1>18, SchedDoes
  <2>2. \A q \in Procs : EmbryoKept(p, q)
    BY <2>1 DEF EmbryoKept
  <2>3. CASE thr[p].pc = "y_sched"
    <3>1. \A q \in Procs : thr'[q].np = thr[q].np /\ At(q)' = At(q)
      BY <2>1, <2>3, ResumeIs DEF At, Moves
    <3>2. \A q \in Procs : EmbryoSame(q)
      BY <2>1 DEF EmbryoKept, EmbryoSame
    <3> QED
      BY <3>1, <3>2, ForkAll
  <2>4. CASE thr[p].pc # "y_sched"
    BY <2>1, <2>2, <2>4, ResumeIs, ForkMoves DEF SchedPcs, ForkPcs
  <2> QED
    BY <2>3, <2>4
<1>19. ASSUME NEW c \in CPUs, NEW p \in Procs \cap {cpu[c].sp}, YieldBack(c, p) PROVE ForkInv'
  <2>1. /\ p \in Procs /\ thr[p].pc = "y_back" /\ thr[p].ypc \in NoLockPcs /\ UNCHANGED ptable
        /\ \/ Local(p, "exit", thr[p].np, thr[p].ticks0, "none") /\ thr[p].ypc = "user"
           \/ Local(p, thr[p].ypc, thr[p].np, thr[p].ticks0, "none")
    BY <1>19, YieldBackDoes
  <2>2. \A q \in Procs : EmbryoKept(p, q) /\ EmbryoSame(q)
    BY <2>1 DEF EmbryoKept, EmbryoSame
  <2>3. CASE Local(p, "exit", thr[p].np, thr[p].ticks0, "none") /\ thr[p].ypc = "user"
    <3>1. thr[p].np = Nil
      BY <2>1, <2>3, NotForking DEF At, ForkPcs
    <3>2. ForkOk(p)' /\ thr'[p].np = Nil
      BY <2>3, <3>1 DEF ForkOk, At, ForkPcs, Local
    <3>3. \A q \in Procs \ {p} : ForkKept(q)
      BY <2>3 DEF ForkKept, At, Local
    <3> QED
      BY <2>1, <2>2, <3>2, <3>3, ForkStays
  <2>4. CASE Local(p, thr[p].ypc, thr[p].np, thr[p].ticks0, "none")
    <3>1. thr'[p].np = thr[p].np /\ At(p)' = At(p)
      BY <2>1, <2>4 DEF At, Local, NoLockPcs
    <3>2. \A q \in Procs : thr'[q].np = thr[q].np /\ At(q)' = At(q)
      BY <2>4, <3>1 DEF At, Local
    <3> QED
      BY <2>2, <3>2, ForkAll
  <2> QED
    BY <2>1, <2>3, <2>4
<1>20. ASSUME NEW c \in CPUs, SchedAcquire(c) PROVE ForkInv'
  <2>1. UNCHANGED <<ptable, thr>>
    BY <1>0, <1>20, SchedAcquireIs
  <2> QED
    BY <2>1, ForkAll DEF At, EmbryoSame
<1>21. ASSUME NEW c \in CPUs, SchedSwitch(c) PROVE ForkInv'
  <2>1. PICK p \in Procs : ptable[p].state = "RUNNABLE" /\ SetState(p, "RUNNING")
    BY <1>21, SchedSwitchDoes
  <2>2. \A q \in Procs : EmbryoSame(q)
    BY <2>1 DEF EmbryoKept, EmbryoSame, SetState, Slot, TableBut
  <2>3. UNCHANGED thr
    BY <1>21, SchedSwitchDoes
  <2> QED
    BY <2>2, <2>3, ForkAll DEF At
<1>22. ASSUME NEW c \in CPUs, SchedBack(c) PROVE ForkInv'
  <2>1. UNCHANGED <<ptable, thr>>
    BY <1>0, <1>22, SchedBackDoes
  <2> QED
    BY <2>1, ForkAll DEF At, EmbryoSame
<1>23. ASSUME NEW c \in CPUs, SchedRelease(c) PROVE ForkInv'
  <2>1. UNCHANGED <<ptable, thr>>
    BY <1>0, <1>23, SchedReleaseIs
  <2> QED
    BY <2>1, ForkAll DEF At, EmbryoSame
<1>24. ASSUME NEW c \in CPUs, ClockTick(c) PROVE ForkInv'
  <2>1. UNCHANGED <<ptable, thr>>
    BY <1>0, <1>24, ClockTickIs
  <2> QED
    BY <2>1, ForkAll DEF At, EmbryoSame
<1>25. ASSUME NEW c \in CPUs, ClockWakeup(c) PROVE ForkInv'
  <2>1. Wakes(Ticks) /\ UNCHANGED thr
    BY <1>0, <1>25, ClockWakeupIs
  <2>2. \A q \in Procs : EmbryoSame(q)
    BY <2>1 DEF EmbryoKept, EmbryoSame, Wakes
  <2> QED
    BY <2>1, <2>2, ForkAll DEF At
<1>26. ASSUME NEW c \in CPUs, ClockRelease(c) PROVE ForkInv'
  <2>1. UNCHANGED <<ptable, thr>>
    BY <1>0, <1>26, ClockReleaseIs
  <2> QED
    BY <2>1, ForkAll DEF At, EmbryoSame
<1>27. ASSUME NEW c \in CPUs, TrapTail(c) PROVE ForkInv'
  <2>1. CASE UNCHANGED <<ptable, thr>>
    BY <2>1, ForkAll DEF At, EmbryoSame
  <2>2. ASSUME NEW p \in Procs, thr[p].pc = "user", Moves(p, "exit"), UNCHANGED ptable PROVE ForkInv'
    <3>1. \A q \in Procs : EmbryoKept(p, q)
      BY <2>2 DEF EmbryoKept
    <3> QED
      BY <2>2, <3>1, ForkMoves DEF ForkPcs
  <2>3. ASSUME NEW p \in Procs, thr[p].pc \in NoLockPcs, ptable[p].state = "RUNNING", SetState(p, "RUNNABLE"),
               Local(p, "y_sched", thr[p].np, thr[p].ticks0, thr[p].pc)
        PROVE  ForkInv'
    <3>1. \A q \in Procs : EmbryoSame(q)
      BY <2>3 DEF EmbryoKept, EmbryoSame, SetState, Slot, TableBut
    <3>2. thr'[p].np = thr[p].np /\ At(p)' = At(p)
      BY <2>3 DEF At, Local, NoLockPcs
    <3>3. \A q \in Procs : thr'[q].np = thr[q].np /\ At(q)' = At(q)
      BY <2>3, <3>2 DEF At, Local
    <3> QED
      BY <3>1, <3>3, ForkAll
  <2> QED
    BY <1>27, <2>1, <2>2, <2>3, TrapTailDoes
<1>28. CASE UNCHANGED vars
  BY <1>28, ForkAll DEF vars, At, EmbryoSame
<1> QED
  BY <1>1, <1>2, <1>3, <1>4, <1>5, <1>6, <1>7, <1>8, <1>9, <1>10, <1>11, <1>12, <1>13, <1>14,
     <1>15, <1>16, <1>17, <1>18, <1>19, <1>20, <1>21, <1>22, <1>23, <1>24, <1>25, <1>26, <1>27, <1>28 DEF Next, Thread, Scheduler, Clock

(***************************************************************************)
(* Stacks and page tables.                                                 *)
(***************************************************************************)
Unborn == {"UNUSED", "EMBRYO"}

\* A process that has its memory keeps it; one without may get both.
LiveKept(q) ==
  \/ /\ ptable[q].state \notin Unborn /\ ptable'[q].state \notin Unborn
     /\ ptable'[q].kstack = ptable[q].kstack /\ ptable'[q].pgdir = ptable[q].pgdir
  \/ ptable[q].state \in Unborn /\ ptable'[q].state \in Unborn
  \/ ptable[q].state \in Unborn /\ ptable'[q].kstack /\ ptable'[q].pgdir

\* A step that keeps the memory of every process, and c->proc, keeps MemoryInv.
LEMMA LiveStays ==
  ASSUME IInv, \A q \in Procs : LiveKept(q), \A c \in CPUs : cpu'[c].proc \in {cpu[c].proc, Nil}
  PROVE  MemoryInv'
<1>1. ASSUME NEW c \in CPUs, cpu'[c].proc # Nil PROVE ptable'[cpu'[c].proc].state \notin Unborn
  <2>1. PICK q \in Procs : q = cpu'[c].proc /\ q = cpu[c].proc
    BY <1>1, CpuIs DEF IInv
  <2>2. ptable[q].state \notin Unborn
    BY <2>1, Slots DEF IInv, MemoryInv, Unborn
  <2> QED
    BY <2>1, <2>2 DEF LiveKept
<1>2. \A q \in Procs : ptable'[q].state \notin Unborn => ptable'[q].kstack /\ ptable'[q].pgdir
  BY DEF IInv, MemoryInv, LiveKept, Unborn
<1> QED
  BY <1>1, <1>2 DEF MemoryInv, Unborn

\* The table, or the slot m but for what LiveKept tells apart, stays.
LEMMA LiveSame == ASSUME UNCHANGED ptable PROVE \A q \in Procs : LiveKept(q)
BY DEF LiveKept

\* One slot changes.
LEMMA LiveBut == ASSUME NEW m \in Procs, TableBut(m), LiveKept(m) PROVE \A q \in Procs : LiveKept(q)
BY DEF LiveKept, TableBut

\* wait frees the memory of a zombie only when no CPU has it in c->proc: a CPU that still has it holds the lock.
LEMMA MemoryStep == IInv /\ [Next]_vars => MemoryInv'
<1> SUFFICES ASSUME IInv, [Next]_vars PROVE MemoryInv'
  OBVIOUS
<1>0. TypeOK /\ CpuInv /\ LockInv /\ MemoryInv
  BY DEF IInv
<1>1. ASSUME NEW c \in CPUs, NEW p \in Procs \cap {cpu[c].sp}, NEW call \in Calls, Syscall(c, p, call) PROVE MemoryInv'
  <2>1. UNCHANGED <<ptable, cpu>>
    BY <1>0, <1>1, SyscallIs
  <2> QED
    BY <2>1, LiveStays, LiveSame
<1>2. ASSUME NEW c \in CPUs, NEW p \in Procs \cap {cpu[c].sp}, Sysret(c, p) PROVE MemoryInv'
  <2>1. UNCHANGED <<ptable, cpu>>
    BY <1>0, <1>2, SysretIs
  <2> QED
    BY <2>1, LiveStays, LiveSame
<1>3. ASSUME NEW c \in CPUs, NEW p \in Procs \cap {cpu[c].sp}, allocproc(c, p) PROVE MemoryInv'
  <2>1. UNCHANGED cpu
    BY <1>0, <1>3, AllocprocIs
  <2>2. ASSUME NEW np \in Procs, Claims(p, np) PROVE LiveKept(np) /\ TableBut(np)
    BY <2>2 DEF Claims, Slot, LiveKept, Unborn
  <2>3. UNCHANGED ptable \/ \E np \in Procs : Claims(p, np)
    BY <1>0, <1>3, AllocprocIs
  <2> QED
    BY <2>1, <2>2, <2>3, LiveStays, LiveSame, LiveBut
<1>4. ASSUME NEW c \in CPUs, NEW p \in Procs \cap {cpu[c].sp}, ForkKstack(c, p) PROVE MemoryInv'
  <2>1. UNCHANGED cpu
    BY <1>4, ForkKstackDoes
  <2>2. PICK np \in Procs : ptable[np].state = "EMBRYO" /\ ptable'[np].state \in Unborn /\ TableBut(np)
    BY <1>4, ForkKstackDoes DEF Slot, Unborn
  <2>3. LiveKept(np)
    BY <2>2 DEF LiveKept, Unborn
  <2> QED
    BY <2>1, <2>2, <2>3, LiveStays, LiveBut
<1>5. ASSUME NEW c \in CPUs, NEW p \in Procs \cap {cpu[c].sp}, ForkCopy(c, p) PROVE MemoryInv'
  <2>1. UNCHANGED cpu
    BY <1>5, ForkCopyDoes
  <2>2. PICK np \in Procs : ptable[np].state = "EMBRYO" /\ ptable'[np].state \in Unborn /\ TableBut(np)
    BY ZenonT(60), <1>5, ForkCopyDoes DEF Slot, Unborn
  <2>3. LiveKept(np)
    BY <2>2 DEF LiveKept, Unborn
  <2> QED
    BY <2>1, <2>2, <2>3, LiveStays, LiveBut
<1>6. ASSUME NEW c \in CPUs, NEW p \in Procs \cap {cpu[c].sp}, ForkRun(c, p) PROVE MemoryInv'
  <2>1. PICK np \in Procs : /\ ptable[np].state = "EMBRYO" /\ ptable[np].kstack /\ ptable[np].pgdir
                           /\ SetState(np, "RUNNABLE") /\ UNCHANGED cpu
    BY <1>6, ForkRunDoes
  <2>2. LiveKept(np) /\ TableBut(np)
    BY <2>1 DEF LiveKept, Unborn, SetState, Slot
  <2> QED
    BY <2>1, <2>2, LiveStays, LiveBut
<1>7. ASSUME NEW c \in CPUs, NEW p \in Procs \cap {cpu[c].sp}, forkret(c, p) PROVE MemoryInv'
  <2>1. UNCHANGED <<ptable, cpu>>
    BY <1>0, <1>7, ForkretIs
  <2> QED
    BY <2>1, LiveStays, LiveSame
<1>8. ASSUME NEW c \in CPUs, NEW p \in Procs \cap {cpu[c].sp}, exit(c, p) PROVE MemoryInv'
  <2>1. p \in Procs /\ Runs(c, p) /\ UNCHANGED cpu
    BY <1>0, <1>8, ExitIs
  <2>2. CASE UNCHANGED ptable
    BY <2>1, <2>2, LiveStays, LiveSame
  <2>3. CASE Exits(p)
    <3>1. ptable[p].state \notin Unborn
      BY <2>1, RunsIs DEF OnOk, Unborn
    <3>2. ASSUME NEW q \in Procs PROVE LiveKept(q)
      BY <2>3, <3>1 DEF Exits, ExitWakes, LiveKept, Unborn
    <3> QED
      BY <2>1, <3>2, LiveStays
  <2> QED
    BY <1>0, <1>8, <2>2, <2>3, ExitIs
<1>9. ASSUME NEW c \in CPUs, NEW p \in Procs \cap {cpu[c].sp}, WaitLock(c, p) PROVE MemoryInv'
  <2>1. UNCHANGED <<ptable, cpu>>
    BY <1>0, <1>9, WaitLockIs
  <2> QED
    BY <2>1, LiveStays, LiveSame
<1>10. ASSUME NEW c \in CPUs, NEW p \in Procs \cap {cpu[c].sp}, WaitScan(c, p) PROVE MemoryInv'
  <2>1. p \in Procs /\ Runs(c, p) /\ ptable[p].state = "RUNNING" /\ lock = c /\ UNCHANGED cpu
    BY <1>10, WaitScanDoes
  <2>2. ASSUME NEW q \in Procs \ {p, initproc}, Reaps(p, q), ~OnCpu(q) PROVE MemoryInv'
    <3>1. ASSUME NEW d \in CPUs PROVE cpu[d].proc # q
      <4>1. SUFFICES ASSUME cpu[d].proc = q PROVE FALSE
        OBVIOUS
      <4>2. cpu[d].sp = Nil /\ cpu[d].spc = "swtch"
        BY <1>0, <2>2, <4>1, Slots DEF CpuInv, OnCpu
      <4>3. lock = d
        BY <1>0, <4>2 DEF LockInv, InSection
      <4> QED
        BY <2>1, <4>2, <4>3 DEF Runs
    <3>2. ptable'[q].state = "UNUSED" /\ \A o \in Procs \ {q} : ptable'[o] = ptable[o]
      BY <2>2 DEF Reaps, Slot, TableBut
    <3> QED
      BY <1>0, <2>1, <3>1, <3>2, CpuIs DEF MemoryInv
  <2>3. CASE UNCHANGED ptable
    BY <2>1, <2>3, LiveStays, LiveSame
  <2>4. CASE Slot(p, "SLEEPING", ptable[p].pid, ptable[p].parent, ptable[p].killed, p,
                  ptable[p].kstack, ptable[p].pgdir)
    <3>1. LiveKept(p) /\ TableBut(p)
      BY <2>1, <2>4 DEF LiveKept, Unborn, Slot
    <3> QED
      BY <2>1, <3>1, LiveStays, LiveBut
  <2> QED
    BY <1>10, <2>2, <2>3, <2>4, WaitScanDoes
<1>11. ASSUME NEW c \in CPUs, NEW p \in Procs \cap {cpu[c].sp}, WaitAwake(c, p) PROVE MemoryInv'
  <2>1. /\ p \in Procs /\ Runs(c, p) /\ thr[p].pc = "w_slept" /\ TableBut(p) /\ UNCHANGED cpu
        /\ ptable'[p].state \in {ptable[p].state, "SLEEPING"}
        /\ ptable'[p].kstack = ptable[p].kstack /\ ptable'[p].pgdir = ptable[p].pgdir
    BY <1>0, <1>11, WaitAwakeIs DEF Slot
  <2>2. LiveKept(p)
    BY <2>1, RunsIs DEF LiveKept, Unborn, OnOk
  <2> QED
    BY <2>1, <2>2, LiveStays, LiveBut
<1>12. ASSUME NEW c \in CPUs, NEW p \in Procs \cap {cpu[c].sp}, NEW pid \in KillPids, kill(c, p, pid) PROVE MemoryInv'
  <2>1. UNCHANGED cpu
    BY <1>0, <1>12, KillIs
  <2>2. \A q \in Procs : LiveKept(q)
    <3>1. ASSUME NEW m \in Procs, TableBut(m), ptable'[m].kstack = ptable[m].kstack, ptable'[m].pgdir = ptable[m].pgdir,
                 ptable'[m].state = IF ptable[m].state = "SLEEPING" THEN "RUNNABLE" ELSE ptable[m].state
          PROVE  LiveKept(m)
      BY <3>1 DEF LiveKept, Unborn
    <3>2. \/ UNCHANGED ptable
          \/ \E m \in Procs :
               /\ TableBut(m) /\ ptable'[m].kstack = ptable[m].kstack /\ ptable'[m].pgdir = ptable[m].pgdir
               /\ ptable'[m].state = IF ptable[m].state = "SLEEPING" THEN "RUNNABLE" ELSE ptable[m].state
      BY <1>0, <1>12, KillIs DEF Slot
    <3> QED
      BY <3>1, <3>2, LiveSame, LiveBut
  <2> QED
    BY <2>1, <2>2, LiveStays
<1>13. ASSUME NEW c \in CPUs, NEW p \in Procs \cap {cpu[c].sp}, SleepStart(c, p) PROVE MemoryInv'
  <2>1. UNCHANGED <<ptable, cpu>>
    BY <1>0, <1>13, SleepStartIs
  <2> QED
    BY <2>1, LiveStays, LiveSame
<1>14. ASSUME NEW c \in CPUs, NEW p \in Procs \cap {cpu[c].sp}, SleepTest(c, p) PROVE MemoryInv'
  <2>1. UNCHANGED <<ptable, cpu>>
    BY <1>0, <1>14, SleepTestIs
  <2> QED
    BY <2>1, LiveStays, LiveSame
<1>15. ASSUME NEW c \in CPUs, NEW p \in Procs \cap {cpu[c].sp}, sleep(c, p) PROVE MemoryInv'
  <2>1. /\ p \in Procs /\ Runs(c, p) /\ thr[p].pc = "s_sleep" /\ TableBut(p) /\ UNCHANGED cpu
        /\ ptable'[p].state \in {ptable[p].state, "SLEEPING"}
        /\ ptable'[p].kstack = ptable[p].kstack /\ ptable'[p].pgdir = ptable[p].pgdir
    BY <1>0, <1>15, SleepIs DEF Slot
  <2>2. LiveKept(p)
    BY <2>1, RunsIs DEF LiveKept, Unborn, OnOk
  <2> QED
    BY <2>1, <2>2, LiveStays, LiveBut
<1>16. ASSUME NEW c \in CPUs, NEW p \in Procs \cap {cpu[c].sp}, SleepAwake(c, p) PROVE MemoryInv'
  <2>1. /\ p \in Procs /\ Runs(c, p) /\ thr[p].pc = "s_slept" /\ TableBut(p) /\ UNCHANGED cpu
        /\ ptable'[p].state \in {ptable[p].state, "SLEEPING"}
        /\ ptable'[p].kstack = ptable[p].kstack /\ ptable'[p].pgdir = ptable[p].pgdir
    BY <1>0, <1>16, SleepAwakeIs DEF Slot
  <2>2. LiveKept(p)
    BY <2>1, RunsIs DEF LiveKept, Unborn, OnOk
  <2> QED
    BY <2>1, <2>2, LiveStays, LiveBut
<1>17. ASSUME NEW c \in CPUs, NEW p \in Procs \cap {cpu[c].sp}, SleepRelock(c, p) PROVE MemoryInv'
  <2>1. UNCHANGED <<ptable, cpu>>
    BY <1>0, <1>17, SleepRelockIs
  <2> QED
    BY <2>1, LiveStays, LiveSame
<1>18. ASSUME NEW c \in CPUs, NEW p \in Procs \cap {cpu[c].sp}, sched(c, p) PROVE MemoryInv'
  <2>1. UNCHANGED ptable /\ \A d \in CPUs : cpu'[d].proc \in {cpu[d].proc, Nil}
    BY <1>0, <1>18, SchedDoes DEF Processor, CpusBut
  <2> QED
    BY <2>1, LiveStays, LiveSame
<1>19. ASSUME NEW c \in CPUs, NEW p \in Procs \cap {cpu[c].sp}, YieldBack(c, p) PROVE MemoryInv'
  <2>1. UNCHANGED <<ptable, cpu>>
    BY <1>0, <1>19, YieldBackDoes
  <2> QED
    BY <2>1, LiveStays, LiveSame
<1>20. ASSUME NEW c \in CPUs, SchedAcquire(c) PROVE MemoryInv'
  <2>1. UNCHANGED ptable /\ \A d \in CPUs : cpu'[d].proc \in {cpu[d].proc, Nil}
    BY <1>0, <1>20, SchedAcquireIs DEF Processor, CpusBut
  <2> QED
    BY <2>1, LiveStays, LiveSame
<1>21. ASSUME NEW c \in CPUs, SchedSwitch(c) PROVE MemoryInv'
  <2>1. PICK p \in Procs : /\ ptable[p].state = "RUNNABLE" /\ SetState(p, "RUNNING")
                          /\ Processor(c, p, p, p, "swtch", p, "none")
    BY <1>21, SchedSwitchDoes
  <2>2. /\ ptable'[p].state = "RUNNING" /\ ptable'[p].kstack = ptable[p].kstack /\ ptable'[p].pgdir = ptable[p].pgdir
        /\ TableBut(p) /\ cpu'[c].proc = p /\ CpusBut(c)
    BY <2>1 DEF SetState, Slot, Processor
  <2> QED
    BY <1>0, <2>1, <2>2, CpuIs DEF MemoryInv, TableBut, CpusBut
<1>22. ASSUME NEW c \in CPUs, SchedBack(c) PROVE MemoryInv'
  <2>1. UNCHANGED ptable /\ \A d \in CPUs : cpu'[d].proc \in {cpu[d].proc, Nil}
    BY <1>0, <1>22, SchedBackDoes DEF Processor, CpusBut
  <2> QED
    BY <2>1, LiveStays, LiveSame
<1>23. ASSUME NEW c \in CPUs, SchedRelease(c) PROVE MemoryInv'
  <2>1. UNCHANGED ptable /\ \A d \in CPUs : cpu'[d].proc \in {cpu[d].proc, Nil}
    BY <1>0, <1>23, SchedReleaseIs DEF Processor, CpusBut
  <2> QED
    BY <2>1, LiveStays, LiveSame
<1>24. ASSUME NEW c \in CPUs, ClockTick(c) PROVE MemoryInv'
  <2>1. UNCHANGED ptable /\ \A d \in CPUs : cpu'[d].proc \in {cpu[d].proc, Nil}
    BY <1>0, <1>24, ClockTickIs DEF Processor, CpusBut
  <2> QED
    BY <2>1, LiveStays, LiveSame
<1>25. ASSUME NEW c \in CPUs, ClockWakeup(c) PROVE MemoryInv'
  <2>1. Wakes(Ticks) /\ \A d \in CPUs : cpu'[d].proc \in {cpu[d].proc, Nil}
    BY <1>0, <1>25, ClockWakeupIs DEF Processor, CpusBut
  <2>2. \A q \in Procs : LiveKept(q)
    BY <2>1 DEF Wakes, LiveKept, Unborn
  <2> QED
    BY <2>1, <2>2, LiveStays
<1>26. ASSUME NEW c \in CPUs, ClockRelease(c) PROVE MemoryInv'
  <2>1. UNCHANGED ptable /\ \A d \in CPUs : cpu'[d].proc \in {cpu[d].proc, Nil}
    BY <1>0, <1>26, ClockReleaseIs DEF Processor, CpusBut
  <2> QED
    BY <2>1, LiveStays, LiveSame
<1>27. ASSUME NEW c \in CPUs, TrapTail(c) PROVE MemoryInv'
  <2>1. \A d \in CPUs : cpu'[d].proc \in {cpu[d].proc, Nil}
    BY <1>27, TrapTailDoes DEF Processor, CpusBut
  <2>2. UNCHANGED ptable \/ \E p \in Procs : ptable[p].state = "RUNNING" /\ SetState(p, "RUNNABLE")
    BY <1>27, TrapTailDoes
  <2>3. ASSUME NEW p \in Procs, ptable[p].state = "RUNNING", SetState(p, "RUNNABLE") PROVE LiveKept(p) /\ TableBut(p)
    BY <2>3 DEF LiveKept, Unborn, SetState, Slot
  <2> QED
    BY <2>1, <2>2, <2>3, LiveStays, LiveSame, LiveBut
<1>28. CASE UNCHANGED vars
  BY <1>28, LiveStays, LiveSame DEF vars
<1> QED
  BY <1>1, <1>2, <1>3, <1>4, <1>5, <1>6, <1>7, <1>8, <1>9, <1>10, <1>11, <1>12, <1>13, <1>14,
     <1>15, <1>16, <1>17, <1>18, <1>19, <1>20, <1>21, <1>22, <1>23, <1>24, <1>25, <1>26, <1>27, <1>28 DEF Next, Thread, Scheduler, Clock

(***************************************************************************)
(* Parents and children.                                                   *)
(***************************************************************************)
\* A slot keeps its parent, unless it holds no process; who lives, lives on; nobody is born.
FamilyKept(q) ==
  /\ \/ ptable'[q].parent = ptable[q].parent
     \/ q # initproc /\ ptable'[q].parent # q /\ ptable'[q].state \in Unborn
  /\ ptable[q].state \in Alive => ptable'[q].state \in Alive
  /\ ptable[q].state \in Unborn => ptable'[q].state \in Unborn
  /\ ptable'[q].state = "UNUSED" => ptable'[q].parent = Nil

\* A step that keeps the parent and the life of every process keeps FamilyInv.
LEMMA FamilyStays ==
  ASSUME IInv, \A q \in Procs : FamilyKept(q)
  PROVE  FamilyInv'
<1>1. FamilyInv /\ TypeOK
  BY DEF IInv
<1>2. ptable'[initproc].parent = Nil /\ ptable'[initproc].state \in Alive
  BY <1>1, Slots DEF FamilyInv, FamilyKept
<1>3. ASSUME NEW q \in Procs
      PROVE  ptable'[q].parent # q /\ (ptable'[q].state = "UNUSED" => ptable'[q].parent = Nil)
  BY <1>1 DEF FamilyInv, FamilyKept
<1>4. ASSUME NEW q \in Procs \ {initproc}, ptable'[q].state \notin Unborn
      PROVE  ptable'[q].parent # Nil /\ ptable'[ptable'[q].parent].state \in Alive
  <2>1. ptable'[q].parent = ptable[q].parent /\ ptable[q].state \notin Unborn
    BY <1>4 DEF FamilyKept
  <2>2. ptable[q].parent # Nil /\ ptable[ptable[q].parent].state \in Alive
    BY <1>1, <2>1 DEF FamilyInv, Unborn
  <2>3. ptable[q].parent \in Procs
    BY <1>1, <2>2, SlotType
  <2> QED
    BY <2>1, <2>2, <2>3 DEF FamilyKept
<1> QED
  BY <1>2, <1>3, <1>4 DEF FamilyInv, Unborn

\* A slot with the same state and parent.
LEMMA FamilySame ==
  ASSUME IInv, NEW q \in Procs, ptable'[q].state = ptable[q].state, ptable'[q].parent = ptable[q].parent
  PROVE  FamilyKept(q)
BY DEF FamilyKept, IInv, FamilyInv

\* What the steps of fork do to its EMBRYO before it is RUNNABLE, besides its memory.
Fills(p, np) ==
  /\ np = thr[p].np /\ np # p /\ np # initproc /\ ptable[np].state = "EMBRYO" /\ ptable[np].parent = Nil
  /\ TableBut(np) /\ ptable'[np].pid = ptable[np].pid /\ ptable'[np].killed = ptable[np].killed
  /\ \/ ptable'[np].state = "EMBRYO" /\ ptable'[np].parent \in {Nil, p}
     \/ ptable'[np].state = "UNUSED" /\ ptable'[np].parent = Nil
  /\ thr[p].pc \in ForkPcs /\ thr'[p].pc \in {"ret", "f_copy", "f_run"} /\ thr'[p].ypc = thr[p].ypc
  /\ \A q \in Procs \ {p} : thr'[q] = thr[q]

\* The two steps of fork that do so.
LEMMA ForkFills ==
  ASSUME IInv, NEW c \in CPUs, NEW p \in Procs \cap {cpu[c].sp}, ForkKstack(c, p) \/ ForkCopy(c, p)
  PROVE  Runs(c, p) /\ UNCHANGED <<cpu, lock, tlock, ticks, nextpid, panicked>> /\ \E np \in Procs : Fills(p, np)
<1>1. CASE ForkKstack(c, p)
  <2>1. PICK np \in Procs :
           /\ np = thr[p].np /\ np # p /\ np # initproc /\ ptable[np].state = "EMBRYO"
           /\ Runs(c, p) /\ thr[p].pc = "f_kstack"
           /\ \/ /\ Slot(np, "EMBRYO", ptable[np].pid, ptable[np].parent, ptable[np].killed, ptable[np].chan,
                         TRUE, ptable[np].pgdir)
                 /\ Moves(p, "f_copy")
              \/ /\ Slot(np, "UNUSED", ptable[np].pid, ptable[np].parent, ptable[np].killed, ptable[np].chan,
                         FALSE, FALSE)
                 /\ Local(p, "ret", Nil, thr[p].ticks0, thr[p].ypc)
           /\ UNCHANGED <<cpu, lock, tlock, ticks, nextpid, panicked>>
    BY ZenonT(60), <1>1, ForkKstackDoes
  <2>2. ptable[np].parent = Nil
    BY <2>1, RunsIs DEF ForkOk, At, ForkPcs
  <2> QED
    BY <2>1, <2>2 DEF Fills, Slot, Moves, Local, ForkPcs
<1>2. CASE ForkCopy(c, p)
  <2>1. PICK np \in Procs :
           /\ np = thr[p].np /\ np # p /\ np # initproc /\ ptable[np].state = "EMBRYO" /\ ptable[np].parent = Nil
           /\ Runs(c, p) /\ thr[p].pc = "f_copy"
           /\ \/ /\ Slot(np, "EMBRYO", ptable[np].pid, p, ptable[np].killed, ptable[np].chan,
                         ptable[np].kstack, TRUE)
                 /\ Moves(p, "f_run")
              \/ /\ Slot(np, "UNUSED", ptable[np].pid, ptable[np].parent, ptable[np].killed, ptable[np].chan,
                         FALSE, FALSE)
                 /\ Local(p, "ret", Nil, thr[p].ticks0, thr[p].ypc)
           /\ UNCHANGED <<cpu, lock, tlock, ticks, nextpid, panicked>>
    BY ZenonT(60), <1>2, ForkCopyDoes
  <2> QED
    BY <2>1 DEF Fills, Slot, Moves, Local, ForkPcs
<1> QED
  BY SMTT(60), <1>1, <1>2

\* What a step that changes the slot m alone has to show.
LEMMA FamilyBut ==
  ASSUME IInv, NEW m \in Procs, TableBut(m), FamilyKept(m)
  PROVE  FamilyInv'
<1>1. \A q \in Procs : FamilyKept(q)
  BY FamilySame DEF TableBut
<1> QED
  BY <1>1, FamilyStays

\* The table stays.
LEMMA FamilyTable == ASSUME IInv, UNCHANGED ptable PROVE FamilyInv'
BY FamilySame, FamilyStays

\* A process that lives and is as good as it was.
LEMMA FamilyLives ==
  ASSUME IInv, NEW m \in Procs, TableBut(m), ptable[m].state \in Alive, ptable'[m].state \in Alive,
         ptable'[m].parent = ptable[m].parent
  PROVE  FamilyInv'
<1>1. FamilyKept(m)
  BY DEF FamilyKept, Alive, Unborn
<1> QED
  BY <1>1, FamilyBut

\* exit hands the children on before their parent is a zombie.
LEMMA FamilyStep == IInv /\ [Next]_vars => FamilyInv'
<1> SUFFICES ASSUME IInv, [Next]_vars PROVE FamilyInv'
  OBVIOUS
<1>0. TypeOK /\ FamilyInv
  BY DEF IInv
<1>1. ASSUME NEW c \in CPUs, NEW p \in Procs \cap {cpu[c].sp}, NEW call \in Calls, Syscall(c, p, call) PROVE FamilyInv'
  <2>1. UNCHANGED ptable
    BY <1>0, <1>1, SyscallIs
  <2> QED
    BY <2>1, FamilyTable
<1>2. ASSUME NEW c \in CPUs, NEW p \in Procs \cap {cpu[c].sp}, Sysret(c, p) PROVE FamilyInv'
  <2>1. UNCHANGED ptable
    BY <1>0, <1>2, SysretIs
  <2> QED
    BY <2>1, FamilyTable
<1>3. ASSUME NEW c \in CPUs, NEW p \in Procs \cap {cpu[c].sp}, allocproc(c, p) PROVE FamilyInv'
  <2>1. ASSUME NEW np \in Procs, Claims(p, np) PROVE FamilyKept(np) /\ TableBut(np)
    BY <2>1 DEF Claims, Slot, FamilyKept, Unborn, Alive
  <2>2. UNCHANGED ptable \/ \E np \in Procs : Claims(p, np)
    BY <1>0, <1>3, AllocprocIs
  <2> QED
    BY <2>1, <2>2, FamilyTable, FamilyBut
<1>4. ASSUME NEW c \in CPUs, NEW p \in Procs \cap {cpu[c].sp}, ForkKstack(c, p) PROVE FamilyInv'
  <2>1. PICK np \in Procs : Fills(p, np)
    BY <1>4, ForkFills
  <2>2. FamilyKept(np) /\ TableBut(np)
    BY <2>1, Slots DEF Fills, FamilyKept, Unborn, Alive
  <2> QED
    BY <2>2, FamilyBut
<1>5. ASSUME NEW c \in CPUs, NEW p \in Procs \cap {cpu[c].sp}, ForkCopy(c, p) PROVE FamilyInv'
  <2>1. PICK np \in Procs : Fills(p, np)
    BY <1>5, ForkFills
  <2>2. FamilyKept(np) /\ TableBut(np)
    BY <2>1, Slots DEF Fills, FamilyKept, Unborn, Alive
  <2> QED
    BY <2>2, FamilyBut
<1>6. ASSUME NEW c \in CPUs, NEW p \in Procs \cap {cpu[c].sp}, ForkRun(c, p) PROVE FamilyInv'
  <2>1. PICK np \in Procs : /\ ptable[np].state = "EMBRYO" /\ np # p /\ np # initproc /\ ptable[np].parent = p
                           /\ p \in Procs /\ ptable[p].state = "RUNNING" /\ SetState(np, "RUNNABLE")
    BY <1>6, ForkRunDoes
  <2>2. /\ ptable'[np].state = "RUNNABLE" /\ ptable'[np].parent = p
        /\ \A q \in Procs \ {np} : ptable'[q] = ptable[q]
    BY <2>1 DEF SetState, Slot, TableBut
  <2>3. \A q \in Procs : ptable'[q].parent = ptable[q].parent
    BY <2>1, <2>2
  <2>4. \A q \in Procs : ptable[q].state \in Alive => ptable'[q].state \in Alive
    BY <2>1, <2>2 DEF Alive
  <2> QED
    BY <1>0, <2>1, <2>2, <2>3, <2>4, Slots, SlotType DEF FamilyInv, Alive
<1>7. ASSUME NEW c \in CPUs, NEW p \in Procs \cap {cpu[c].sp}, forkret(c, p) PROVE FamilyInv'
  <2>1. UNCHANGED ptable
    BY <1>0, <1>7, ForkretIs
  <2> QED
    BY <2>1, FamilyTable
<1>8. ASSUME NEW c \in CPUs, NEW p \in Procs \cap {cpu[c].sp}, exit(c, p) PROVE FamilyInv'
  <2>1. p \in Procs /\ Runs(c, p) /\ thr[p].pc = "exit"
    BY <1>0, <1>8, ExitIs
  <2>2. CASE UNCHANGED ptable
    BY <2>2, FamilyTable
  <2>3. CASE p # initproc /\ Exits(p)
    <3>1. ptable[p].state = "RUNNING"
      BY <2>1, RunsIs DEF OnOk, SchedPcs
    <3>2. \A q \in Procs \ {p} : ptable[q].state \in Alive => ptable'[q].state \in Alive
      BY <2>3 DEF Exits, ExitWakes, Alive
    <3>3. \A q \in Procs : ptable'[q].parent = IF ptable[q].parent = p THEN initproc ELSE ptable[q].parent
      BY <2>3 DEF Exits
    <3>4. \A q \in Procs : ptable'[q].state \in Unborn => ptable'[q].state = ptable[q].state
      BY <2>3 DEF Exits, Unborn
    <3>5. \A q \in Procs : ptable[q].state \in Unborn => ptable'[q].state \in Unborn
      BY <2>3, <3>1 DEF Exits, Unborn, ExitWakes
    <3>6. ptable'[initproc].parent = Nil /\ ptable'[initproc].state \in Alive
      BY <1>0, <2>1, <2>3, <3>2, <3>3, Slots DEF FamilyInv
    <3>7. \A q \in Procs : ptable'[q].parent # q /\ (ptable'[q].state = "UNUSED" => ptable'[q].parent = Nil)
      BY <1>0, <2>1, <3>3, <3>4, <3>6, Slots DEF FamilyInv, Unborn
    <3>8. ASSUME NEW q \in Procs \ {initproc}, ptable'[q].state \notin Unborn
          PROVE  ptable'[q].parent # Nil /\ ptable'[ptable'[q].parent].state \in Alive
      <4>1. ptable[q].state \notin Unborn
        BY <3>5, <3>8
      <4>2. ptable[q].parent # Nil /\ ptable[ptable[q].parent].state \in Alive /\ ptable[q].parent \in Procs
        BY <1>0, <4>1, SlotType DEF FamilyInv, Unborn
      <4> QED
        BY <3>2, <3>3, <3>6, <4>2, Slots
    <3> QED
      BY <3>6, <3>7, <3>8 DEF FamilyInv, Unborn
  <2> QED
    BY <1>0, <1>8, <2>2, <2>3, ExitIs
<1>9. ASSUME NEW c \in CPUs, NEW p \in Procs \cap {cpu[c].sp}, WaitLock(c, p) PROVE FamilyInv'
  <2>1. UNCHANGED ptable
    BY <1>0, <1>9, WaitLockIs
  <2> QED
    BY <2>1, FamilyTable
<1>10. ASSUME NEW c \in CPUs, NEW p \in Procs \cap {cpu[c].sp}, WaitScan(c, p) PROVE FamilyInv'
  <2>1. p \in Procs /\ ptable[p].state = "RUNNING"
    BY <1>10, WaitScanDoes
  <2>2. ASSUME NEW q \in Procs \ {p, initproc}, Reaps(p, q) PROVE FamilyInv'
    <3>1. FamilyKept(q) /\ TableBut(q)
      BY <2>2, Slots DEF Reaps, Slot, FamilyKept, Unborn, Alive
    <3> QED
      BY <3>1, FamilyBut
  <2>3. CASE UNCHANGED ptable
    BY <2>3, FamilyTable
  <2>4. CASE Slot(p, "SLEEPING", ptable[p].pid, ptable[p].parent, ptable[p].killed, p,
                  ptable[p].kstack, ptable[p].pgdir)
    BY <2>1, <2>4, FamilyLives DEF Slot, Alive
  <2> QED
    BY <1>10, <2>2, <2>3, <2>4, WaitScanDoes
<1>11. ASSUME NEW c \in CPUs, NEW p \in Procs \cap {cpu[c].sp}, WaitAwake(c, p) PROVE FamilyInv'
  <2>1. /\ p \in Procs /\ Runs(c, p) /\ thr[p].pc = "w_slept" /\ TableBut(p)
        /\ ptable'[p].state \in {ptable[p].state, "SLEEPING"} /\ ptable'[p].parent = ptable[p].parent
    BY <1>0, <1>11, WaitAwakeIs DEF Slot
  <2>2. ptable[p].state = "RUNNING"
    BY <2>1, RunsIs DEF OnOk, SchedPcs
  <2> QED
    BY <2>1, <2>2, FamilyLives DEF Alive
<1>12. ASSUME NEW c \in CPUs, NEW p \in Procs \cap {cpu[c].sp}, NEW pid \in KillPids, kill(c, p, pid) PROVE FamilyInv'
  <2>1. ASSUME NEW m \in Procs, TableBut(m), ptable'[m].parent = ptable[m].parent,
               ptable'[m].state = IF ptable[m].state = "SLEEPING" THEN "RUNNABLE" ELSE ptable[m].state
        PROVE  FamilyInv'
    BY <2>1, FamilyLives, FamilySame, FamilyBut DEF Alive
  <2>2. \/ UNCHANGED ptable
        \/ \E m \in Procs :
             /\ TableBut(m) /\ ptable'[m].parent = ptable[m].parent
             /\ ptable'[m].state = IF ptable[m].state = "SLEEPING" THEN "RUNNABLE" ELSE ptable[m].state
    BY <1>0, <1>12, KillIs DEF Slot
  <2> QED
    BY <2>1, <2>2, FamilyTable
<1>13. ASSUME NEW c \in CPUs, NEW p \in Procs \cap {cpu[c].sp}, SleepStart(c, p) PROVE FamilyInv'
  <2>1. UNCHANGED ptable
    BY <1>0, <1>13, SleepStartIs
  <2> QED
    BY <2>1, FamilyTable
<1>14. ASSUME NEW c \in CPUs, NEW p \in Procs \cap {cpu[c].sp}, SleepTest(c, p) PROVE FamilyInv'
  <2>1. UNCHANGED ptable
    BY <1>0, <1>14, SleepTestIs
  <2> QED
    BY <2>1, FamilyTable
<1>15. ASSUME NEW c \in CPUs, NEW p \in Procs \cap {cpu[c].sp}, sleep(c, p) PROVE FamilyInv'
  <2>1. /\ p \in Procs /\ Runs(c, p) /\ thr[p].pc = "s_sleep" /\ TableBut(p)
        /\ ptable'[p].state \in {ptable[p].state, "SLEEPING"} /\ ptable'[p].parent = ptable[p].parent
    BY <1>0, <1>15, SleepIs DEF Slot
  <2>2. ptable[p].state = "RUNNING"
    BY <2>1, RunsIs DEF OnOk, SchedPcs
  <2> QED
    BY <2>1, <2>2, FamilyLives DEF Alive
<1>16. ASSUME NEW c \in CPUs, NEW p \in Procs \cap {cpu[c].sp}, SleepAwake(c, p) PROVE FamilyInv'
  <2>1. /\ p \in Procs /\ Runs(c, p) /\ thr[p].pc = "s_slept" /\ TableBut(p)
        /\ ptable'[p].state \in {ptable[p].state, "SLEEPING"} /\ ptable'[p].parent = ptable[p].parent
    BY <1>0, <1>16, SleepAwakeIs DEF Slot
  <2>2. ptable[p].state = "RUNNING"
    BY <2>1, RunsIs DEF OnOk, SchedPcs
  <2> QED
    BY <2>1, <2>2, FamilyLives DEF Alive
<1>17. ASSUME NEW c \in CPUs, NEW p \in Procs \cap {cpu[c].sp}, SleepRelock(c, p) PROVE FamilyInv'
  <2>1. UNCHANGED ptable
    BY <1>0, <1>17, SleepRelockIs
  <2> QED
    BY <2>1, FamilyTable
<1>18. ASSUME NEW c \in CPUs, NEW p \in Procs \cap {cpu[c].sp}, sched(c, p) PROVE FamilyInv'
  <2>1. UNCHANGED ptable
    BY <1>0, <1>18, SchedDoes
  <2> QED
    BY <2>1, FamilyTable
<1>19. ASSUME NEW c \in CPUs, NEW p \in Procs \cap {cpu[c].sp}, YieldBack(c, p) PROVE FamilyInv'
  <2>1. UNCHANGED ptable
    BY <1>0, <1>19, YieldBackDoes
  <2> QED
    BY <2>1, FamilyTable
<1>20. ASSUME NEW c \in CPUs, SchedAcquire(c) PROVE FamilyInv'
  <2>1. UNCHANGED ptable
    BY <1>0, <1>20, SchedAcquireIs
  <2> QED
    BY <2>1, FamilyTable
<1>21. ASSUME NEW c \in CPUs, SchedSwitch(c) PROVE FamilyInv'
  <2>1. PICK p \in Procs : ptable[p].state = "RUNNABLE" /\ SetState(p, "RUNNING")
    BY <1>21, SchedSwitchDoes
  <2> QED
    BY <2>1, FamilyLives DEF SetState, Slot, Alive
<1>22. ASSUME NEW c \in CPUs, SchedBack(c) PROVE FamilyInv'
  <2>1. UNCHANGED ptable
    BY <1>0, <1>22, SchedBackDoes
  <2> QED
    BY <2>1, FamilyTable
<1>23. ASSUME NEW c \in CPUs, SchedRelease(c) PROVE FamilyInv'
  <2>1. UNCHANGED ptable
    BY <1>0, <1>23, SchedReleaseIs
  <2> QED
    BY <2>1, FamilyTable
<1>24. ASSUME NEW c \in CPUs, ClockTick(c) PROVE FamilyInv'
  <2>1. UNCHANGED ptable
    BY <1>0, <1>24, ClockTickIs
  <2> QED
    BY <2>1, FamilyTable
<1>25. ASSUME NEW c \in CPUs, ClockWakeup(c) PROVE FamilyInv'
  <2>1. Wakes(Ticks)
    BY <1>0, <1>25, ClockWakeupIs
  <2>2. ASSUME NEW q \in Procs PROVE FamilyKept(q)
    BY <1>0, <2>1 DEF Wakes, FamilyKept, FamilyInv, Alive, Unborn
  <2> QED
    BY <2>2, FamilyStays
<1>26. ASSUME NEW c \in CPUs, ClockRelease(c) PROVE FamilyInv'
  <2>1. UNCHANGED ptable
    BY <1>0, <1>26, ClockReleaseIs
  <2> QED
    BY <2>1, FamilyTable
<1>27. ASSUME NEW c \in CPUs, TrapTail(c) PROVE FamilyInv'
  <2>1. UNCHANGED ptable \/ \E p \in Procs : ptable[p].state = "RUNNING" /\ SetState(p, "RUNNABLE")
    BY <1>27, TrapTailDoes
  <2> QED
    BY <2>1, FamilyTable, FamilyLives DEF SetState, Slot, Alive
<1>28. CASE UNCHANGED vars
  BY <1>28, FamilyTable DEF vars
<1> QED
  BY <1>1, <1>2, <1>3, <1>4, <1>5, <1>6, <1>7, <1>8, <1>9, <1>10, <1>11, <1>12, <1>13, <1>14,
     <1>15, <1>16, <1>17, <1>18, <1>19, <1>20, <1>21, <1>22, <1>23, <1>24, <1>25, <1>26, <1>27, <1>28 DEF Next, Thread, Scheduler, Clock

(***************************************************************************)
(* Those asleep in wait.                                                   *)
(***************************************************************************)
Waits(q) == ptable[q].state = "SLEEPING" /\ ptable[q].chan = q

\* Nobody begins to wait, is killed while it waits, loses a child or gets a zombie for one.
WaitKept(q) ==
  /\ Waits(q)' => Waits(q) /\ ptable'[q].killed = ptable[q].killed
  /\ \/ ptable'[q].parent = ptable[q].parent /\ (ptable'[q].state = "ZOMBIE" => ptable[q].state = "ZOMBIE")
     \/ ptable[q].parent = Nil /\ ptable'[q].state # "ZOMBIE"

\* A step after which no waiter has lost its children or has got a zombie keeps WaitInv.
LEMMA WaitStays == ASSUME IInv, \A q \in Procs : WaitKept(q) PROVE WaitInv'
<1> SUFFICES ASSUME NEW p \in Procs, Waits(p)' PROVE Children(p)' # {} /\ Zombies(p)' = {} /\ ~ptable'[p].killed
  BY DEF WaitInv, Waits
<1>1. Children(p) # {} /\ Zombies(p) = {} /\ ~ptable[p].killed
  BY DEF IInv, WaitInv, WaitKept, Waits
<1>2. ~ptable'[p].killed
  BY <1>1 DEF WaitKept
<1>3. PICK q \in Procs : ptable[q].parent = p
  BY <1>1 DEF Children
<1>4. ptable'[q].parent = p
  BY <1>3, Slots DEF WaitKept
<1>5. \A r \in Procs : ptable'[r].parent = p /\ ptable'[r].state = "ZOMBIE" => ptable[r].parent = p /\ ptable[r].state = "ZOMBIE"
  BY DEF WaitKept
<1> QED
  BY <1>1, <1>2, <1>4, <1>5 DEF Children, Zombies

\* One slot changes.
LEMMA WaitBut == ASSUME IInv, NEW m \in Procs, TableBut(m), WaitKept(m) PROVE WaitInv'
<1>1. ASSUME NEW q \in Procs \ {m} PROVE WaitKept(q)
  BY DEF TableBut, WaitKept, Waits
<1> QED
  BY <1>1, WaitStays

\* The table stays.
LEMMA WaitTable == ASSUME IInv, UNCHANGED ptable PROVE WaitInv'
<1>1. \A q \in Procs : WaitKept(q)
  BY DEF WaitKept, Waits
<1> QED
  BY <1>1, WaitStays

\* Any change of state but into a sleeper or a zombie.
LEMMA WaitState ==
  ASSUME IInv, NEW m \in Procs, TableBut(m), ptable'[m].state \notin {"SLEEPING", "ZOMBIE"},
         ptable'[m].parent = ptable[m].parent \/ ptable[m].parent = Nil
  PROVE  WaitInv'
<1>1. WaitKept(m)
  BY DEF WaitKept, Waits
<1> QED
  BY <1>1, WaitBut

\* exit wakes the parent that waits, and init when it hands it a zombie.
LEMMA WaitStep == IInv /\ [Next]_vars => WaitInv'
<1> SUFFICES ASSUME IInv, [Next]_vars PROVE WaitInv'
  OBVIOUS
<1>0. TypeOK /\ FamilyInv /\ WaitInv
  BY DEF IInv
<1>1. ASSUME NEW c \in CPUs, NEW p \in Procs \cap {cpu[c].sp}, NEW call \in Calls, Syscall(c, p, call) PROVE WaitInv'
  <2>1. UNCHANGED ptable
    BY <1>0, <1>1, SyscallIs
  <2> QED
    BY <2>1, WaitTable
<1>2. ASSUME NEW c \in CPUs, NEW p \in Procs \cap {cpu[c].sp}, Sysret(c, p) PROVE WaitInv'
  <2>1. UNCHANGED ptable
    BY <1>0, <1>2, SysretIs
  <2> QED
    BY <2>1, WaitTable
<1>3. ASSUME NEW c \in CPUs, NEW p \in Procs \cap {cpu[c].sp}, allocproc(c, p) PROVE WaitInv'
  <2>1. ASSUME NEW np \in Procs, Claims(p, np)
        PROVE  TableBut(np) /\ ptable'[np].state = "EMBRYO" /\ ptable'[np].parent = ptable[np].parent
    BY <2>1 DEF Claims, Slot
  <2>2. UNCHANGED ptable \/ \E np \in Procs : Claims(p, np)
    BY <1>0, <1>3, AllocprocIs
  <2> QED
    BY <2>1, <2>2, WaitTable, WaitState
<1>4. ASSUME NEW c \in CPUs, NEW p \in Procs \cap {cpu[c].sp}, ForkKstack(c, p) PROVE WaitInv'
  <2>1. PICK np \in Procs : /\ TableBut(np) /\ ptable[np].parent = Nil
                           /\ ptable'[np].state \in {"EMBRYO", "UNUSED"}
    BY <1>4, ForkFills DEF Fills
  <2> QED
    BY <2>1, WaitState
<1>5. ASSUME NEW c \in CPUs, NEW p \in Procs \cap {cpu[c].sp}, ForkCopy(c, p) PROVE WaitInv'
  <2>1. PICK np \in Procs : /\ TableBut(np) /\ ptable[np].parent = Nil
                           /\ ptable'[np].state \in {"EMBRYO", "UNUSED"}
    BY <1>5, ForkFills DEF Fills
  <2> QED
    BY <2>1, WaitState
<1>6. ASSUME NEW c \in CPUs, NEW p \in Procs \cap {cpu[c].sp}, ForkRun(c, p) PROVE WaitInv'
  <2>1. PICK np \in Procs : SetState(np, "RUNNABLE")
    BY <1>6, ForkRunDoes
  <2> QED
    BY <2>1, WaitState DEF SetState, Slot
<1>7. ASSUME NEW c \in CPUs, NEW p \in Procs \cap {cpu[c].sp}, forkret(c, p) PROVE WaitInv'
  <2>1. UNCHANGED ptable
    BY <1>0, <1>7, ForkretIs
  <2> QED
    BY <2>1, WaitTable
<1>8. ASSUME NEW c \in CPUs, NEW p \in Procs \cap {cpu[c].sp}, exit(c, p) PROVE WaitInv'
  <2>1. p \in Procs /\ Runs(c, p) /\ thr[p].pc = "exit"
    BY <1>0, <1>8, ExitIs
  <2>2. CASE UNCHANGED ptable
    BY <2>2, WaitTable
  <2>3. CASE p # initproc /\ Exits(p)
    <3>1. SUFFICES ASSUME NEW r \in Procs, Waits(r)'
                   PROVE  Children(r)' # {} /\ Zombies(r)' = {} /\ ~ptable'[r].killed
      BY DEF WaitInv, Waits
    <3>2. r # p /\ Waits(r) /\ ~ExitWakes(p, r)
      BY <2>3, <3>1 DEF Exits, Waits
    <3>3. Children(r) # {} /\ Zombies(r) = {} /\ ~ptable[r].killed
      BY <1>0, <3>2 DEF WaitInv, Waits
    <3>4. ~ptable'[r].killed
      BY <2>3, <3>3 DEF Exits
    <3>5. PICK q \in Procs : ptable[q].parent = r
      BY <3>3 DEF Children
    <3>6. ptable'[q].parent = r
      BY <2>3, <3>2, <3>5 DEF Exits
    <3>7. ptable[p].parent # r
      BY <3>2 DEF ExitWakes, Waits
    <3>8. r = initproc => \A z \in Procs : ~(ptable[z].parent = p /\ ptable[z].state = "ZOMBIE")
      BY <3>2 DEF ExitWakes, Waits
    <3>9. ASSUME NEW z \in Procs, ptable'[z].parent = r, ptable'[z].state = "ZOMBIE" PROVE FALSE
      <4>1. ptable[z].parent = r \/ (ptable[z].parent = p /\ r = initproc)
        BY <2>3, <3>9 DEF Exits
      <4>2. z # p
        BY <1>0, <2>1, <3>7, <4>1 DEF FamilyInv
      <4>3. ptable[z].state = "ZOMBIE"
        BY <2>3, <3>9, <4>2 DEF Exits
      <4> QED
        BY <3>3, <3>8, <4>1, <4>3 DEF Zombies, Children
    <3> QED
      BY <3>4, <3>6, <3>9 DEF Children, Zombies
  <2> QED
    BY <1>0, <1>8, <2>2, <2>3, ExitIs
<1>9. ASSUME NEW c \in CPUs, NEW p \in Procs \cap {cpu[c].sp}, WaitLock(c, p) PROVE WaitInv'
  <2>1. UNCHANGED ptable
    BY <1>0, <1>9, WaitLockIs
  <2> QED
    BY <2>1, WaitTable
<1>10. ASSUME NEW c \in CPUs, NEW p \in Procs \cap {cpu[c].sp}, WaitScan(c, p) PROVE WaitInv'
  <2>1. p \in Procs /\ ptable[p].state = "RUNNING"
    BY <1>10, WaitScanDoes
  <2>2. ASSUME NEW q \in Procs \ {p, initproc}, Reaps(p, q) PROVE WaitInv'
    <3>1. /\ ptable[q].parent = p /\ ptable'[q].state = "UNUSED" /\ ptable'[q].parent = Nil /\ ptable'[p] = ptable[p]
          /\ \A o \in Procs \ {q} : ptable'[o] = ptable[o]
      BY <2>1, <2>2 DEF Reaps, Slot, TableBut
    <3>2. SUFFICES ASSUME NEW r \in Procs, Waits(r)'
                   PROVE  Children(r)' # {} /\ Zombies(r)' = {} /\ ~ptable'[r].killed
      BY DEF WaitInv, Waits
    <3>3. r # p /\ r # q /\ Waits(r) /\ ptable'[r] = ptable[r]
      BY <2>1, <3>1, <3>2 DEF Waits
    <3>4. Children(r) # {} /\ Zombies(r) = {} /\ ~ptable[r].killed
      BY <1>0, <3>3 DEF WaitInv, Waits
    <3>5. PICK o \in Procs : ptable[o].parent = r
      BY <3>4 DEF Children
    <3>6. ptable'[o].parent = r
      BY <3>1, <3>3, <3>5
    <3>7. \A z \in Procs : ptable'[z].parent = r /\ ptable'[z].state = "ZOMBIE" => z \in Zombies(r)
      BY <3>1 DEF Zombies, Children
    <3> QED
      BY <3>3, <3>4, <3>6, <3>7 DEF Children, Zombies
  <2>3. CASE UNCHANGED ptable
    BY <2>3, WaitTable
  <2>4. CASE /\ Zombies(p) = {} /\ Children(p) # {} /\ ~ptable[p].killed
             /\ Slot(p, "SLEEPING", ptable[p].pid, ptable[p].parent, ptable[p].killed, p,
                     ptable[p].kstack, ptable[p].pgdir)
    <3>1. /\ ptable'[p].state = "SLEEPING" /\ ~ptable'[p].killed
          /\ \A o \in Procs : ptable'[o].parent = ptable[o].parent
          /\ \A o \in Procs \ {p} : ptable'[o] = ptable[o]
      BY <2>1, <2>4 DEF Slot, TableBut
    <3>2. SUFFICES ASSUME NEW r \in Procs, Waits(r)'
                   PROVE  Children(r)' # {} /\ Zombies(r)' = {} /\ ~ptable'[r].killed
      BY DEF WaitInv, Waits
    <3>3. Children(r) # {} /\ Zombies(r) = {} /\ ~ptable'[r].killed
      BY <1>0, <2>4, <3>1, <3>2 DEF WaitInv, Waits
    <3>4. Children(r)' = Children(r)
      BY <3>1 DEF Children
    <3>5. Zombies(r)' \subseteq Zombies(r)
      BY <3>1 DEF Zombies, Children
    <3> QED
      BY <3>3, <3>4, <3>5
  <2> QED
    BY <1>10, <2>2, <2>3, <2>4, WaitScanDoes
<1>11. ASSUME NEW c \in CPUs, NEW p \in Procs \cap {cpu[c].sp}, WaitAwake(c, p) PROVE WaitInv'
  <2>1. /\ p \in Procs /\ Runs(c, p) /\ thr[p].pc = "w_slept" /\ TableBut(p)
        /\ ptable'[p].state = ptable[p].state /\ ptable'[p].parent = ptable[p].parent
    BY <1>0, <1>11, WaitAwakeIs DEF Slot
  <2>2. ptable[p].state = "RUNNING"
    BY <2>1, RunsIs DEF OnOk, SchedPcs
  <2> QED
    BY <2>1, <2>2, WaitState
<1>12. ASSUME NEW c \in CPUs, NEW p \in Procs \cap {cpu[c].sp}, NEW pid \in KillPids, kill(c, p, pid) PROVE WaitInv'
  <2>1. ASSUME NEW m \in Procs, TableBut(m), ptable'[m].parent = ptable[m].parent,
               ptable'[m].state = IF ptable[m].state = "SLEEPING" THEN "RUNNABLE" ELSE ptable[m].state
        PROVE  WaitInv'
    <3>1. WaitKept(m)
      BY <2>1 DEF WaitKept, Waits
    <3> QED
      BY <2>1, <3>1, WaitBut
  <2>2. \/ UNCHANGED ptable
        \/ \E m \in Procs :
             /\ TableBut(m) /\ ptable'[m].parent = ptable[m].parent
             /\ ptable'[m].state = IF ptable[m].state = "SLEEPING" THEN "RUNNABLE" ELSE ptable[m].state
    BY <1>0, <1>12, KillIs DEF Slot
  <2> QED
    BY <2>1, <2>2, WaitTable
<1>13. ASSUME NEW c \in CPUs, NEW p \in Procs \cap {cpu[c].sp}, SleepStart(c, p) PROVE WaitInv'
  <2>1. UNCHANGED ptable
    BY <1>0, <1>13, SleepStartIs
  <2> QED
    BY <2>1, WaitTable
<1>14. ASSUME NEW c \in CPUs, NEW p \in Procs \cap {cpu[c].sp}, SleepTest(c, p) PROVE WaitInv'
  <2>1. UNCHANGED ptable
    BY <1>0, <1>14, SleepTestIs
  <2> QED
    BY <2>1, WaitTable
<1>15. ASSUME NEW c \in CPUs, NEW p \in Procs \cap {cpu[c].sp}, sleep(c, p) PROVE WaitInv'
  <2>1. /\ p \in Procs /\ TableBut(p) /\ ptable'[p].state = "SLEEPING" /\ ptable'[p].chan = Ticks
        /\ ptable'[p].parent = ptable[p].parent
    BY <1>0, <1>15, SleepIs DEF Slot
  <2>2. WaitKept(p)
    BY <2>1, Slots DEF WaitKept, Waits
  <2> QED
    BY <2>1, <2>2, WaitBut
<1>16. ASSUME NEW c \in CPUs, NEW p \in Procs \cap {cpu[c].sp}, SleepAwake(c, p) PROVE WaitInv'
  <2>1. /\ p \in Procs /\ Runs(c, p) /\ thr[p].pc = "s_slept" /\ TableBut(p)
        /\ ptable'[p].state = ptable[p].state /\ ptable'[p].parent = ptable[p].parent
    BY <1>0, <1>16, SleepAwakeIs DEF Slot
  <2>2. ptable[p].state = "RUNNING"
    BY <2>1, RunsIs DEF OnOk, SchedPcs
  <2> QED
    BY <2>1, <2>2, WaitState
<1>17. ASSUME NEW c \in CPUs, NEW p \in Procs \cap {cpu[c].sp}, SleepRelock(c, p) PROVE WaitInv'
  <2>1. UNCHANGED ptable
    BY <1>0, <1>17, SleepRelockIs
  <2> QED
    BY <2>1, WaitTable
<1>18. ASSUME NEW c \in CPUs, NEW p \in Procs \cap {cpu[c].sp}, sched(c, p) PROVE WaitInv'
  <2>1. UNCHANGED ptable
    BY <1>0, <1>18, SchedDoes
  <2> QED
    BY <2>1, WaitTable
<1>19. ASSUME NEW c \in CPUs, NEW p \in Procs \cap {cpu[c].sp}, YieldBack(c, p) PROVE WaitInv'
  <2>1. UNCHANGED ptable
    BY <1>0, <1>19, YieldBackDoes
  <2> QED
    BY <2>1, WaitTable
<1>20. ASSUME NEW c \in CPUs, SchedAcquire(c) PROVE WaitInv'
  <2>1. UNCHANGED ptable
    BY <1>0, <1>20, SchedAcquireIs
  <2> QED
    BY <2>1, WaitTable
<1>21. ASSUME NEW c \in CPUs, SchedSwitch(c) PROVE WaitInv'
  <2>1. PICK p \in Procs : SetState(p, "RUNNING")
    BY <1>21, SchedSwitchDoes
  <2> QED
    BY <2>1, WaitState DEF SetState, Slot
<1>22. ASSUME NEW c \in CPUs, SchedBack(c) PROVE WaitInv'
  <2>1. UNCHANGED ptable
    BY <1>0, <1>22, SchedBackDoes
  <2> QED
    BY <2>1, WaitTable
<1>23. ASSUME NEW c \in CPUs, SchedRelease(c) PROVE WaitInv'
  <2>1. UNCHANGED ptable
    BY <1>0, <1>23, SchedReleaseIs
  <2> QED
    BY <2>1, WaitTable
<1>24. ASSUME NEW c \in CPUs, ClockTick(c) PROVE WaitInv'
  <2>1. UNCHANGED ptable
    BY <1>0, <1>24, ClockTickIs
  <2> QED
    BY <2>1, WaitTable
<1>25. ASSUME NEW c \in CPUs, ClockWakeup(c) PROVE WaitInv'
  <2>1. Wakes(Ticks)
    BY <1>0, <1>25, ClockWakeupIs
  <2>2. ASSUME NEW q \in Procs PROVE WaitKept(q)
    BY <2>1 DEF Wakes, WaitKept, Waits
  <2> QED
    BY <2>2, WaitStays
<1>26. ASSUME NEW c \in CPUs, ClockRelease(c) PROVE WaitInv'
  <2>1. UNCHANGED ptable
    BY <1>0, <1>26, ClockReleaseIs
  <2> QED
    BY <2>1, WaitTable
<1>27. ASSUME NEW c \in CPUs, TrapTail(c) PROVE WaitInv'
  <2>1. UNCHANGED ptable \/ \E p \in Procs : SetState(p, "RUNNABLE")
    BY <1>27, TrapTailDoes
  <2> QED
    BY <2>1, WaitTable, WaitState DEF SetState, Slot
<1>28. CASE UNCHANGED vars
  BY <1>28, WaitTable DEF vars
<1> QED
  BY <1>1, <1>2, <1>3, <1>4, <1>5, <1>6, <1>7, <1>8, <1>9, <1>10, <1>11, <1>12, <1>13, <1>14,
     <1>15, <1>16, <1>17, <1>18, <1>19, <1>20, <1>21, <1>22, <1>23, <1>24, <1>25, <1>26, <1>27, <1>28 DEF Next, Thread, Scheduler, Clock

(***************************************************************************)
(* Those asleep until a tick.                                              *)
(***************************************************************************)
Sleeps(q) == ptable[q].state = "SLEEPING" /\ ptable[q].chan = Ticks

\* Nobody goes to sleep, or changes what it sleeps for.
SleepKept(q) ==
  /\ thr'[q].pc = "s_sleep" => thr[q].pc = "s_sleep" /\ thr'[q].ticks0 = thr[q].ticks0
  /\ Sleeps(q)' => Sleeps(q) /\ thr'[q].ticks0 = thr[q].ticks0

\* A step that keeps every sleeper of the clock, and the clock, keeps SleepInv.
LEMMA SleepStays ==
  ASSUME IInv, \A q \in Procs : SleepKept(q), UNCHANGED ticks, cpu[TickCpu].ipc = "wakeup" => cpu'[TickCpu].ipc = "wakeup"
  PROVE  SleepInv'
<1> SUFFICES ASSUME NEW p \in Procs
             PROVE  /\ thr'[p].pc = "s_sleep" => Elapsed(p)' < SleepTicks
                    /\ Sleeps(p)' => Elapsed(p)' < SleepTicks \/ cpu'[TickCpu].ipc = "wakeup"
  BY DEF SleepInv, Sleeps
<1>1. thr'[p].ticks0 = thr[p].ticks0 => Elapsed(p)' = Elapsed(p)
  BY DEF Elapsed
<1>2. SleepKept(p)
  OBVIOUS
<1> QED
  BY <1>1, <1>2 DEF SleepKept, IInv, SleepInv, Sleeps

\* One thread p and the slot of one process m change.
LEMMA SleepBut ==
  ASSUME IInv, NEW p \in Procs, NEW m \in Procs, TableBut(m), \A q \in Procs \ {p} : thr'[q] = thr[q],
         SleepKept(p), SleepKept(m), UNCHANGED <<ticks, cpu>>
  PROVE  SleepInv'
<1>1. ASSUME NEW q \in Procs \ {p, m} PROVE SleepKept(q)
  BY DEF TableBut, SleepKept, Sleeps
<1> QED
  BY <1>1, SleepStays

\* A thread that runs is awake.
LEMMA SleepAwakes ==
  ASSUME NEW p \in Procs, thr'[p].pc # "s_sleep", ptable'[p].state # "SLEEPING"
  PROVE  SleepKept(p)
BY DEF SleepKept, Sleeps

\* A process whose thread stays, and that sleeps on or is woken.
LEMMA SleepSame ==
  ASSUME NEW p \in Procs, thr'[p] = thr[p], ptable'[p].state \in {ptable[p].state, "RUNNABLE"}, ptable'[p].chan = ptable[p].chan
  PROVE  SleepKept(p)
BY DEF SleepKept, Sleeps

\* The clock finds nobody between the test of ticks and the sleep: it would hold tickslock.
LEMMA SleepStep == IInv /\ [Next]_vars => SleepInv'
<1> SUFFICES ASSUME IInv, [Next]_vars PROVE SleepInv'
  OBVIOUS
<1>0. TypeOK /\ TickInv /\ ThreadInv /\ SleepInv
  BY DEF IInv
<1>1. ASSUME NEW c \in CPUs, NEW p \in Procs \cap {cpu[c].sp}, NEW call \in Calls, Syscall(c, p, call) PROVE SleepInv'
  <2>1. /\ p \in Procs /\ Runs(c, p) /\ thr[p].pc = "user" /\ UNCHANGED <<ticks, cpu>>
        /\ thr'[p].pc \in {"fork", "exit", "wait", "kill", "sleep"} /\ \A q \in Procs \ {p} : thr'[q] = thr[q]
    BY <1>0, <1>1, SyscallIs DEF Moves, Local
  <2>2. TableBut(p) /\ ptable'[p].state = ptable[p].state
    BY <1>0, <1>1, SyscallIs DEF Slot, TableBut
  <2>3. ptable[p].state = "RUNNING"
    BY <2>1, RunsIs DEF OnOk, SchedPcs
  <2>4. SleepKept(p)
    BY <2>1, <2>2, <2>3, SleepAwakes
  <2> QED
    BY <2>1, <2>2, <2>4, SleepBut
<1>2. ASSUME NEW c \in CPUs, NEW p \in Procs \cap {cpu[c].sp}, Sysret(c, p) PROVE SleepInv'
  <2>1. /\ p \in Procs /\ Runs(c, p) /\ thr[p].pc = "ret" /\ UNCHANGED <<ticks, cpu>>
        /\ thr'[p].pc \in {"exit", "user"} /\ \A q \in Procs \ {p} : thr'[q] = thr[q]
    BY <1>0, <1>2, SysretIs DEF Moves, Local
  <2>2. TableBut(p) /\ ptable'[p].state = ptable[p].state
    BY <1>0, <1>2, SysretIs DEF Slot, TableBut
  <2>3. ptable[p].state = "RUNNING"
    BY <2>1, RunsIs DEF OnOk, SchedPcs
  <2>4. SleepKept(p)
    BY <2>1, <2>2, <2>3, SleepAwakes
  <2> QED
    BY <2>1, <2>2, <2>4, SleepBut
<1>3. ASSUME NEW c \in CPUs, NEW p \in Procs \cap {cpu[c].sp}, allocproc(c, p) PROVE SleepInv'
  <2>1. p \in Procs /\ Runs(c, p) /\ thr[p].pc = "fork" /\ UNCHANGED <<ticks, cpu>>
    BY <1>0, <1>3, AllocprocIs
  <2>2. ptable[p].state = "RUNNING"
    BY <2>1, RunsIs DEF OnOk, SchedPcs
  <2>3. CASE Moves(p, "ret") /\ UNCHANGED ptable
    <3>1. SleepKept(p) /\ TableBut(p) /\ \A q \in Procs \ {p} : thr'[q] = thr[q]
      BY <2>1, <2>2, <2>3, SleepAwakes DEF TableBut, Moves
    <3> QED
      BY <2>1, <3>1, SleepBut
  <2>4. ASSUME NEW np \in Procs, Claims(p, np) PROVE SleepInv'
    <3>1. /\ ptable[np].state = "UNUSED" /\ ptable'[np].state = "EMBRYO" /\ ptable'[np].chan = ptable[np].chan /\ TableBut(np)
          /\ thr'[p].pc = "f_kstack" /\ \A q \in Procs \ {p} : thr'[q] = thr[q]
      BY <2>4 DEF Claims, Slot, Local
    <3>2. SleepKept(p) /\ SleepKept(np)
      BY <2>1, <2>2, <3>1 DEF SleepKept, Sleeps, TableBut
    <3> QED
      BY <2>1, <3>1, <3>2, SleepBut
  <2> QED
    BY <1>0, <1>3, <2>3, <2>4, AllocprocIs
<1>4. ASSUME NEW c \in CPUs, NEW p \in Procs \cap {cpu[c].sp}, ForkKstack(c, p) PROVE SleepInv'
  <2>1. Runs(c, p) /\ p \in Procs /\ UNCHANGED <<ticks, cpu>>
    BY <1>4, ForkFills
  <2>2. PICK np \in Procs : Fills(p, np)
    BY <1>4, ForkFills
  <2>3. ptable[p].state = "RUNNING"
    BY <2>1, <2>2, RunsIs DEF OnOk, SchedPcs, Fills, ForkPcs
  <2>4. SleepKept(p) /\ SleepKept(np)
    BY <2>1, <2>2, <2>3 DEF SleepKept, Sleeps, TableBut, Fills
  <2> QED
    BY <2>1, <2>2, <2>4, SleepBut DEF Fills
<1>5. ASSUME NEW c \in CPUs, NEW p \in Procs \cap {cpu[c].sp}, ForkCopy(c, p) PROVE SleepInv'
  <2>1. Runs(c, p) /\ p \in Procs /\ UNCHANGED <<ticks, cpu>>
    BY <1>5, ForkFills
  <2>2. PICK np \in Procs : Fills(p, np)
    BY <1>5, ForkFills
  <2>3. ptable[p].state = "RUNNING"
    BY <2>1, <2>2, RunsIs DEF OnOk, SchedPcs, Fills, ForkPcs
  <2>4. SleepKept(p) /\ SleepKept(np)
    BY <2>1, <2>2, <2>3 DEF SleepKept, Sleeps, TableBut, Fills
  <2> QED
    BY <2>1, <2>2, <2>4, SleepBut DEF Fills
<1>6. ASSUME NEW c \in CPUs, NEW p \in Procs \cap {cpu[c].sp}, ForkRun(c, p) PROVE SleepInv'
  <2>1. PICK np \in Procs :
          /\ np # p /\ p \in Procs /\ ptable[p].state = "RUNNING" /\ SetState(np, "RUNNABLE") /\ UNCHANGED <<ticks, cpu>>
          /\ thr'[np].pc = "forkret" /\ thr'[p].pc = "ret" /\ \A q \in Procs \ {p, np} : thr'[q] = thr[q]
    BY <1>6, ForkRunDoes DEF Runs
  <2>2. ptable'[np].state = "RUNNABLE" /\ TableBut(np)
    BY <2>1 DEF SetState, Slot
  <2>3. SleepKept(p) /\ SleepKept(np)
    BY <2>1, <2>2 DEF SleepKept, Sleeps, TableBut
  <2>4. \A q \in Procs \ {p, np} : SleepKept(q)
    BY <2>1, <2>2 DEF SleepKept, Sleeps, TableBut
  <2> QED
    BY <2>1, <2>3, <2>4, SleepStays
<1>7. ASSUME NEW c \in CPUs, NEW p \in Procs \cap {cpu[c].sp}, forkret(c, p) PROVE SleepInv'
  <2>1. /\ p \in Procs /\ Runs(c, p) /\ thr[p].pc = "forkret" /\ UNCHANGED <<ticks, cpu>>
        /\ thr'[p].pc = "ret" /\ \A q \in Procs \ {p} : thr'[q] = thr[q]
    BY <1>0, <1>7, ForkretIs DEF Moves, Local
  <2>2. TableBut(p) /\ ptable'[p].state = ptable[p].state
    BY <1>0, <1>7, ForkretIs DEF Slot, TableBut
  <2>3. ptable[p].state = "RUNNING"
    BY <2>1, RunsIs DEF OnOk, SchedPcs
  <2>4. SleepKept(p)
    BY <2>1, <2>2, <2>3, SleepAwakes
  <2> QED
    BY <2>1, <2>2, <2>4, SleepBut
<1>8. ASSUME NEW c \in CPUs, NEW p \in Procs \cap {cpu[c].sp}, exit(c, p) PROVE SleepInv'
  <2>1. p \in Procs /\ Runs(c, p) /\ thr[p].pc = "exit" /\ UNCHANGED <<ticks, cpu>>
    BY <1>0, <1>8, ExitIs
  <2>2. CASE UNCHANGED <<ptable, thr>>
    <3>1. \A q \in Procs : SleepKept(q)
      BY <2>2 DEF SleepKept, Sleeps
    <3> QED
      BY <2>1, <3>1, SleepStays
  <2>3. CASE Exits(p) /\ Moves(p, "e_sched")
    <3>1. SleepKept(p)
      BY <2>1, <2>3, SleepAwakes DEF Exits, Moves
    <3>2. ASSUME NEW q \in Procs \ {p} PROVE SleepKept(q)
      BY <2>3, SleepSame DEF Exits, Moves
    <3> QED
      BY <2>1, <3>1, <3>2, SleepStays
  <2> QED
    BY <1>0, <1>8, <2>2, <2>3, ExitIs
<1>9. ASSUME NEW c \in CPUs, NEW p \in Procs \cap {cpu[c].sp}, WaitLock(c, p) PROVE SleepInv'
  <2>1. /\ p \in Procs /\ Runs(c, p) /\ thr[p].pc = "wait" /\ UNCHANGED <<ticks, cpu>>
        /\ thr'[p].pc = "w_scan" /\ \A q \in Procs \ {p} : thr'[q] = thr[q]
    BY <1>0, <1>9, WaitLockIs DEF Moves, Local
  <2>2. TableBut(p) /\ ptable'[p].state = ptable[p].state
    BY <1>0, <1>9, WaitLockIs DEF Slot, TableBut
  <2>3. ptable[p].state = "RUNNING"
    BY <2>1, RunsIs DEF OnOk, SchedPcs
  <2>4. SleepKept(p)
    BY <2>1, <2>2, <2>3, SleepAwakes
  <2> QED
    BY <2>1, <2>2, <2>4, SleepBut
<1>10. ASSUME NEW c \in CPUs, NEW p \in Procs \cap {cpu[c].sp}, WaitScan(c, p) PROVE SleepInv'
  <2>1. p \in Procs /\ ptable[p].state = "RUNNING" /\ UNCHANGED <<ticks, cpu>>
    BY <1>10, WaitScanDoes
  <2>2. ASSUME NEW q \in Procs \ {p, initproc}, Reaps(p, q) PROVE SleepInv'
    <3>1. /\ ptable'[q].state = "UNUSED" /\ thr'[q].pc = "none" /\ TableBut(q) /\ thr'[p].pc = "ret"
          /\ \A o \in Procs \ {p, q} : thr'[o] = thr[o]
      BY <2>2 DEF Reaps, Slot, NoThread
    <3>2. SleepKept(q) /\ SleepKept(p)
      BY <2>1, <2>2, <3>1 DEF SleepKept, Sleeps, TableBut
    <3>3. \A o \in Procs \ {p, q} : SleepKept(o)
      BY <3>1 DEF SleepKept, Sleeps, TableBut
    <3> QED
      BY <2>1, <3>2, <3>3, SleepStays
  <2>3. CASE Moves(p, "ret") /\ UNCHANGED ptable
    <3>1. SleepKept(p) /\ TableBut(p) /\ \A q \in Procs \ {p} : thr'[q] = thr[q]
      BY <2>1, <2>3, SleepAwakes DEF TableBut, Moves
    <3> QED
      BY <2>1, <3>1, SleepBut
  <2>4. CASE /\ Slot(p, "SLEEPING", ptable[p].pid, ptable[p].parent, ptable[p].killed, p,
                     ptable[p].kstack, ptable[p].pgdir)
             /\ Moves(p, "w_sched")
    <3>1. SleepKept(p) /\ TableBut(p) /\ \A q \in Procs \ {p} : thr'[q] = thr[q]
      BY <2>1, <2>4, Slots DEF Slot, Moves, SleepKept, Sleeps
    <3> QED
      BY <2>1, <3>1, SleepBut
  <2> QED
    BY <1>10, <2>2, <2>3, <2>4, WaitScanDoes
<1>11. ASSUME NEW c \in CPUs, NEW p \in Procs \cap {cpu[c].sp}, WaitAwake(c, p) PROVE SleepInv'
  <2>1. /\ p \in Procs /\ Runs(c, p) /\ thr[p].pc = "w_slept" /\ UNCHANGED <<ticks, cpu>>
        /\ thr'[p].pc = "w_scan" /\ \A q \in Procs \ {p} : thr'[q] = thr[q]
    BY <1>0, <1>11, WaitAwakeIs DEF Moves, Local
  <2>2. TableBut(p) /\ ptable'[p].state = ptable[p].state
    BY <1>0, <1>11, WaitAwakeIs DEF Slot, TableBut
  <2>3. ptable[p].state = "RUNNING"
    BY <2>1, RunsIs DEF OnOk, SchedPcs
  <2>4. SleepKept(p)
    BY <2>1, <2>2, <2>3, SleepAwakes
  <2> QED
    BY <2>1, <2>2, <2>4, SleepBut
<1>12. ASSUME NEW c \in CPUs, NEW p \in Procs \cap {cpu[c].sp}, NEW pid \in KillPids, kill(c, p, pid) PROVE SleepInv'
  <2>1. /\ p \in Procs /\ Runs(c, p) /\ thr[p].pc = "kill" /\ UNCHANGED <<ticks, cpu>>
        /\ thr'[p].pc = "ret" /\ \A q \in Procs \ {p} : thr'[q] = thr[q]
    BY ZenonT(60), <1>0, <1>12, KillIs DEF Moves
  <2>2. ptable[p].state = "RUNNING"
    BY <2>1, RunsIs DEF OnOk, SchedPcs
  <2>3. \A q \in Procs : ptable'[q].chan = ptable[q].chan /\ ptable'[q].state \in {ptable[q].state, "RUNNABLE"}
    BY ZenonT(60), <1>0, <1>12, KillIs DEF Slot, TableBut
  <2>4. SleepKept(p)
    BY <2>1, <2>2, <2>3, SleepAwakes
  <2>5. \A q \in Procs \ {p} : SleepKept(q)
    BY <2>1, <2>3, SleepSame
  <2> QED
    BY <2>1, <2>4, <2>5, SleepStays
<1>13. ASSUME NEW c \in CPUs, NEW p \in Procs \cap {cpu[c].sp}, SleepStart(c, p) PROVE SleepInv'
  <2>1. /\ p \in Procs /\ Runs(c, p) /\ thr[p].pc = "sleep" /\ UNCHANGED <<ticks, cpu>>
        /\ thr'[p].pc = "s_test" /\ \A q \in Procs \ {p} : thr'[q] = thr[q]
    BY <1>0, <1>13, SleepStartIs DEF Moves, Local
  <2>2. TableBut(p) /\ ptable'[p].state = ptable[p].state
    BY <1>0, <1>13, SleepStartIs DEF Slot, TableBut
  <2>3. ptable[p].state = "RUNNING"
    BY <2>1, RunsIs DEF OnOk, SchedPcs
  <2>4. SleepKept(p)
    BY <2>1, <2>2, <2>3, SleepAwakes
  <2> QED
    BY <2>1, <2>2, <2>4, SleepBut
<1>14. ASSUME NEW c \in CPUs, NEW p \in Procs \cap {cpu[c].sp}, SleepTest(c, p) PROVE SleepInv'
  <2>1. /\ p \in Procs /\ Runs(c, p) /\ thr[p].pc = "s_test" /\ UNCHANGED <<ticks, cpu, ptable>>
        /\ \/ Elapsed(p) < SleepTicks /\ Moves(p, "s_sleep")
           \/ Local(p, "ret", thr[p].np, 0, thr[p].ypc)
    BY <1>0, <1>14, SleepTestIs
  <2>2. ptable[p].state = "RUNNING"
    BY <2>1, RunsIs DEF OnOk, SchedPcs
  <2>3. CASE Local(p, "ret", thr[p].np, 0, thr[p].ypc)
    <3>1. SleepKept(p) /\ TableBut(p) /\ \A q \in Procs \ {p} : thr'[q] = thr[q]
      BY <2>1, <2>2, <2>3, SleepAwakes DEF TableBut, Local
    <3> QED
      BY <2>1, <3>1, SleepBut
  <2>4. CASE Elapsed(p) < SleepTicks /\ Moves(p, "s_sleep")
    <3>1. \A q \in Procs : Elapsed(q)' = Elapsed(q)
      BY <2>1, <2>4 DEF Elapsed, Moves
    <3> QED
      BY <1>0, <2>1, <2>4, <3>1 DEF SleepInv, Moves
  <2> QED
    BY <2>1, <2>3, <2>4
<1>15. ASSUME NEW c \in CPUs, NEW p \in Procs \cap {cpu[c].sp}, sleep(c, p) PROVE SleepInv'
  <2>1. /\ p \in Procs /\ thr[p].pc = "s_sleep" /\ UNCHANGED <<ticks, cpu>> /\ Moves(p, "s_sched") /\ TableBut(p)
    BY <1>0, <1>15, SleepIs DEF Slot
  <2>2. \A q \in Procs : Elapsed(q)' = Elapsed(q)
    BY <2>1 DEF Elapsed, Moves
  <2>3. Elapsed(p) < SleepTicks
    BY <1>0, <2>1 DEF SleepInv
  <2> QED
    BY <1>0, <2>1, <2>2, <2>3 DEF SleepInv, Moves, TableBut
<1>16. ASSUME NEW c \in CPUs, NEW p \in Procs \cap {cpu[c].sp}, SleepAwake(c, p) PROVE SleepInv'
  <2>1. /\ p \in Procs /\ Runs(c, p) /\ thr[p].pc = "s_slept" /\ UNCHANGED <<ticks, cpu>>
        /\ thr'[p].pc = "s_relock" /\ \A q \in Procs \ {p} : thr'[q] = thr[q]
    BY <1>0, <1>16, SleepAwakeIs DEF Moves, Local
  <2>2. TableBut(p) /\ ptable'[p].state = ptable[p].state
    BY <1>0, <1>16, SleepAwakeIs DEF Slot, TableBut
  <2>3. ptable[p].state = "RUNNING"
    BY <2>1, RunsIs DEF OnOk, SchedPcs
  <2>4. SleepKept(p)
    BY <2>1, <2>2, <2>3, SleepAwakes
  <2> QED
    BY <2>1, <2>2, <2>4, SleepBut
<1>17. ASSUME NEW c \in CPUs, NEW p \in Procs \cap {cpu[c].sp}, SleepRelock(c, p) PROVE SleepInv'
  <2>1. /\ p \in Procs /\ Runs(c, p) /\ thr[p].pc = "s_relock" /\ UNCHANGED <<ticks, cpu>>
        /\ thr'[p].pc = "s_test" /\ \A q \in Procs \ {p} : thr'[q] = thr[q]
    BY <1>0, <1>17, SleepRelockIs DEF Moves, Local
  <2>2. TableBut(p) /\ ptable'[p].state = ptable[p].state
    BY <1>0, <1>17, SleepRelockIs DEF Slot, TableBut
  <2>3. ptable[p].state = "RUNNING"
    BY <2>1, RunsIs DEF OnOk, SchedPcs
  <2>4. SleepKept(p)
    BY <2>1, <2>2, <2>3, SleepAwakes
  <2> QED
    BY <2>1, <2>2, <2>4, SleepBut
<1>18. ASSUME NEW c \in CPUs, NEW p \in Procs \cap {cpu[c].sp}, sched(c, p) PROVE SleepInv'
  <2>1. /\ Runs(c, p) /\ thr[p].pc \in SchedPcs /\ Moves(p, Resume(thr[p].pc)) /\ UNCHANGED <<ptable, ticks>>
        /\ Resume(thr[p].pc) # "s_sleep"
        /\ cpu[TickCpu].ipc = "wakeup" => cpu'[TickCpu].ipc = "wakeup"
    BY <1>18, SchedDoes, Slots DEF Processor, CpusBut
  <2>2. \A q \in Procs : SleepKept(q)
    BY <2>1 DEF SleepKept, Sleeps, Moves
  <2> QED
    BY <2>1, <2>2, SleepStays
<1>19. ASSUME NEW c \in CPUs, NEW p \in Procs \cap {cpu[c].sp}, YieldBack(c, p) PROVE SleepInv'
  <2>1. /\ p \in Procs /\ Runs(c, p) /\ thr[p].pc = "y_back" /\ UNCHANGED <<ticks, cpu>>
        /\ thr'[p].pc \in NoLockPcs /\ \A q \in Procs \ {p} : thr'[q] = thr[q]
    BY <1>0, <1>19, YieldBackDoes DEF Local, NoLockPcs
  <2>2. TableBut(p) /\ ptable'[p].state = ptable[p].state
    BY <1>0, <1>19, YieldBackDoes DEF Slot, TableBut
  <2>3. ptable[p].state = "RUNNING"
    BY <2>1, RunsIs DEF OnOk, SchedPcs
  <2>4. SleepKept(p)
    BY <2>1, <2>2, <2>3, SleepAwakes DEF NoLockPcs
  <2> QED
    BY <2>1, <2>2, <2>4, SleepBut
<1>20. ASSUME NEW c \in CPUs, SchedAcquire(c) PROVE SleepInv'
  <2>1. UNCHANGED <<ptable, ticks>> /\ (cpu[TickCpu].ipc = "wakeup" => cpu'[TickCpu].ipc = "wakeup")
    BY <1>0, <1>20, SchedAcquireIs, Slots DEF Processor, CpusBut
  <2>2. UNCHANGED thr
    BY <1>0, <1>20, SchedAcquireIs
  <2>3. \A q \in Procs : SleepKept(q)
    BY <2>1, <2>2 DEF SleepKept, Sleeps
  <2> QED
    BY <2>1, <2>3, SleepStays
<1>21. ASSUME NEW c \in CPUs, SchedSwitch(c) PROVE SleepInv'
  <2>1. PICK p \in Procs : SetState(p, "RUNNING") /\ Processor(c, p, p, p, "swtch", p, "none")
    BY <1>21, SchedSwitchDoes
  <2>2. UNCHANGED <<thr, ticks>> /\ cpu[c].ipc = "none"
    BY <1>21, SchedSwitchDoes
  <2>3. cpu[TickCpu].ipc = "wakeup" => cpu'[TickCpu].ipc = "wakeup"
    BY <2>1, <2>2, Slots DEF Processor, CpusBut
  <2>4. \A q \in Procs : SleepKept(q)
    BY <2>1, <2>2 DEF SleepKept, Sleeps, SetState, Slot, TableBut
  <2> QED
    BY <2>2, <2>3, <2>4, SleepStays
<1>22. ASSUME NEW c \in CPUs, SchedBack(c) PROVE SleepInv'
  <2>1. UNCHANGED <<ptable, ticks>> /\ (cpu[TickCpu].ipc = "wakeup" => cpu'[TickCpu].ipc = "wakeup")
    BY <1>0, <1>22, SchedBackDoes, Slots DEF Processor, CpusBut
  <2>2. UNCHANGED thr
    BY <1>0, <1>22, SchedBackDoes
  <2>3. \A q \in Procs : SleepKept(q)
    BY <2>1, <2>2 DEF SleepKept, Sleeps
  <2> QED
    BY <2>1, <2>3, SleepStays
<1>23. ASSUME NEW c \in CPUs, SchedRelease(c) PROVE SleepInv'
  <2>1. UNCHANGED <<ptable, ticks>> /\ (cpu[TickCpu].ipc = "wakeup" => cpu'[TickCpu].ipc = "wakeup")
    BY <1>0, <1>23, SchedReleaseIs, Slots DEF Processor, CpusBut
  <2>2. UNCHANGED thr
    BY <1>0, <1>23, SchedReleaseIs
  <2>3. \A q \in Procs : SleepKept(q)
    BY <2>1, <2>2 DEF SleepKept, Sleeps
  <2> QED
    BY <2>1, <2>3, SleepStays
<1>24. ASSUME NEW c \in CPUs, ClockTick(c) PROVE SleepInv'
  <2>1. /\ c = TickCpu /\ tlock = NoCpu /\ UNCHANGED <<ptable, thr>>
        /\ Processor(c, cpu[c].proc, cpu[c].sp, cpu[c].cr3, cpu[c].spc, cpu[c].i, "wakeup")
    BY <1>0, <1>24, ClockTickIs
  <2>2. ASSUME NEW p \in Procs, thr[p].pc = "s_sleep" PROVE FALSE
    <3>1. PICK d \in CPUs : cpu[d].sp = p
      BY <1>0, <2>2 DEF ThreadInv, OffOk, OnCpu
    <3>2. tlock = d
      BY <1>0, <2>2, <3>1, Slots DEF TickInv, TickPcs
    <3> QED
      BY <2>1, <3>2, Slots
  <2>3. cpu'[TickCpu].ipc = "wakeup"
    BY <2>1 DEF Processor
  <2> QED
    BY <2>1, <2>2, <2>3 DEF SleepInv
<1>25. ASSUME NEW c \in CPUs, ClockWakeup(c) PROVE SleepInv'
  <2>1. Wakes(Ticks) /\ UNCHANGED <<thr, ticks>>
    BY <1>0, <1>25, ClockWakeupIs
  <2>2. \A q \in Procs : ~Sleeps(q)'
    BY <2>1 DEF Sleeps, Wakes
  <2>3. \A q \in Procs : Elapsed(q)' = Elapsed(q)
    BY <2>1 DEF Elapsed
  <2> QED
    BY <1>0, <2>1, <2>2, <2>3 DEF SleepInv, Sleeps
<1>26. ASSUME NEW c \in CPUs, ClockRelease(c) PROVE SleepInv'
  <2>1. UNCHANGED <<ptable, ticks>> /\ (cpu[TickCpu].ipc = "wakeup" => cpu'[TickCpu].ipc = "wakeup")
    BY <1>0, <1>26, ClockReleaseIs, Slots DEF Processor, CpusBut
  <2>2. UNCHANGED thr
    BY <1>0, <1>26, ClockReleaseIs
  <2>3. \A q \in Procs : SleepKept(q)
    BY <2>1, <2>2 DEF SleepKept, Sleeps
  <2> QED
    BY <2>1, <2>3, SleepStays
<1>27. ASSUME NEW c \in CPUs, TrapTail(c) PROVE SleepInv'
  <2>1. UNCHANGED ticks /\ (cpu[TickCpu].ipc = "wakeup" => cpu'[TickCpu].ipc = "wakeup")
    BY <1>27, TrapTailDoes, Slots DEF Processor, CpusBut, InterruptsOn
  <2>2. CASE UNCHANGED <<ptable, thr>>
    <3>1. \A q \in Procs : SleepKept(q)
      BY <2>2 DEF SleepKept, Sleeps
    <3> QED
      BY <2>1, <3>1, SleepStays
  <2>3. ASSUME NEW p \in Procs, ptable[p].state = "RUNNING",
               \/ Moves(p, "exit") /\ UNCHANGED ptable
               \/ SetState(p, "RUNNABLE") /\ Local(p, "y_sched", thr[p].np, thr[p].ticks0, thr[p].pc)
        PROVE  SleepInv'
    <3>1. SleepKept(p)
      BY <2>3, SleepAwakes DEF Moves, SetState, Slot, Local
    <3>2. \A q \in Procs \ {p} : SleepKept(q)
      BY <2>3, SleepSame DEF Moves, SetState, Slot, TableBut, Local
    <3> QED
      BY <2>1, <3>1, <3>2, SleepStays
  <2> QED
    BY <1>27, <2>2, <2>3, TrapTailDoes
<1>28. CASE UNCHANGED vars
  <2>1. \A q \in Procs : SleepKept(q)
    BY <1>28 DEF SleepKept, Sleeps, vars
  <2>2. UNCHANGED <<ticks, cpu>>
    BY <1>28 DEF vars
  <2> QED
    BY <2>1, <2>2, SleepStays
<1> QED
  BY <1>1, <1>2, <1>3, <1>4, <1>5, <1>6, <1>7, <1>8, <1>9, <1>10, <1>11, <1>12, <1>13, <1>14,
     <1>15, <1>16, <1>17, <1>18, <1>19, <1>20, <1>21, <1>22, <1>23, <1>24, <1>25, <1>26, <1>27, <1>28 DEF Next, Thread, Scheduler, Clock

(***************************************************************************)
(* init does not exit unless it is killed, and nobody else panics.         *)
(***************************************************************************)
PanicKept ==
  /\ ptable'[initproc].pid = ptable[initproc].pid
  /\ ptable'[initproc].killed = ptable[initproc].killed
  /\ At(initproc)' = "exit" => At(initproc) = "exit" \/ ptable[initproc].killed
  /\ UNCHANGED panicked

\* A step that brings only a killed init to exit keeps PanicInv.
LEMMA PanicStays == ASSUME IInv, PanicKept PROVE PanicInv'
BY DEF IInv, PanicInv, PanicKept

\* A thread other than init's moves, or init's does to a place other than exit.
LEMMA PanicMoves ==
  ASSUME IInv, NEW p \in Procs, \A q \in Procs \ {p} : thr'[q] = thr[q],
         p = initproc => At(p)' # "exit" \/ At(p)' = At(p) \/ ptable[p].killed,
         ptable'[initproc].pid = ptable[initproc].pid, ptable'[initproc].killed = ptable[initproc].killed,
         UNCHANGED panicked
  PROVE  PanicInv'
<1>1. initproc \in Procs
  BY Slots
<1>2. At(initproc)' = "exit" => At(initproc) = "exit" \/ ptable[initproc].killed
  BY <1>1 DEF At
<1> QED
  BY <1>2, PanicStays DEF PanicKept

\* init is never UNUSED or an EMBRYO.
LEMMA InitLives == ASSUME IInv PROVE initproc \in Procs /\ ptable[initproc].state \in Alive
BY Slots DEF IInv, FamilyInv

\* Only a killed init gets to exit.
LEMMA PanicStep == IInv /\ [Next]_vars => PanicInv'
<1> SUFFICES ASSUME IInv, [Next]_vars PROVE PanicInv'
  OBVIOUS
<1>0. TypeOK /\ PanicInv
  BY DEF IInv
<1>1. ASSUME NEW c \in CPUs, NEW p \in Procs \cap {cpu[c].sp}, NEW call \in Calls, Syscall(c, p, call) PROVE PanicInv'
  <2>1. /\ p \in Procs /\ Moves(p, IF ptable[p].killed THEN "exit" ELSE call) /\ UNCHANGED <<ptable, panicked>>
        /\ p = initproc => call \in {"fork", "wait"}
    BY <1>0, <1>1, SyscallIs
  <2>2. p = initproc => At(p)' # "exit" \/ ptable[p].killed
    BY <2>1 DEF Moves, At
  <2> QED
    BY <2>1, <2>2, PanicMoves DEF Moves
<1>2. ASSUME NEW c \in CPUs, NEW p \in Procs \cap {cpu[c].sp}, Sysret(c, p) PROVE PanicInv'
  <2>1. p \in Procs /\ Moves(p, IF ptable[p].killed THEN "exit" ELSE "user") /\ UNCHANGED <<ptable, panicked>>
    BY <1>0, <1>2, SysretIs
  <2>2. At(p)' # "exit" \/ ptable[p].killed
    BY <2>1 DEF Moves, At
  <2> QED
    BY <2>1, <2>2, PanicMoves DEF Moves
<1>3. ASSUME NEW c \in CPUs, NEW p \in Procs \cap {cpu[c].sp}, allocproc(c, p) PROVE PanicInv'
  <2>1. p \in Procs /\ UNCHANGED panicked
    BY <1>0, <1>3, AllocprocIs
  <2>2. CASE Moves(p, "ret") /\ UNCHANGED ptable
    <3>1. At(p)' # "exit"
      BY <2>2 DEF Moves, At
    <3> QED
      BY <2>1, <2>2, <3>1, PanicMoves DEF Moves
  <2>3. ASSUME NEW np \in Procs, Claims(p, np) PROVE PanicInv'
    <3>1. /\ ptable[np].state = "UNUSED" /\ TableBut(np) /\ thr'[p].pc = "f_kstack"
          /\ \A q \in Procs \ {p} : thr'[q] = thr[q]
      BY <2>3 DEF Claims, Slot, Local
    <3>2. ptable'[initproc] = ptable[initproc]
      BY <3>1, InitLives DEF TableBut, Alive
    <3>3. At(p)' # "exit"
      BY <3>1 DEF At
    <3> QED
      BY <2>1, <3>1, <3>2, <3>3, PanicMoves
  <2> QED
    BY <1>0, <1>3, <2>2, <2>3, AllocprocIs
<1>4. ASSUME NEW c \in CPUs, NEW p \in Procs \cap {cpu[c].sp}, ForkKstack(c, p) PROVE PanicInv'
  <2>1. p \in Procs /\ UNCHANGED panicked
    BY <1>4, ForkFills
  <2>2. PICK np \in Procs : Fills(p, np)
    BY <1>4, ForkFills
  <2>3. ptable'[initproc] = ptable[initproc]
    BY <2>2, Slots DEF Fills, TableBut
  <2>4. At(p)' # "exit" /\ \A q \in Procs \ {p} : thr'[q] = thr[q]
    BY <2>2 DEF Fills, At
  <2> QED
    BY <2>1, <2>3, <2>4, PanicMoves
<1>5. ASSUME NEW c \in CPUs, NEW p \in Procs \cap {cpu[c].sp}, ForkCopy(c, p) PROVE PanicInv'
  <2>1. p \in Procs /\ UNCHANGED panicked
    BY <1>5, ForkFills
  <2>2. PICK np \in Procs : Fills(p, np)
    BY <1>5, ForkFills
  <2>3. ptable'[initproc] = ptable[initproc]
    BY <2>2, Slots DEF Fills, TableBut
  <2>4. At(p)' # "exit" /\ \A q \in Procs \ {p} : thr'[q] = thr[q]
    BY <2>2 DEF Fills, At
  <2> QED
    BY <2>1, <2>3, <2>4, PanicMoves
<1>6. ASSUME NEW c \in CPUs, NEW p \in Procs \cap {cpu[c].sp}, ForkRun(c, p) PROVE PanicInv'
  <2>1. PICK np \in Procs :
          /\ np # p /\ np # initproc /\ p \in Procs /\ SetState(np, "RUNNABLE") /\ UNCHANGED panicked
          /\ thr'[p].pc = "ret" /\ \A q \in Procs \ {p, np} : thr'[q] = thr[q]
    BY <1>6, ForkRunDoes DEF Runs
  <2>2. ptable'[initproc] = ptable[initproc]
    BY <2>1, Slots DEF SetState, Slot, TableBut
  <2>3. At(initproc)' = "exit" => At(initproc) = "exit"
    BY <2>1, Slots DEF At
  <2> QED
    BY <2>1, <2>2, <2>3, PanicStays DEF PanicKept
<1>7. ASSUME NEW c \in CPUs, NEW p \in Procs \cap {cpu[c].sp}, forkret(c, p) PROVE PanicInv'
  <2>1. /\ p \in Procs /\ \A q \in Procs \ {p} : thr'[q] = thr[q]
        /\ thr'[p].pc = "ret"
    BY <1>0, <1>7, ForkretIs DEF Moves, Local
  <2>2. /\ ptable'[initproc].pid = ptable[initproc].pid /\ ptable'[initproc].killed = ptable[initproc].killed
        /\ UNCHANGED panicked
    BY <1>0, <1>7, ForkretIs, Slots DEF Slot, TableBut
  <2>3. At(p)' # "exit"
    BY <2>1 DEF At
  <2> QED
    BY <2>1, <2>2, <2>3, PanicMoves
<1>8. ASSUME NEW c \in CPUs, NEW p \in Procs \cap {cpu[c].sp}, exit(c, p) PROVE PanicInv'
  <2>1. p \in Procs /\ thr[p].pc = "exit"
    BY <1>0, <1>8, ExitIs
  <2>2. CASE p = initproc /\ UNCHANGED <<ptable, thr>>
    BY <1>0, <2>1, <2>2 DEF PanicInv, At
  <2>3. CASE p # initproc /\ Exits(p) /\ Moves(p, "e_sched") /\ UNCHANGED panicked
    BY <2>1, <2>3, PanicMoves, Slots DEF Exits, Moves
  <2> QED
    BY <1>0, <1>8, <2>2, <2>3, ExitIs
<1>9. ASSUME NEW c \in CPUs, NEW p \in Procs \cap {cpu[c].sp}, WaitLock(c, p) PROVE PanicInv'
  <2>1. /\ p \in Procs /\ \A q \in Procs \ {p} : thr'[q] = thr[q]
        /\ thr'[p].pc = "w_scan"
    BY <1>0, <1>9, WaitLockIs DEF Moves, Local
  <2>2. /\ ptable'[initproc].pid = ptable[initproc].pid /\ ptable'[initproc].killed = ptable[initproc].killed
        /\ UNCHANGED panicked
    BY <1>0, <1>9, WaitLockIs, Slots DEF Slot, TableBut
  <2>3. At(p)' # "exit"
    BY <2>1 DEF At
  <2> QED
    BY <2>1, <2>2, <2>3, PanicMoves
<1>10. ASSUME NEW c \in CPUs, NEW p \in Procs \cap {cpu[c].sp}, WaitScan(c, p) PROVE PanicInv'
  <2>1. p \in Procs /\ UNCHANGED panicked
    BY <1>10, WaitScanDoes
  <2>2. ASSUME NEW q \in Procs \ {p, initproc}, Reaps(p, q) PROVE PanicInv'
    <3>1. TableBut(q) /\ thr'[p].pc = "ret" /\ \A o \in Procs \ {p, q} : thr'[o] = thr[o]
      BY <2>2 DEF Reaps, Slot
    <3>2. ptable'[initproc] = ptable[initproc]
      BY <2>2, <3>1, Slots DEF TableBut
    <3>3. At(initproc)' = "exit" => At(initproc) = "exit"
      BY <2>1, <2>2, <3>1, Slots DEF At
    <3> QED
      BY <2>1, <3>2, <3>3, PanicStays DEF PanicKept
  <2>3. CASE Moves(p, "ret") /\ UNCHANGED ptable
    <3>1. At(p)' # "exit"
      BY <2>3 DEF Moves, At
    <3> QED
      BY <2>1, <2>3, <3>1, PanicMoves DEF Moves
  <2>4. CASE /\ Slot(p, "SLEEPING", ptable[p].pid, ptable[p].parent, ptable[p].killed, p,
                     ptable[p].kstack, ptable[p].pgdir)
             /\ Moves(p, "w_sched")
    <3>1. At(p)' # "exit"
      BY <2>4 DEF Moves, At
    <3> QED
      BY <2>1, <2>4, <3>1, PanicMoves, Slots DEF Moves, Slot, TableBut
  <2> QED
    BY <1>10, <2>2, <2>3, <2>4, WaitScanDoes
<1>11. ASSUME NEW c \in CPUs, NEW p \in Procs \cap {cpu[c].sp}, WaitAwake(c, p) PROVE PanicInv'
  <2>1. /\ p \in Procs /\ \A q \in Procs \ {p} : thr'[q] = thr[q]
        /\ thr'[p].pc = "w_scan"
    BY <1>0, <1>11, WaitAwakeIs DEF Moves, Local
  <2>2. /\ ptable'[initproc].pid = ptable[initproc].pid /\ ptable'[initproc].killed = ptable[initproc].killed
        /\ UNCHANGED panicked
    BY <1>0, <1>11, WaitAwakeIs, Slots DEF Slot, TableBut
  <2>3. At(p)' # "exit"
    BY <2>1 DEF At
  <2> QED
    BY <2>1, <2>2, <2>3, PanicMoves
<1>12. ASSUME NEW c \in CPUs, NEW p \in Procs \cap {cpu[c].sp}, NEW pid \in KillPids, kill(c, p, pid) PROVE PanicInv'
  <2>1. p \in Procs /\ Moves(p, "ret") /\ UNCHANGED panicked
    BY <1>0, <1>12, KillIs
  <2>2. At(p)' # "exit" /\ \A q \in Procs \ {p} : thr'[q] = thr[q]
    BY <2>1 DEF Moves, At
  <2>3. CASE ptable'[initproc].pid = ptable[initproc].pid /\ ptable'[initproc].killed = ptable[initproc].killed
    BY <2>1, <2>2, <2>3, PanicMoves
  <2>4. CASE ptable'[initproc].killed /\ ptable[initproc].pid = pid /\ ptable'[initproc].pid = pid
    BY <1>0, <2>4, <1>12 DEF PanicInv
  <2>5. \/ UNCHANGED ptable
        \/ \E m \in Procs : /\ ptable[m].pid = pid /\ TableBut(m)
                            /\ ptable'[m].pid = ptable[m].pid /\ ptable'[m].killed
    BY ZenonT(60), <1>0, <1>12, KillIs DEF Slot
  <2> QED
    BY <2>3, <2>4, <2>5, Slots DEF TableBut
<1>13. ASSUME NEW c \in CPUs, NEW p \in Procs \cap {cpu[c].sp}, SleepStart(c, p) PROVE PanicInv'
  <2>1. /\ p \in Procs /\ \A q \in Procs \ {p} : thr'[q] = thr[q]
        /\ thr'[p].pc = "s_test"
    BY <1>0, <1>13, SleepStartIs DEF Moves, Local
  <2>2. /\ ptable'[initproc].pid = ptable[initproc].pid /\ ptable'[initproc].killed = ptable[initproc].killed
        /\ UNCHANGED panicked
    BY <1>0, <1>13, SleepStartIs, Slots DEF Slot, TableBut
  <2>3. At(p)' # "exit"
    BY <2>1 DEF At
  <2> QED
    BY <2>1, <2>2, <2>3, PanicMoves
<1>14. ASSUME NEW c \in CPUs, NEW p \in Procs \cap {cpu[c].sp}, SleepTest(c, p) PROVE PanicInv'
  <2>1. /\ p \in Procs /\ \A q \in Procs \ {p} : thr'[q] = thr[q]
        /\ thr'[p].pc \in {"s_sleep", "ret"}
    BY <1>0, <1>14, SleepTestIs DEF Moves, Local
  <2>2. /\ ptable'[initproc].pid = ptable[initproc].pid /\ ptable'[initproc].killed = ptable[initproc].killed
        /\ UNCHANGED panicked
    BY <1>0, <1>14, SleepTestIs, Slots DEF Slot, TableBut
  <2>3. At(p)' # "exit"
    BY <2>1 DEF At
  <2> QED
    BY <2>1, <2>2, <2>3, PanicMoves
<1>15. ASSUME NEW c \in CPUs, NEW p \in Procs \cap {cpu[c].sp}, sleep(c, p) PROVE PanicInv'
  <2>1. /\ p \in Procs /\ \A q \in Procs \ {p} : thr'[q] = thr[q]
        /\ thr'[p].pc = "s_sched"
    BY <1>0, <1>15, SleepIs DEF Moves, Local
  <2>2. /\ ptable'[initproc].pid = ptable[initproc].pid /\ ptable'[initproc].killed = ptable[initproc].killed
        /\ UNCHANGED panicked
    BY <1>0, <1>15, SleepIs, Slots DEF Slot, TableBut
  <2>3. At(p)' # "exit"
    BY <2>1 DEF At
  <2> QED
    BY <2>1, <2>2, <2>3, PanicMoves
<1>16. ASSUME NEW c \in CPUs, NEW p \in Procs \cap {cpu[c].sp}, SleepAwake(c, p) PROVE PanicInv'
  <2>1. /\ p \in Procs /\ \A q \in Procs \ {p} : thr'[q] = thr[q]
        /\ thr'[p].pc = "s_relock"
    BY <1>0, <1>16, SleepAwakeIs DEF Moves, Local
  <2>2. /\ ptable'[initproc].pid = ptable[initproc].pid /\ ptable'[initproc].killed = ptable[initproc].killed
        /\ UNCHANGED panicked
    BY <1>0, <1>16, SleepAwakeIs, Slots DEF Slot, TableBut
  <2>3. At(p)' # "exit"
    BY <2>1 DEF At
  <2> QED
    BY <2>1, <2>2, <2>3, PanicMoves
<1>17. ASSUME NEW c \in CPUs, NEW p \in Procs \cap {cpu[c].sp}, SleepRelock(c, p) PROVE PanicInv'
  <2>1. /\ p \in Procs /\ \A q \in Procs \ {p} : thr'[q] = thr[q]
        /\ thr'[p].pc = "s_test"
    BY <1>0, <1>17, SleepRelockIs DEF Moves, Local
  <2>2. /\ ptable'[initproc].pid = ptable[initproc].pid /\ ptable'[initproc].killed = ptable[initproc].killed
        /\ UNCHANGED panicked
    BY <1>0, <1>17, SleepRelockIs, Slots DEF Slot, TableBut
  <2>3. At(p)' # "exit"
    BY <2>1 DEF At
  <2> QED
    BY <2>1, <2>2, <2>3, PanicMoves
<1>18. ASSUME NEW c \in CPUs, NEW p \in Procs \cap {cpu[c].sp}, sched(c, p) PROVE PanicInv'
  <2>1. /\ p \in Procs /\ Moves(p, Resume(thr[p].pc)) /\ thr[p].pc \in SchedPcs /\ UNCHANGED <<ptable, panicked>>
    BY <1>18, SchedDoes
  <2>2. At(p)' # "exit" \/ At(p)' = At(p)
    BY <2>1, ResumeIs DEF Moves, At, SchedPcs
  <2> QED
    BY <2>1, <2>2, PanicMoves DEF Moves
<1>19. ASSUME NEW c \in CPUs, NEW p \in Procs \cap {cpu[c].sp}, YieldBack(c, p) PROVE PanicInv'
  <2>1. /\ p \in Procs /\ thr[p].pc = "y_back" /\ thr[p].ypc \in NoLockPcs /\ UNCHANGED <<ptable, panicked>>
        /\ \/ Local(p, "exit", thr[p].np, thr[p].ticks0, "none") /\ ptable[p].killed
           \/ Local(p, thr[p].ypc, thr[p].np, thr[p].ticks0, "none")
    BY <1>19, YieldBackDoes
  <2>2. ptable[p].killed \/ At(p)' = At(p)
    BY <2>1 DEF Local, At, NoLockPcs
  <2> QED
    BY <2>1, <2>2, PanicMoves DEF Local
<1>20. ASSUME NEW c \in CPUs, SchedAcquire(c) PROVE PanicInv'
  <2>1. UNCHANGED <<ptable, thr, panicked>>
    BY <1>0, <1>20, SchedAcquireIs
  <2> QED
    BY <2>1, PanicStays DEF PanicKept, At
<1>21. ASSUME NEW c \in CPUs, SchedSwitch(c) PROVE PanicInv'
  <2>1. PICK p \in Procs : SetState(p, "RUNNING")
    BY <1>21, SchedSwitchDoes
  <2>2. UNCHANGED <<thr, panicked>>
    BY <1>21, SchedSwitchDoes
  <2> QED
    BY <2>1, <2>2, Slots, PanicStays DEF PanicKept, At, SetState, Slot, TableBut
<1>22. ASSUME NEW c \in CPUs, SchedBack(c) PROVE PanicInv'
  <2>1. UNCHANGED <<ptable, thr, panicked>>
    BY <1>0, <1>22, SchedBackDoes
  <2> QED
    BY <2>1, PanicStays DEF PanicKept, At
<1>23. ASSUME NEW c \in CPUs, SchedRelease(c) PROVE PanicInv'
  <2>1. UNCHANGED <<ptable, thr, panicked>>
    BY <1>0, <1>23, SchedReleaseIs
  <2> QED
    BY <2>1, PanicStays DEF PanicKept, At
<1>24. ASSUME NEW c \in CPUs, ClockTick(c) PROVE PanicInv'
  <2>1. UNCHANGED <<ptable, thr, panicked>>
    BY <1>0, <1>24, ClockTickIs
  <2> QED
    BY <2>1, PanicStays DEF PanicKept, At
<1>25. ASSUME NEW c \in CPUs, ClockWakeup(c) PROVE PanicInv'
  <2>1. Wakes(Ticks) /\ UNCHANGED <<thr, panicked>>
    BY <1>0, <1>25, ClockWakeupIs
  <2> QED
    BY <2>1, Slots, PanicStays DEF PanicKept, At, Wakes
<1>26. ASSUME NEW c \in CPUs, ClockRelease(c) PROVE PanicInv'
  <2>1. UNCHANGED <<ptable, thr, panicked>>
    BY <1>0, <1>26, ClockReleaseIs
  <2> QED
    BY <2>1, PanicStays DEF PanicKept, At
<1>27. ASSUME NEW c \in CPUs, TrapTail(c) PROVE PanicInv'
  <2>1. UNCHANGED panicked
    BY <1>27, TrapTailDoes
  <2>2. CASE UNCHANGED <<ptable, thr>>
    BY <2>1, <2>2, PanicStays DEF PanicKept, At
  <2>3. ASSUME NEW p \in Procs, ptable[p].killed, Moves(p, "exit"), UNCHANGED ptable PROVE PanicInv'
    BY <2>1, <2>3, PanicMoves DEF Moves
  <2>4. ASSUME NEW p \in Procs, thr[p].pc \in NoLockPcs, SetState(p, "RUNNABLE"),
               Local(p, "y_sched", thr[p].np, thr[p].ticks0, thr[p].pc)
        PROVE  PanicInv'
    <3>1. At(p)' = At(p)
      BY <2>4 DEF Local, At, NoLockPcs
    <3> QED
      BY <2>1, <2>4, <3>1, PanicMoves, Slots DEF Local, SetState, Slot, TableBut
  <2> QED
    BY <1>27, <2>2, <2>3, <2>4, TrapTailDoes
<1>28. CASE UNCHANGED vars
  BY <1>28, PanicStays DEF PanicKept, At, vars
<1> QED
  BY <1>1, <1>2, <1>3, <1>4, <1>5, <1>6, <1>7, <1>8, <1>9, <1>10, <1>11, <1>12, <1>13, <1>14,
     <1>15, <1>16, <1>17, <1>18, <1>19, <1>20, <1>21, <1>22, <1>23, <1>24, <1>25, <1>26, <1>27, <1>28 DEF Next, Thread, Scheduler, Clock

(***************************************************************************)
(* The bound on pids: at most NPROC threads have passed the test.          *)
(***************************************************************************)
LEMMA ForkingFinite == IsFiniteSet(Forking) /\ Cardinality(Forking) \in 0..NPROC
<1>1. IsFiniteSet(Procs) /\ Cardinality(Procs) = NPROC
  BY FS_Interval, ProcAssumption DEF Procs
<1>2. Forking \subseteq Procs
  BY DEF Forking
<1>3. IsFiniteSet(Forking) /\ Cardinality(Forking) <= Cardinality(Procs)
  BY <1>1, <1>2, FS_Subset
<1>4. Cardinality(Forking) \in Nat
  BY <1>3, FS_CardinalityType
<1> QED
  BY <1>1, <1>3, <1>4, ProcAssumption

\* A step after which no more processes are about to take a pid keeps PidInv.
LEMMA PidStays ==
  ASSUME IInv, UNCHANGED nextpid, \A q \in Procs : At(q)' = "fork" => At(q) = "fork"
  PROVE  PidInv'
<1>1. Forking' \subseteq Forking
  BY DEF Forking
<1>2. IsFiniteSet(Forking) /\ Cardinality(Forking) \in 0..NPROC
  BY ForkingFinite
<1>3. Cardinality(Forking') <= Cardinality(Forking) /\ Cardinality(Forking') \in Nat
  BY <1>1, <1>2, FS_Subset, FS_CardinalityType
<1>4. nextpid + Cardinality(Forking) <= MaxPid + NPROC + 1 /\ nextpid \in Nat
  BY DEF IInv, PidInv, TypeOK
<1>5. nextpid' + Cardinality(Forking') <= MaxPid + NPROC + 1
  <2> DEFINE m == Cardinality(Forking)
             n == Cardinality(Forking')
  <2>1. n \in Nat /\ m \in Nat /\ n <= m /\ nextpid + m <= MaxPid + NPROC + 1
    BY <1>2, <1>3, <1>4
  <2> HIDE DEF m, n
  <2>2. nextpid + n <= MaxPid + NPROC + 1
    BY <1>4, <2>1, ProcAssumption
  <2> QED
    BY <2>2 DEF n
<1> QED
  BY <1>5 DEF PidInv

\* A thread that moves without entering fork is one of those.
LEMMA PidMoves ==
  ASSUME IInv, NEW p \in Procs, \A q \in Procs \ {p} : thr'[q] = thr[q], At(p)' # "fork" \/ At(p)' = At(p),
         UNCHANGED nextpid
  PROVE  PidInv'
<1>1. \A q \in Procs : At(q)' = "fork" => At(q) = "fork"
  BY DEF At
<1> QED
  BY <1>1, PidStays

\* The threads stay.
LEMMA PidSame == ASSUME IInv, UNCHANGED <<thr, nextpid>> PROVE PidInv'
BY PidStays DEF At

\* A thread that is about to take a pid finds one within the bound.
LEMMA PidLeft ==
  ASSUME IInv, NEW p \in Procs, At(p) = "fork"
  PROVE  nextpid \in 1..(MaxPid + NPROC)
<1>1. p \in Forking
  BY DEF Forking
<1>2. Cardinality(Forking) # 0 /\ Cardinality(Forking) \in Nat
  BY <1>1, ForkingFinite, FS_EmptySet
<1>3. nextpid + Cardinality(Forking) <= MaxPid + NPROC + 1 /\ nextpid \in Nat \ {0}
  BY DEF IInv, PidInv, TypeOK
<1> QED
  BY <1>2, <1>3, ProcAssumption

\* Each of them takes at most one pid.
LEMMA PidStep == IInv /\ [Next]_vars => PidInv'
<1> SUFFICES ASSUME IInv, [Next]_vars PROVE PidInv'
  OBVIOUS
<1>0. TypeOK /\ PidInv
  BY DEF IInv
<1>1. ASSUME NEW c \in CPUs, NEW p \in Procs \cap {cpu[c].sp}, NEW call \in Calls, Syscall(c, p, call) PROVE PidInv'
  <2>1. /\ p \in Procs /\ Moves(p, IF ptable[p].killed THEN "exit" ELSE call) /\ UNCHANGED nextpid
        /\ call \in {"fork", "exit", "wait", "kill", "sleep"} /\ (call = "fork" => nextpid <= MaxPid)
    BY <1>0, <1>1, SyscallIs
  <2>2. CASE At(p)' # "fork"
    BY <2>1, <2>2, PidMoves DEF Moves
  <2>3. CASE At(p)' = "fork"
    <3>1. nextpid <= MaxPid
      BY <2>1, <2>3 DEF At, Moves
    <3>2. PICK n \in 0..NPROC : n = Cardinality(Forking')
      <4>1. (IsFiniteSet(Forking) /\ Cardinality(Forking) \in 0..NPROC)'
        BY ForkingFinite, PTL
      <4> QED
        BY <4>1
    <3>3. nextpid \in Nat /\ nextpid' + n <= MaxPid + NPROC + 1
      BY <1>0, <2>1, <3>1, ProcAssumption DEF TypeOK
    <3> QED
      BY <3>2, <3>3 DEF PidInv
  <2> QED
    BY <2>2, <2>3
<1>2. ASSUME NEW c \in CPUs, NEW p \in Procs \cap {cpu[c].sp}, Sysret(c, p) PROVE PidInv'
  <2>1. p \in Procs /\ UNCHANGED nextpid /\ thr'[p].pc \in {"exit", "user"} /\ \A q \in Procs \ {p} : thr'[q] = thr[q]
    BY <1>0, <1>2, SysretIs DEF Moves, Local
  <2>2. At(p)' # "fork"
    BY <2>1 DEF At
  <2> QED
    BY <2>1, <2>2, PidMoves
<1>3. ASSUME NEW c \in CPUs, NEW p \in Procs \cap {cpu[c].sp}, allocproc(c, p) PROVE PidInv'
  <2>1. p \in Procs /\ thr[p].pc = "fork"
    BY <1>0, <1>3, AllocprocIs
  <2>2. CASE Moves(p, "ret") /\ UNCHANGED nextpid
    <3>1. At(p)' # "fork"
      BY <2>2 DEF Moves, At
    <3> QED
      BY <2>1, <2>2, <3>1, PidMoves DEF Moves
  <2>3. ASSUME NEW np \in Procs, Claims(p, np) PROVE PidInv'
    <3>1. nextpid' = nextpid + 1 /\ thr'[p].pc = "f_kstack" /\ \A q \in Procs \ {p} : thr'[q] = thr[q]
      BY <2>3 DEF Claims, Local
    <3>2. Forking' = Forking \ {p} /\ p \in Forking
      BY <2>1, <3>1 DEF Forking, At
    <3>3. IsFiniteSet(Forking) /\ Cardinality(Forking) \in 0..NPROC
      BY ForkingFinite
    <3>4. Cardinality(Forking') = Cardinality(Forking) - 1
      BY <3>2, <3>3, FS_RemoveElement
    <3>5. PICK n \in 0..NPROC : n = Cardinality(Forking)
      BY <3>3
    <3>6. nextpid \in Nat /\ nextpid + n <= MaxPid + NPROC + 1
      BY <1>0, <3>5 DEF TypeOK, PidInv
    <3>7. nextpid' + (n - 1) <= MaxPid + NPROC + 1
      BY <3>1, <3>6, ProcAssumption
    <3> QED
      BY <3>4, <3>5, <3>7 DEF PidInv
  <2> QED
    BY <1>0, <1>3, <2>2, <2>3, AllocprocIs
<1>4. ASSUME NEW c \in CPUs, NEW p \in Procs \cap {cpu[c].sp}, ForkKstack(c, p) PROVE PidInv'
  <2>1. p \in Procs /\ UNCHANGED nextpid
    BY <1>4, ForkFills
  <2>2. At(p)' # "fork" /\ \A q \in Procs \ {p} : thr'[q] = thr[q]
    BY <1>4, ForkFills DEF Fills, At
  <2> QED
    BY <2>1, <2>2, PidMoves
<1>5. ASSUME NEW c \in CPUs, NEW p \in Procs \cap {cpu[c].sp}, ForkCopy(c, p) PROVE PidInv'
  <2>1. p \in Procs /\ UNCHANGED nextpid
    BY <1>5, ForkFills
  <2>2. At(p)' # "fork" /\ \A q \in Procs \ {p} : thr'[q] = thr[q]
    BY <1>5, ForkFills DEF Fills, At
  <2> QED
    BY <2>1, <2>2, PidMoves
<1>6. ASSUME NEW c \in CPUs, NEW p \in Procs \cap {cpu[c].sp}, ForkRun(c, p) PROVE PidInv'
  <2>1. PICK np \in Procs :
          /\ thr'[np].pc = "forkret" /\ thr'[p].pc = "ret" /\ \A q \in Procs \ {p, np} : thr'[q] = thr[q]
          /\ UNCHANGED nextpid
    BY <1>6, ForkRunDoes
  <2>2. \A q \in Procs : At(q)' = "fork" => At(q) = "fork"
    BY <2>1 DEF At
  <2> QED
    BY <2>1, <2>2, PidStays
<1>7. ASSUME NEW c \in CPUs, NEW p \in Procs \cap {cpu[c].sp}, forkret(c, p) PROVE PidInv'
  <2>1. p \in Procs /\ UNCHANGED nextpid /\ thr'[p].pc = "ret" /\ \A q \in Procs \ {p} : thr'[q] = thr[q]
    BY <1>0, <1>7, ForkretIs DEF Moves, Local
  <2>2. At(p)' # "fork"
    BY <2>1 DEF At
  <2> QED
    BY <2>1, <2>2, PidMoves
<1>8. ASSUME NEW c \in CPUs, NEW p \in Procs \cap {cpu[c].sp}, exit(c, p) PROVE PidInv'
  <2>1. p \in Procs /\ UNCHANGED nextpid
    BY <1>0, <1>8, ExitIs
  <2>2. CASE UNCHANGED thr
    BY <2>1, <2>2, PidSame
  <2>3. CASE Moves(p, "e_sched")
    <3>1. At(p)' # "fork"
      BY <2>3 DEF Moves, At
    <3> QED
      BY <2>1, <2>3, <3>1, PidMoves DEF Moves
  <2> QED
    BY <1>0, <1>8, <2>2, <2>3, ExitIs
<1>9. ASSUME NEW c \in CPUs, NEW p \in Procs \cap {cpu[c].sp}, WaitLock(c, p) PROVE PidInv'
  <2>1. p \in Procs /\ UNCHANGED nextpid /\ thr'[p].pc = "w_scan" /\ \A q \in Procs \ {p} : thr'[q] = thr[q]
    BY <1>0, <1>9, WaitLockIs DEF Moves, Local
  <2>2. At(p)' # "fork"
    BY <2>1 DEF At
  <2> QED
    BY <2>1, <2>2, PidMoves
<1>10. ASSUME NEW c \in CPUs, NEW p \in Procs \cap {cpu[c].sp}, WaitScan(c, p) PROVE PidInv'
  <2>1. p \in Procs /\ UNCHANGED nextpid
    BY <1>10, WaitScanDoes
  <2>2. ASSUME NEW q \in Procs \ {p, initproc}, Reaps(p, q) PROVE PidInv'
    <3>1. thr'[q].pc = "none" /\ thr'[p].pc = "ret" /\ \A o \in Procs \ {p, q} : thr'[o] = thr[o]
      BY <2>2 DEF Reaps, NoThread
    <3>2. \A o \in Procs : At(o)' = "fork" => At(o) = "fork"
      BY <3>1 DEF At
    <3> QED
      BY <2>1, <3>2, PidStays
  <2>3. CASE Moves(p, "ret") \/ Moves(p, "w_sched")
    <3>1. At(p)' # "fork" /\ \A q \in Procs \ {p} : thr'[q] = thr[q]
      BY <2>3 DEF Moves, At
    <3> QED
      BY <2>1, <3>1, PidMoves
  <2> QED
    BY <1>10, <2>2, <2>3, WaitScanDoes
<1>11. ASSUME NEW c \in CPUs, NEW p \in Procs \cap {cpu[c].sp}, WaitAwake(c, p) PROVE PidInv'
  <2>1. p \in Procs /\ UNCHANGED nextpid /\ thr'[p].pc = "w_scan" /\ \A q \in Procs \ {p} : thr'[q] = thr[q]
    BY <1>0, <1>11, WaitAwakeIs DEF Moves, Local
  <2>2. At(p)' # "fork"
    BY <2>1 DEF At
  <2> QED
    BY <2>1, <2>2, PidMoves
<1>12. ASSUME NEW c \in CPUs, NEW p \in Procs \cap {cpu[c].sp}, NEW pid \in KillPids, kill(c, p, pid) PROVE PidInv'
  <2>1. p \in Procs /\ UNCHANGED nextpid /\ thr'[p].pc = "ret" /\ \A q \in Procs \ {p} : thr'[q] = thr[q]
    BY <1>0, <1>12, KillIs DEF Moves, Local
  <2>2. At(p)' # "fork"
    BY <2>1 DEF At
  <2> QED
    BY <2>1, <2>2, PidMoves
<1>13. ASSUME NEW c \in CPUs, NEW p \in Procs \cap {cpu[c].sp}, SleepStart(c, p) PROVE PidInv'
  <2>1. p \in Procs /\ UNCHANGED nextpid /\ thr'[p].pc = "s_test" /\ \A q \in Procs \ {p} : thr'[q] = thr[q]
    BY <1>0, <1>13, SleepStartIs DEF Moves, Local
  <2>2. At(p)' # "fork"
    BY <2>1 DEF At
  <2> QED
    BY <2>1, <2>2, PidMoves
<1>14. ASSUME NEW c \in CPUs, NEW p \in Procs \cap {cpu[c].sp}, SleepTest(c, p) PROVE PidInv'
  <2>1. p \in Procs /\ UNCHANGED nextpid /\ thr'[p].pc \in {"s_sleep", "ret"} /\ \A q \in Procs \ {p} : thr'[q] = thr[q]
    BY <1>0, <1>14, SleepTestIs DEF Moves, Local
  <2>2. At(p)' # "fork"
    BY <2>1 DEF At
  <2> QED
    BY <2>1, <2>2, PidMoves
<1>15. ASSUME NEW c \in CPUs, NEW p \in Procs \cap {cpu[c].sp}, sleep(c, p) PROVE PidInv'
  <2>1. p \in Procs /\ UNCHANGED nextpid /\ thr'[p].pc = "s_sched" /\ \A q \in Procs \ {p} : thr'[q] = thr[q]
    BY <1>0, <1>15, SleepIs DEF Moves, Local
  <2>2. At(p)' # "fork"
    BY <2>1 DEF At
  <2> QED
    BY <2>1, <2>2, PidMoves
<1>16. ASSUME NEW c \in CPUs, NEW p \in Procs \cap {cpu[c].sp}, SleepAwake(c, p) PROVE PidInv'
  <2>1. p \in Procs /\ UNCHANGED nextpid /\ thr'[p].pc = "s_relock" /\ \A q \in Procs \ {p} : thr'[q] = thr[q]
    BY <1>0, <1>16, SleepAwakeIs DEF Moves, Local
  <2>2. At(p)' # "fork"
    BY <2>1 DEF At
  <2> QED
    BY <2>1, <2>2, PidMoves
<1>17. ASSUME NEW c \in CPUs, NEW p \in Procs \cap {cpu[c].sp}, SleepRelock(c, p) PROVE PidInv'
  <2>1. p \in Procs /\ UNCHANGED nextpid /\ thr'[p].pc = "s_test" /\ \A q \in Procs \ {p} : thr'[q] = thr[q]
    BY <1>0, <1>17, SleepRelockIs DEF Moves, Local
  <2>2. At(p)' # "fork"
    BY <2>1 DEF At
  <2> QED
    BY <2>1, <2>2, PidMoves
<1>18. ASSUME NEW c \in CPUs, NEW p \in Procs \cap {cpu[c].sp}, sched(c, p) PROVE PidInv'
  <2>1. p \in Procs /\ Moves(p, Resume(thr[p].pc)) /\ thr[p].pc \in SchedPcs /\ UNCHANGED nextpid
    BY <1>18, SchedDoes
  <2>2. At(p)' # "fork" \/ At(p)' = At(p)
    BY <2>1, ResumeIs DEF Moves, At, SchedPcs
  <2> QED
    BY <2>1, <2>2, PidMoves DEF Moves
<1>19. ASSUME NEW c \in CPUs, NEW p \in Procs \cap {cpu[c].sp}, YieldBack(c, p) PROVE PidInv'
  <2>1. /\ p \in Procs /\ thr[p].pc = "y_back" /\ thr[p].ypc \in NoLockPcs /\ UNCHANGED nextpid
        /\ \/ Local(p, "exit", thr[p].np, thr[p].ticks0, "none")
           \/ Local(p, thr[p].ypc, thr[p].np, thr[p].ticks0, "none")
    BY <1>19, YieldBackDoes
  <2>2. At(p)' # "fork" \/ At(p)' = At(p)
    BY <2>1 DEF Local, At, NoLockPcs
  <2> QED
    BY <2>1, <2>2, PidMoves DEF Local
<1>20. ASSUME NEW c \in CPUs, SchedAcquire(c) PROVE PidInv'
  <2>1. UNCHANGED <<thr, nextpid>>
    BY <1>0, <1>20, SchedAcquireIs
  <2> QED
    BY <2>1, PidSame
<1>21. ASSUME NEW c \in CPUs, SchedSwitch(c) PROVE PidInv'
  <2>1. UNCHANGED <<thr, nextpid>>
    BY <1>0, <1>21, SchedSwitchDoes
  <2> QED
    BY <2>1, PidSame
<1>22. ASSUME NEW c \in CPUs, SchedBack(c) PROVE PidInv'
  <2>1. UNCHANGED <<thr, nextpid>>
    BY <1>0, <1>22, SchedBackDoes
  <2> QED
    BY <2>1, PidSame
<1>23. ASSUME NEW c \in CPUs, SchedRelease(c) PROVE PidInv'
  <2>1. UNCHANGED <<thr, nextpid>>
    BY <1>0, <1>23, SchedReleaseIs
  <2> QED
    BY <2>1, PidSame
<1>24. ASSUME NEW c \in CPUs, ClockTick(c) PROVE PidInv'
  <2>1. UNCHANGED <<thr, nextpid>>
    BY <1>0, <1>24, ClockTickIs
  <2> QED
    BY <2>1, PidSame
<1>25. ASSUME NEW c \in CPUs, ClockWakeup(c) PROVE PidInv'
  <2>1. UNCHANGED <<thr, nextpid>>
    BY <1>0, <1>25, ClockWakeupIs
  <2> QED
    BY <2>1, PidSame
<1>26. ASSUME NEW c \in CPUs, ClockRelease(c) PROVE PidInv'
  <2>1. UNCHANGED <<thr, nextpid>>
    BY <1>0, <1>26, ClockReleaseIs
  <2> QED
    BY <2>1, PidSame
<1>27. ASSUME NEW c \in CPUs, TrapTail(c) PROVE PidInv'
  <2>1. UNCHANGED nextpid
    BY <1>27, TrapTailDoes
  <2>2. CASE UNCHANGED thr
    BY <2>1, <2>2, PidSame
  <2>3. ASSUME NEW p \in Procs, thr[p].pc \in NoLockPcs,
               Moves(p, "exit") \/ Local(p, "y_sched", thr[p].np, thr[p].ticks0, thr[p].pc)
        PROVE  PidInv'
    <3>1. At(p)' # "fork" \/ At(p)' = At(p)
      BY <2>3 DEF Local, Moves, At, NoLockPcs
    <3>2. \A q \in Procs \ {p} : thr'[q] = thr[q]
      BY <2>3 DEF Local, Moves
    <3> QED
      BY <2>1, <3>1, <3>2, PidMoves
  <2> QED
    BY <1>27, <2>2, <2>3, TrapTailDoes
<1>28. CASE UNCHANGED vars
  BY <1>28, PidSame DEF vars
<1> QED
  BY <1>1, <1>2, <1>3, <1>4, <1>5, <1>6, <1>7, <1>8, <1>9, <1>10, <1>11, <1>12, <1>13, <1>14,
     <1>15, <1>16, <1>17, <1>18, <1>19, <1>20, <1>21, <1>22, <1>23, <1>24, <1>25, <1>26, <1>27, <1>28 DEF Next, Thread, Scheduler, Clock

\* Every variable keeps its type.
LEMMA TypeStep == IInv /\ [Next]_vars => TypeOK'
<1> SUFFICES ASSUME IInv, [Next]_vars PROVE TypeOK'
  OBVIOUS
<1>0. TypeOK
  BY DEF IInv
<1>1. ASSUME NEW c \in CPUs, NEW p \in Procs \cap {cpu[c].sp}, NEW call \in Calls, Syscall(c, p, call) PROVE TypeOK'
  BY <1>0, <1>1, SyscallIs, Slots DEF TypeOK
<1>2. ASSUME NEW c \in CPUs, NEW p \in Procs \cap {cpu[c].sp}, Sysret(c, p) PROVE TypeOK'
  BY <1>0, <1>2, SysretIs, Slots DEF TypeOK
<1>3. ASSUME NEW c \in CPUs, NEW p \in Procs \cap {cpu[c].sp}, allocproc(c, p) PROVE TypeOK'
  <2>1. p \in Procs /\ thr[p].pc = "fork"
    BY <1>0, <1>3, AllocprocIs
  <2>2. nextpid \in 1..(MaxPid + NPROC)
    BY <2>1, PidLeft DEF At
  <2>3. nextpid \in 0..(MaxPid + NPROC) /\ nextpid + 1 \in 1..(MaxPid + NPROC + 1)
    BY <2>2, ProcAssumption
  <2>4. CASE UNCHANGED <<ptable, nextpid>>
    BY <1>0, <1>3, <2>4, AllocprocIs DEF TypeOK
  <2>5. CASE \E np \in Procs : Claims(p, np)
    BY <1>0, <1>3, <2>3, <2>5, AllocprocIs DEF TypeOK, Claims
  <2> QED
    BY <1>0, <1>3, <2>4, <2>5, AllocprocIs
<1>4. ASSUME NEW c \in CPUs, NEW p \in Procs \cap {cpu[c].sp}, ForkKstack(c, p) PROVE TypeOK'
  BY ZenonT(60), <1>0, <1>4, ForkKstackDoes, Slots DEF TypeOK
<1>5. ASSUME NEW c \in CPUs, NEW p \in Procs \cap {cpu[c].sp}, ForkCopy(c, p) PROVE TypeOK'
  BY ZenonT(60), <1>0, <1>5, ForkCopyDoes, Slots DEF TypeOK
<1>6. ASSUME NEW c \in CPUs, NEW p \in Procs \cap {cpu[c].sp}, ForkRun(c, p) PROVE TypeOK'
  BY <1>0, <1>6, ForkRunDoes, Slots DEF TypeOK
<1>7. ASSUME NEW c \in CPUs, NEW p \in Procs \cap {cpu[c].sp}, forkret(c, p) PROVE TypeOK'
  BY <1>0, <1>7, ForkretIs, Slots DEF TypeOK
<1>8. ASSUME NEW c \in CPUs, NEW p \in Procs \cap {cpu[c].sp}, exit(c, p) PROVE TypeOK'
  <2>1. UNCHANGED <<cpu, tlock, ticks, nextpid>> /\ lock' \in {lock, c}
    BY <1>0, <1>8, ExitIs
  <2>2. ptable' \in [Procs -> ProcType] /\ thr' \in [Procs -> ThreadType] /\ panicked' \in BOOLEAN
    <3>1. CASE panicked' = TRUE /\ UNCHANGED <<ptable, thr>>
      BY <1>0, <3>1 DEF TypeOK
    <3>2. CASE Exits(p) /\ thr' \in [Procs -> ThreadType] /\ UNCHANGED panicked
      BY <1>0, <3>2 DEF TypeOK, Exits
    <3> QED
      BY <1>0, <1>8, <3>1, <3>2, ExitIs
  <2> QED
    BY <1>0, <2>1, <2>2 DEF TypeOK
<1>9. ASSUME NEW c \in CPUs, NEW p \in Procs \cap {cpu[c].sp}, WaitLock(c, p) PROVE TypeOK'
  BY <1>0, <1>9, WaitLockIs, Slots DEF TypeOK
<1>10. ASSUME NEW c \in CPUs, NEW p \in Procs \cap {cpu[c].sp}, WaitScan(c, p) PROVE TypeOK'
  BY <1>0, <1>10, WaitScanDoes, Slots DEF TypeOK
<1>11. ASSUME NEW c \in CPUs, NEW p \in Procs \cap {cpu[c].sp}, WaitAwake(c, p) PROVE TypeOK'
  BY <1>0, <1>11, WaitAwakeIs, Slots DEF TypeOK
<1>12. ASSUME NEW c \in CPUs, NEW p \in Procs \cap {cpu[c].sp}, NEW pid \in KillPids, kill(c, p, pid) PROVE TypeOK'
  BY <1>0, <1>12, KillIs, Slots DEF TypeOK
<1>13. ASSUME NEW c \in CPUs, NEW p \in Procs \cap {cpu[c].sp}, SleepStart(c, p) PROVE TypeOK'
  BY <1>0, <1>13, SleepStartIs, Slots DEF TypeOK
<1>14. ASSUME NEW c \in CPUs, NEW p \in Procs \cap {cpu[c].sp}, SleepTest(c, p) PROVE TypeOK'
  BY <1>0, <1>14, SleepTestIs, Slots DEF TypeOK
<1>15. ASSUME NEW c \in CPUs, NEW p \in Procs \cap {cpu[c].sp}, sleep(c, p) PROVE TypeOK'
  BY <1>0, <1>15, SleepIs, Slots DEF TypeOK
<1>16. ASSUME NEW c \in CPUs, NEW p \in Procs \cap {cpu[c].sp}, SleepAwake(c, p) PROVE TypeOK'
  BY <1>0, <1>16, SleepAwakeIs, Slots DEF TypeOK
<1>17. ASSUME NEW c \in CPUs, NEW p \in Procs \cap {cpu[c].sp}, SleepRelock(c, p) PROVE TypeOK'
  BY <1>0, <1>17, SleepRelockIs, Slots DEF TypeOK
<1>18. ASSUME NEW c \in CPUs, NEW p \in Procs \cap {cpu[c].sp}, sched(c, p) PROVE TypeOK'
  BY <1>0, <1>18, SchedDoes, Slots DEF TypeOK
<1>19. ASSUME NEW c \in CPUs, NEW p \in Procs \cap {cpu[c].sp}, YieldBack(c, p) PROVE TypeOK'
  BY <1>0, <1>19, YieldBackDoes, Slots DEF TypeOK
<1>20. ASSUME NEW c \in CPUs, SchedAcquire(c) PROVE TypeOK'
  BY <1>0, <1>20, SchedAcquireIs, Slots DEF TypeOK
<1>21. ASSUME NEW c \in CPUs, SchedSwitch(c) PROVE TypeOK'
  BY <1>0, <1>21, SchedSwitchDoes, Slots DEF TypeOK
<1>22. ASSUME NEW c \in CPUs, SchedBack(c) PROVE TypeOK'
  BY <1>0, <1>22, SchedBackDoes, Slots DEF TypeOK
<1>23. ASSUME NEW c \in CPUs, SchedRelease(c) PROVE TypeOK'
  BY <1>0, <1>23, SchedReleaseIs, Slots DEF TypeOK
<1>24. ASSUME NEW c \in CPUs, ClockTick(c) PROVE TypeOK'
  BY <1>0, <1>24, ClockTickIs, Slots DEF TypeOK
<1>25. ASSUME NEW c \in CPUs, ClockWakeup(c) PROVE TypeOK'
  BY <1>0, <1>25, ClockWakeupIs, Slots DEF TypeOK
<1>26. ASSUME NEW c \in CPUs, ClockRelease(c) PROVE TypeOK'
  BY <1>0, <1>26, ClockReleaseIs, Slots DEF TypeOK
<1>27. ASSUME NEW c \in CPUs, TrapTail(c) PROVE TypeOK'
  BY <1>0, <1>27, TrapTailDoes, Slots DEF TypeOK
<1>28. CASE UNCHANGED vars
  BY <1>0, <1>28 DEF vars, TypeOK
<1> QED
  BY <1>1, <1>2, <1>3, <1>4, <1>5, <1>6, <1>7, <1>8, <1>9, <1>10, <1>11, <1>12, <1>13, <1>14,
     <1>15, <1>16, <1>17, <1>18, <1>19, <1>20, <1>21, <1>22, <1>23, <1>24, <1>25, <1>26, <1>27, <1>28 DEF Next, Thread, Scheduler, Clock

-----------------------------------------------------------------------------
\* userinit's state satisfies the invariant.
LEMMA InitInv == Init => IInv
<1> SUFFICES ASSUME Init PROVE IInv
  OBVIOUS
<1>1. /\ \A p \in Procs \ {initproc} : ptable[p] = NoProc /\ thr[p] = NoThread
      /\ ptable[initproc] = [NoProc EXCEPT !.state = "RUNNABLE", !.pid = 1, !.kstack = TRUE, !.pgdir = TRUE]
      /\ thr[initproc] = [NoThread EXCEPT !.pc = "forkret"]
  BY Slots DEF Init
<1>2. /\ ptable[initproc].state = "RUNNABLE" /\ ptable[initproc].pid = 1 /\ ptable[initproc].parent = Nil
      /\ ptable[initproc].killed = FALSE /\ ptable[initproc].kstack /\ ptable[initproc].pgdir
      /\ ptable[initproc].chan = Nil
      /\ thr[initproc].pc = "forkret" /\ thr[initproc].np = Nil /\ thr[initproc].ypc = "none"
      /\ thr[initproc].ticks0 = 0
  BY <1>1 DEF NoProc, NoThread
<1>3. \A p \in Procs \ {initproc} :
        /\ ptable[p].state = "UNUSED" /\ ptable[p].parent = Nil /\ ptable[p].chan = Nil
        /\ thr[p].pc = "none" /\ thr[p].np = Nil /\ thr[p].ypc = "none"
  BY <1>1 DEF NoProc, NoThread
<1>4. \A c \in CPUs : /\ cpu[c].proc = Nil /\ cpu[c].sp = Nil /\ cpu[c].cr3 = Nil /\ cpu[c].spc = "idle"
                      /\ cpu[c].ipc = "none"
  BY DEF Init
<1>5. lock = NoCpu /\ tlock = NoCpu /\ panicked = FALSE
  BY DEF Init
<1>6. TypeOK
  <2>1. NoProc \in ProcType /\ [NoProc EXCEPT !.state = "RUNNABLE", !.pid = 1, !.kstack = TRUE, !.pgdir = TRUE] \in ProcType
    <3>1. 0 \in 0..(MaxPid + NPROC) /\ 1 \in 0..(MaxPid + NPROC)
      BY ProcAssumption
    <3>2. NoProc \in ProcType
      BY <3>1, StatesAre DEF NoProc, ProcType
    <3>3. ASSUME NEW r \in ProcType PROVE [r EXCEPT !.state = "RUNNABLE", !.pid = 1, !.kstack = TRUE, !.pgdir = TRUE] \in ProcType
      BY <3>1, StatesAre DEF ProcType
    <3> QED
      BY <3>2, <3>3
  <2>2. NoThread \in ThreadType /\ [NoThread EXCEPT !.pc = "forkret"] \in ThreadType
    <3>1. 0 \in 0..(TickMod - 1)
      BY ProcAssumption
    <3> QED
      BY <3>1, Places DEF NoThread, ThreadType
  <2>3. [proc |-> Nil, sp |-> Nil, cr3 |-> Nil, spc |-> "idle", i |-> 1, ipc |-> "none"] \in CpuType
    <3>1. 1 \in 1..(NPROC + 1)
      BY ProcAssumption
    <3> QED
      BY <3>1 DEF CpuType
  <2>4. ptable \in [Procs -> ProcType] /\ thr \in [Procs -> ThreadType] /\ cpu \in [CPUs -> CpuType]
    BY <2>1, <2>2, <2>3 DEF Init
  <2>5. ticks \in 0..(TickMod - 1) /\ nextpid \in 1..(MaxPid + NPROC + 1)
    BY ProcAssumption DEF Init
  <2> QED
    BY <1>5, <2>4, <2>5 DEF TypeOK
<1>7. CpuInv /\ LockInv /\ TickInv /\ OneCpuPerStack
  BY <1>4, <1>5, Slots DEF CpuInv, LockInv, InSection, TickInv, OneCpuPerStack
<1>8. ThreadInv
  <2>1. \A p \in Procs : ~OnCpu(p)
    BY <1>4, Slots DEF OnCpu
  <2> QED
    BY <1>2, <1>3, <2>1 DEF ThreadInv, OffOk
<1>9. ForkInv
  <2>1. \A p \in Procs : thr[p].np = Nil /\ At(p) \notin ForkPcs
    BY <1>2, <1>3 DEF At, ForkPcs
  <2> QED
    BY <2>1 DEF ForkInv, ForkOk
<1>10. MemoryInv /\ FamilyInv
  BY <1>2, <1>3, <1>4, Slots DEF MemoryInv, FamilyInv, Alive
<1>11. WaitInv /\ SleepInv
  BY <1>2, <1>3 DEF WaitInv, SleepInv
<1>12. PanicInv
  BY <1>2, <1>5 DEF PanicInv, At
<1>13. PidInv
  <2>1. nextpid = 2 /\ Cardinality(Forking) = 0
    <3>1. Forking = {}
      BY <1>2, <1>3 DEF Forking, At
    <3> QED
      BY <3>1, FS_EmptySet DEF Init
  <2> QED
    BY <2>1, ProcAssumption DEF PidInv
<1> QED
  BY <1>6, <1>7, <1>8, <1>9, <1>10, <1>11, <1>12, <1>13 DEF IInv

\* The invariant is inductive.
LEMMA Inductive == IInv /\ [Next]_vars => IInv'
<1>1. IInv /\ [Next]_vars => TypeOK' /\ CpuInv' /\ LockInv' /\ TickInv' /\ OneCpuPerStack'
  BY TypeStep, CpuStep, LockStep, TickStep, StackStep
<1>2. IInv /\ [Next]_vars => ThreadInv' /\ ForkInv' /\ MemoryInv' /\ FamilyInv'
  BY ThreadStep, ForkStep, MemoryStep, FamilyStep
<1>3. IInv /\ [Next]_vars => WaitInv' /\ SleepInv' /\ PanicInv' /\ PidInv'
  BY WaitStep, SleepStep, PanicStep, PidStep
<1> QED
  BY <1>1, <1>2, <1>3 DEF IInv

\* The invariant holds in every reachable state.
LEMMA Invariant == Spec => []IInv
BY InitInv, Inductive, PTL DEF Spec

(***************************************************************************)
(* Every variable of Proc keeps its type; no pid exceeds MaxPid + NPROC,   *)
(* although MaxPid is tested before the lock that hands out pids is taken. *)
(***************************************************************************)
THEOREM TypeCorrect == Spec => []TypeOK
<1>1. IInv => TypeOK
  BY DEF IInv
<1> QED
  BY <1>1, Invariant, PTL

(***************************************************************************)
(* No two CPUs are on the same kernel stack, on any number of CPUs: a      *)
(* process that is RUNNABLE and has not left its stack yet is protected by *)
(* ptable.lock, which its CPU carries into the scheduler (proc.c:335-352). *)
(***************************************************************************)
THEOREM OneCpuPerStackHolds == Spec => []OneCpuPerStack
<1>1. IInv => OneCpuPerStack
  BY DEF IInv
<1> QED
  BY <1>1, Invariant, PTL

(***************************************************************************)
(* The stack and the page table a CPU uses are not freed under it: wait    *)
(* frees those of a zombie only after the CPU that ran it has executed     *)
(* switchkvm, because that CPU has ptable.lock until then (proc.c:290).    *)
(***************************************************************************)
THEOREM StackAndPageTableLiveHolds == Spec => []StackAndPageTableLive
<1>1. IInv => StackAndPageTableLive
  <2> SUFFICES ASSUME IInv, NEW c \in CPUs
               PROVE  /\ cpu[c].sp # Nil => ptable[cpu[c].sp].kstack
                      /\ cpu[c].cr3 # Nil => ptable[cpu[c].cr3].pgdir
    BY DEF StackAndPageTableLive
  <2>1. cpu[c].cr3 = cpu[c].proc /\ cpu[c].sp \in {Nil, cpu[c].proc} /\ cpu[c].proc \in Procs \cup {Nil}
    BY CpuIs DEF IInv, CpuInv
  <2>2. cpu[c].proc # Nil => ptable[cpu[c].proc].kstack /\ ptable[cpu[c].proc].pgdir
    BY <2>1 DEF IInv, MemoryInv
  <2> QED
    BY <2>1, <2>2
<1> QED
  BY <1>1, Invariant, PTL

(***************************************************************************)
(* Nobody panics in sched or exit, whatever the CPUs interleave, as long   *)
(* as no program kills pid 1: kill does not spare init, and a killed init  *)
(* exits, which is the panic "init exiting" (proc.c:235, 486).             *)
(***************************************************************************)
THEOREM NoPanicHolds == 1 \notin KillPids => (Spec => []NoPanic)
<1> SUFFICES ASSUME 1 \notin KillPids PROVE Spec => []NoPanic
  OBVIOUS
<1>1. IInv => NoPanic
  BY DEF IInv, PanicInv, NoPanic
<1> QED
  BY <1>1, Invariant, PTL

(***************************************************************************)
(* A process asleep in wait has a child, no zombie among its children and  *)
(* is not killed: no exit and no kill slips in between its scan and its    *)
(* sleep (proc.c:253, 260, 304, 310).                                      *)
(***************************************************************************)
THEOREM WaiterHasReasonHolds == Spec => []WaiterHasReason
<1>1. IInv => WaiterHasReason
  BY DEF IInv, WaitInv, WaiterHasReason
<1> QED
  BY <1>1, Invariant, PTL

(***************************************************************************)
(* Every process but init has a living parent: exit hands the children to  *)
(* init before it is a zombie, and init does not exit (proc.c:255-262).    *)
(***************************************************************************)
THEOREM ParentCanReapHolds == Spec => []ParentCanReap
<1>1. IInv => ParentCanReap
  BY DEF IInv, FamilyInv, Alive, ParentCanReap
<1> QED
  BY <1>1, Invariant, PTL

(***************************************************************************)
(* No tick is missed: a process asleep on &ticks is not due when tickslock *)
(* is free, although ticks wraps around and sleep has let go of tickslock  *)
(* before it leaves the CPU (proc.c:430-438, trap.c:54).                   *)
(***************************************************************************)
THEOREM SleeperNotDueHolds == Spec => []SleeperNotDue
<1>1. IInv => SleeperNotDue
  <2> SUFFICES ASSUME IInv, tlock = NoCpu, NEW p \in Procs, ptable[p].state = "SLEEPING", ptable[p].chan = Ticks
               PROVE  Elapsed(p) < SleepTicks
    BY DEF SleeperNotDue
  <2>1. cpu[TickCpu].ipc # "wakeup"
    BY Slots DEF IInv, TickInv
  <2> QED
    BY <2>1 DEF IInv, SleepInv
<1> QED
  BY <1>1, Invariant, PTL

=============================================================================
