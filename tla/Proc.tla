--------------------------------- MODULE Proc ---------------------------------
(***************************************************************************)
(* Processes of xv6 (xv6_dregmod/src/proc.c, with the parts of trap.c and  *)
(* sysproc.c that drive it): the process table and its lock, the per-CPU   *)
(* scheduler, fork, exit, wait, kill, sleep, wakeup and yield, and         *)
(* sys_sleep with the clock interrupt as the user of sleep and wakeup.     *)
(*                                                                         *)
(* A CPU executes either its scheduler or the kernel thread of a process,  *)
(* on that process's kernel stack.  ptable.lock is held by a CPU, not by a *)
(* thread, and travels across swtch.  A section that holds ptable.lock     *)
(* from its acquire to its release without a swtch is one step.            *)
(***************************************************************************)
EXTENDS Integers, FiniteSets, FiniteSetsExt

CONSTANTS
  CPUs, NoCpu,   \* the processors; "no processor"
  TickCpu,       \* the CPU whose cpuid() is 0: it counts the ticks
  NPROC,         \* slots of the process table
  Calls,         \* the system calls the user programs make
  KillPids,      \* the arguments they give to kill
  SleepTicks,    \* the argument they give to sleep
  TickMod,       \* ticks is an unsigned counter modulo TickMod
  MaxPid         \* bound: no fork is called once nextpid exceeds MaxPid

ASSUME ProcAssumption ==
  /\ NoCpu \notin CPUs
  /\ TickCpu \in CPUs
  /\ NPROC \in Nat \ {0}
  /\ Calls \subseteq {"fork", "exit", "wait", "kill", "sleep"}
  /\ KillPids \subseteq Nat
  /\ TickMod \in Nat \ {0}
  /\ SleepTicks \in 0..(TickMod - 1)
  /\ MaxPid \in Nat \ {0}

Procs    == 1..NPROC
initproc == 1             \* userinit's allocproc finds the first slot
Nil      == 0             \* a null proc pointer; also the scheduler's thread
Ticks    == NPROC + 1     \* the channel &ticks; the other channels are procs

VARIABLES
  ptable,   \* ptable[p]: state, pid, parent, killed, chan; kstack, pgdir: allocated?
  cpu,      \* cpu[c]: proc; sp: whose stack it runs on; cr3: whose page table;
            \*   spc, i: the scheduler's place and loop pointer; ipc: clock handler
  thr,      \* thr[p]: pc of the kernel thread, and its locals np, ticks0, ypc
  lock,     \* ptable.lock: the CPU that holds it
  tlock,    \* tickslock: the CPU that holds it
  ticks,    \* the clock
  nextpid,
  panicked  \* some CPU called panic

vars == <<ptable, cpu, thr, lock, tlock, ticks, nextpid, panicked>>

NoProc == [state |-> "UNUSED", pid |-> 0, parent |-> Nil, killed |-> FALSE,
           chan |-> Nil, kstack |-> FALSE, pgdir |-> FALSE]
NoThread == [pc |-> "none", np |-> Nil, ticks0 |-> 0, ypc |-> "none"]

\* The state userinit leaves behind, every CPU about to enter scheduler().
Init ==
  /\ ptable = [p \in Procs |-> IF p = initproc
       THEN [NoProc EXCEPT !.state = "RUNNABLE", !.pid = 1, !.kstack = TRUE, !.pgdir = TRUE]
       ELSE NoProc]
  /\ cpu = [c \in CPUs |-> [proc |-> Nil, sp |-> Nil, cr3 |-> Nil,
                            spc |-> "idle", i |-> 1, ipc |-> "none"]]
  /\ thr = [p \in Procs |-> IF p = initproc THEN [NoThread EXCEPT !.pc = "forkret"] ELSE NoThread]
  /\ lock = NoCpu
  /\ tlock = NoCpu
  /\ ticks = 0
  /\ nextpid = 2
  /\ panicked = FALSE

-----------------------------------------------------------------------------
\* Thread p is executing on CPU c, outside an interrupt handler.
On(c, p) == cpu[c].sp = p /\ cpu[c].ipc = "none" /\ ~panicked

Goto(p, l) == thr' = [thr EXCEPT ![p].pc = l]

\* Both locks are free of other holders: acquire(&ptable.lock) can succeed.
acquire_ptable == lock = NoCpu

(***************************************************************************)
(* wakeup1(chan) on a process table t.                                     *)
(***************************************************************************)
wakeup1(t, ch) ==
  [p \in Procs |-> IF t[p].state = "SLEEPING" /\ t[p].chan = ch
                     THEN [t[p] EXCEPT !.state = "RUNNABLE"] ELSE t[p]]

(***************************************************************************)
(* System call entry and exit in trap(): a killed process exits instead.   *)
(* init forks and waits (init.c); that it exits, and so panics the kernel, *)
(* when its own fork fails is left out: the model's init goes on.          *)
(***************************************************************************)
Program(p) == IF p = initproc THEN Calls \cap {"fork", "wait"} ELSE Calls

Syscall(c, p, call) ==
  /\ On(c, p) /\ thr[p].pc = "user"
  /\ call \in Program(p)
  /\ call = "fork" => nextpid <= MaxPid
  /\ Goto(p, IF ptable[p].killed THEN "exit" ELSE call)
  /\ UNCHANGED <<ptable, cpu, lock, tlock, ticks, nextpid, panicked>>

Sysret(c, p) ==
  /\ On(c, p) /\ thr[p].pc = "ret"
  /\ Goto(p, IF ptable[p].killed THEN "exit" ELSE "user")
  /\ UNCHANGED <<ptable, cpu, lock, tlock, ticks, nextpid, panicked>>

(***************************************************************************)
(* fork.  allocproc claims the first UNUSED slot under the lock; the       *)
(* kernel stack, the page table and the parent are filled in without it,   *)
(* and so is the slot given back when memory runs out: pid and killed stay *)
(* as they are.                                                            *)
(***************************************************************************)
Unused == {p \in Procs : ptable[p].state = "UNUSED"}

allocproc(c, p) ==
  /\ On(c, p) /\ thr[p].pc = "fork"
  /\ acquire_ptable
  /\ IF Unused = {}
       THEN Goto(p, "ret") /\ UNCHANGED <<ptable, nextpid>>
       ELSE LET np == Min(Unused) IN
            /\ ptable' = [ptable EXCEPT ![np].state = "EMBRYO", ![np].pid = nextpid]
            /\ nextpid' = nextpid + 1
            /\ thr' = [thr EXCEPT ![p].np = np, ![p].pc = "f_kstack"]
  /\ UNCHANGED <<cpu, lock, tlock, ticks, panicked>>

\* kalloc or copyuvm fails: fork undoes what it did and returns -1.
ForkFail(p) ==
  LET np == thr[p].np IN
  /\ ptable' = [ptable EXCEPT ![np].state = "UNUSED", ![np].kstack = FALSE, ![np].pgdir = FALSE]
  /\ thr' = [thr EXCEPT ![p].np = Nil, ![p].pc = "ret"]

ForkKstack(c, p) ==
  /\ On(c, p) /\ thr[p].pc = "f_kstack"
  /\ \/ /\ ptable' = [ptable EXCEPT ![thr[p].np].kstack = TRUE]
        /\ Goto(p, "f_copy")
     \/ ForkFail(p)
  /\ UNCHANGED <<cpu, lock, tlock, ticks, nextpid, panicked>>

ForkCopy(c, p) ==
  /\ On(c, p) /\ thr[p].pc = "f_copy"
  /\ \/ /\ ptable' = [ptable EXCEPT ![thr[p].np].pgdir = TRUE, ![thr[p].np].parent = p]
        /\ Goto(p, "f_run")
     \/ ForkFail(p)
  /\ UNCHANGED <<cpu, lock, tlock, ticks, nextpid, panicked>>

ForkRun(c, p) ==
  /\ On(c, p) /\ thr[p].pc = "f_run"
  /\ acquire_ptable
  /\ ptable' = [ptable EXCEPT ![thr[p].np].state = "RUNNABLE"]
  /\ thr' = [thr EXCEPT ![thr[p].np] = [NoThread EXCEPT !.pc = "forkret"],
                        ![p].np = Nil, ![p].pc = "ret"]
  /\ UNCHANGED <<cpu, lock, tlock, ticks, nextpid, panicked>>

forkret(c, p) ==
  /\ On(c, p) /\ thr[p].pc = "forkret"
  /\ lock' = NoCpu
  /\ Goto(p, "ret")
  /\ UNCHANGED <<ptable, cpu, tlock, ticks, nextpid, panicked>>

(***************************************************************************)
(* exit, up to its sched(): ptable.lock stays held.                        *)
(***************************************************************************)

Abandon(t, p) ==
  [q \in Procs |-> IF t[q].parent = p THEN [t[q] EXCEPT !.parent = initproc] ELSE t[q]]

ZombieChild(t, p) == \E q \in Procs : t[q].parent = p /\ t[q].state = "ZOMBIE"

WakeInit(t1, t2, p) == IF ZombieChild(t1, p) THEN wakeup1(t2, initproc) ELSE t2

ExitTable_NoWakeParent(p) ==  \* mutant: wakeup1(curproc->parent) is missing
  LET t2 == Abandon(ptable, p)
  IN [WakeInit(ptable, t2, p) EXCEPT ![p].state = "ZOMBIE"]

ExitTable_NoAbandon(p) ==  \* mutant: the children keep their dead parent
  [wakeup1(ptable, ptable[p].parent) EXCEPT ![p].state = "ZOMBIE"]

ExitTable_StillRunning(p) ==  \* mutant: the state change is missing
  LET t1 == wakeup1(ptable, ptable[p].parent)
  IN WakeInit(t1, Abandon(t1, p), p)

ExitTable(p) ==
  LET t1 == wakeup1(ptable, ptable[p].parent)
  IN [WakeInit(t1, Abandon(t1, p), p) EXCEPT ![p].state = "ZOMBIE"]

\* Closing the files and leaving the current directory are in Pipe and Inode;
\* here they are time spent at "exit".  "dead": the sched() of exit has returned.
exit(c, p) ==
  /\ On(c, p) /\ thr[p].pc \in {"exit", "dead"}
  /\ IF p = initproc \/ thr[p].pc = "dead"
       THEN panicked' = TRUE /\ UNCHANGED <<ptable, thr, lock>>
       ELSE /\ acquire_ptable
            /\ lock' = c
            /\ ptable' = ExitTable(p)
            /\ Goto(p, "e_sched")
            /\ UNCHANGED panicked
  /\ UNCHANGED <<cpu, tlock, ticks, nextpid>>

(***************************************************************************)
(* wait.  The lock is held from the scan to the sched() in sleep().        *)
(***************************************************************************)
WaitLock(c, p) ==
  /\ On(c, p) /\ thr[p].pc = "wait"
  /\ acquire_ptable
  /\ lock' = c
  /\ Goto(p, "w_scan")
  /\ UNCHANGED <<ptable, cpu, tlock, ticks, nextpid, panicked>>

Children(p) == {q \in Procs : ptable[q].parent = p}
Zombies(p)  == {q \in Children(p) : ptable[q].state = "ZOMBIE"}

\* The child's stack is freed, and its kernel thread ends with it.
Reap(p) ==
  LET q == Min(Zombies(p)) IN
  /\ ptable' = [ptable EXCEPT ![q].kstack = FALSE, ![q].pgdir = FALSE, ![q].pid = 0,
                  ![q].parent = Nil, ![q].killed = FALSE, ![q].state = "UNUSED"]
  /\ thr' = [thr EXCEPT ![q] = NoThread, ![p].pc = "ret"]

WaitScan(c, p) ==
  /\ On(c, p) /\ thr[p].pc = "w_scan"
  /\ \/ /\ Zombies(p) # {}
        /\ Reap(p)
        /\ lock' = NoCpu
     \/ /\ Zombies(p) = {}
        /\ Children(p) = {} \/ ptable[p].killed
        /\ lock' = NoCpu
        /\ Goto(p, "ret")
        /\ UNCHANGED ptable
     \/ /\ Zombies(p) = {} /\ Children(p) # {} /\ ~ptable[p].killed
        /\ ptable' = [ptable EXCEPT ![p].chan = p, ![p].state = "SLEEPING"]
        /\ Goto(p, "w_sched")
        /\ UNCHANGED lock
  /\ UNCHANGED <<cpu, tlock, ticks, nextpid, panicked>>

WaitAwake(c, p) ==
  /\ On(c, p) /\ thr[p].pc = "w_slept"
  /\ ptable' = [ptable EXCEPT ![p].chan = Nil]
  /\ Goto(p, "w_scan")
  /\ UNCHANGED <<cpu, lock, tlock, ticks, nextpid, panicked>>

(***************************************************************************)
(* kill(pid): the first slot with that pid, whatever its state.            *)
(***************************************************************************)
kill_NoWakeup(c, p, pid) ==  \* mutant: a sleeping process is left asleep
  /\ On(c, p) /\ thr[p].pc = "kill"
  /\ acquire_ptable
  /\ LET S == {q \in Procs : ptable[q].pid = pid} IN
     ptable' = IF S = {} THEN ptable ELSE [ptable EXCEPT ![Min(S)].killed = TRUE]
  /\ Goto(p, "ret")
  /\ UNCHANGED <<cpu, lock, tlock, ticks, nextpid, panicked>>

kill(c, p, pid) ==
  /\ On(c, p) /\ thr[p].pc = "kill"
  /\ acquire_ptable
  /\ LET S == {q \in Procs : ptable[q].pid = pid} IN
     ptable' = IF S = {} THEN ptable
               ELSE [ptable EXCEPT ![Min(S)].killed = TRUE,
                                   ![Min(S)].state = IF @ = "SLEEPING" THEN "RUNNABLE" ELSE @]
  /\ Goto(p, "ret")
  /\ UNCHANGED <<cpu, lock, tlock, ticks, nextpid, panicked>>

(***************************************************************************)
(* sys_sleep: the loop around sleep(&ticks, &tickslock).  ptable.lock is   *)
(* taken before tickslock is let go.                                       *)
(***************************************************************************)
Elapsed(p) == (ticks - thr[p].ticks0) % TickMod

SleepStart(c, p) ==
  /\ On(c, p) /\ thr[p].pc = "sleep"
  /\ tlock = NoCpu
  /\ tlock' = c
  /\ thr' = [thr EXCEPT ![p].ticks0 = ticks, ![p].pc = "s_test"]
  /\ UNCHANGED <<ptable, cpu, lock, ticks, nextpid, panicked>>

SleepTest_LetsGo(c, p) ==  \* mutant: tickslock is released before ptable.lock is taken
  /\ On(c, p) /\ thr[p].pc = "s_test"
  /\ tlock' = NoCpu
  /\ IF Elapsed(p) < SleepTicks /\ ~ptable[p].killed
       THEN Goto(p, "s_sleep")
       ELSE thr' = [thr EXCEPT ![p].pc = "ret", ![p].ticks0 = 0]
  /\ UNCHANGED <<ptable, cpu, lock, ticks, nextpid, panicked>>

SleepTest(c, p) ==
  /\ On(c, p) /\ thr[p].pc = "s_test"
  /\ IF Elapsed(p) < SleepTicks /\ ~ptable[p].killed
       THEN Goto(p, "s_sleep") /\ UNCHANGED tlock
       ELSE tlock' = NoCpu /\ thr' = [thr EXCEPT ![p].pc = "ret", ![p].ticks0 = 0]
  /\ UNCHANGED <<ptable, cpu, lock, ticks, nextpid, panicked>>

sleep(c, p) ==
  /\ On(c, p) /\ thr[p].pc = "s_sleep"
  /\ acquire_ptable
  /\ lock' = c
  /\ tlock' = NoCpu
  /\ ptable' = [ptable EXCEPT ![p].chan = Ticks, ![p].state = "SLEEPING"]
  /\ Goto(p, "s_sched")
  /\ UNCHANGED <<cpu, ticks, nextpid, panicked>>

SleepAwake(c, p) ==
  /\ On(c, p) /\ thr[p].pc = "s_slept"
  /\ ptable' = [ptable EXCEPT ![p].chan = Nil]
  /\ lock' = NoCpu
  /\ Goto(p, "s_relock")
  /\ UNCHANGED <<cpu, tlock, ticks, nextpid, panicked>>

SleepRelock(c, p) ==
  /\ On(c, p) /\ thr[p].pc = "s_relock"
  /\ tlock = NoCpu
  /\ tlock' = c
  /\ Goto(p, "s_test")
  /\ UNCHANGED <<ptable, cpu, lock, ticks, nextpid, panicked>>

(***************************************************************************)
(* A CPU has interrupts on where the code it executes holds no lock.       *)
(***************************************************************************)
NoLockPcs == {"user", "ret", "fork", "f_kstack", "f_copy", "f_run", "exit",
              "wait", "kill", "sleep", "s_relock"}

InterruptsOn(c) ==
  /\ cpu[c].ipc = "none" /\ ~panicked
  /\ IF cpu[c].sp = Nil THEN cpu[c].spc = "idle" ELSE thr[cpu[c].sp].pc \in NoLockPcs

(***************************************************************************)
(* sched: its checks, and swtch to this CPU's scheduler.  The intena that  *)
(* sched keeps for the thread across swtch is in the step it resumes at:   *)
(* when the thread lets go of the lock there, interrupts are on again.     *)
(***************************************************************************)
SchedPcs == {"e_sched", "w_sched", "s_sched", "y_sched"}

Resume(l) == CASE l = "e_sched" -> "dead"    [] l = "w_sched" -> "w_slept"
               [] l = "s_sched" -> "s_slept" [] l = "y_sched" -> "y_back"

sched(c, p) ==
  /\ On(c, p) /\ thr[p].pc \in SchedPcs
  /\ IF lock # c \/ tlock = c \/ ptable[p].state = "RUNNING" \/ InterruptsOn(c)
       THEN panicked' = TRUE /\ UNCHANGED <<cpu, thr>>
       ELSE /\ cpu' = [cpu EXCEPT ![c].sp = Nil]
            /\ Goto(p, Resume(thr[p].pc))
            /\ UNCHANGED panicked
  /\ UNCHANGED <<ptable, lock, tlock, ticks, nextpid>>

(***************************************************************************)
(* scheduler(): c->proc, switchuvm and the state change come before swtch, *)
(* switchkvm after it, all under ptable.lock.                              *)
(***************************************************************************)
SchedAcquire(c) ==
  /\ On(c, Nil) /\ cpu[c].spc = "idle"
  /\ acquire_ptable
  /\ lock' = c
  /\ cpu' = [cpu EXCEPT ![c].spc = "scan", ![c].i = 1]
  /\ UNCHANGED <<ptable, thr, tlock, ticks, nextpid, panicked>>

Runnable(c) == {p \in Procs : p >= cpu[c].i /\ ptable[p].state = "RUNNABLE"}

SchedSwitch_KeepsRunnable(c) ==  \* mutant: p->state = RUNNING is missing
  /\ On(c, Nil) /\ cpu[c].spc = "scan"
  /\ Runnable(c) # {}
  /\ LET p == Min(Runnable(c)) IN
     cpu' = [cpu EXCEPT ![c].proc = p, ![c].cr3 = p, ![c].sp = p,
                        ![c].i = p, ![c].spc = "swtch"]
  /\ UNCHANGED <<ptable, thr, lock, tlock, ticks, nextpid, panicked>>

SchedSwitch(c) ==
  /\ On(c, Nil) /\ cpu[c].spc = "scan"
  /\ Runnable(c) # {}
  /\ LET p == Min(Runnable(c)) IN
     /\ cpu' = [cpu EXCEPT ![c].proc = p, ![c].cr3 = p, ![c].sp = p,
                           ![c].i = p, ![c].spc = "swtch"]
     /\ ptable' = [ptable EXCEPT ![p].state = "RUNNING"]
  /\ UNCHANGED <<thr, lock, tlock, ticks, nextpid, panicked>>

SchedBack_NoSwitchkvm(c) ==  \* mutant: switchkvm() is missing
  /\ On(c, Nil) /\ cpu[c].spc = "swtch"
  /\ cpu' = [cpu EXCEPT ![c].proc = Nil, ![c].i = @ + 1, ![c].spc = "scan"]
  /\ UNCHANGED <<ptable, thr, lock, tlock, ticks, nextpid, panicked>>

SchedBack_FromTop(c) ==  \* mutant: the scan starts over after every switch
  /\ On(c, Nil) /\ cpu[c].spc = "swtch"
  /\ cpu' = [cpu EXCEPT ![c].proc = Nil, ![c].cr3 = Nil, ![c].i = 1, ![c].spc = "scan"]
  /\ UNCHANGED <<ptable, thr, lock, tlock, ticks, nextpid, panicked>>

SchedBack(c) ==
  /\ On(c, Nil) /\ cpu[c].spc = "swtch"
  /\ cpu' = [cpu EXCEPT ![c].proc = Nil, ![c].cr3 = Nil, ![c].i = @ + 1, ![c].spc = "scan"]
  /\ UNCHANGED <<ptable, thr, lock, tlock, ticks, nextpid, panicked>>

SchedRelease(c) ==
  /\ On(c, Nil) /\ cpu[c].spc = "scan"
  /\ Runnable(c) = {}
  /\ lock' = NoCpu
  /\ cpu' = [cpu EXCEPT ![c].spc = "idle", ![c].i = 1]
  /\ UNCHANGED <<ptable, thr, tlock, ticks, nextpid, panicked>>

(***************************************************************************)
(* The clock interrupt, on any CPU that has interrupts on: it holds no     *)
(* lock.  Only TickCpu counts; every CPU then makes its process yield.     *)
(***************************************************************************)
ClockTick(c) ==
  /\ InterruptsOn(c) /\ c = TickCpu
  /\ tlock = NoCpu
  /\ tlock' = c
  /\ ticks' = (ticks + 1) % TickMod
  /\ cpu' = [cpu EXCEPT ![c].ipc = "wakeup"]
  /\ UNCHANGED <<ptable, thr, lock, nextpid, panicked>>

ClockWakeup(c) ==
  /\ cpu[c].ipc = "wakeup" /\ ~panicked
  /\ acquire_ptable
  /\ ptable' = wakeup1(ptable, Ticks)
  /\ cpu' = [cpu EXCEPT ![c].ipc = "release"]
  /\ UNCHANGED <<thr, lock, tlock, ticks, nextpid, panicked>>

ClockRelease(c) ==
  /\ cpu[c].ipc = "release" /\ ~panicked
  /\ tlock' = NoCpu
  /\ cpu' = [cpu EXCEPT ![c].ipc = "tail"]
  /\ UNCHANGED <<ptable, thr, lock, ticks, nextpid, panicked>>

\* The end of trap(): a killed process interrupted in user space exits, any
\* other gives up the CPU in yield(); the scheduler just returns.
TrapTail(c) ==
  LET p == cpu[c].sp IN
  /\ cpu[c].ipc = "tail" \/ (InterruptsOn(c) /\ c # TickCpu)
  /\ ~panicked
  /\ \/ /\ p # Nil /\ ptable[p].killed /\ thr[p].pc = "user"
        /\ Goto(p, "exit")
        /\ UNCHANGED <<ptable, lock>>
     \/ /\ p # Nil /\ ~(ptable[p].killed /\ thr[p].pc = "user")
        /\ acquire_ptable
        /\ lock' = c
        /\ ptable' = [ptable EXCEPT ![p].state = "RUNNABLE"]
        /\ thr' = [thr EXCEPT ![p].ypc = thr[p].pc, ![p].pc = "y_sched"]
     \/ /\ p = Nil
        /\ UNCHANGED <<ptable, thr, lock>>
  /\ cpu' = [cpu EXCEPT ![c].ipc = "none"]
  /\ UNCHANGED <<tlock, ticks, nextpid, panicked>>

\* yield() returns, and trap() checks once more for a kill.
YieldBack(c, p) ==
  /\ On(c, p) /\ thr[p].pc = "y_back"
  /\ lock' = NoCpu
  /\ thr' = [thr EXCEPT ![p].ypc = "none",
               ![p].pc = IF ptable[p].killed /\ thr[p].ypc = "user" THEN "exit" ELSE thr[p].ypc]
  /\ UNCHANGED <<ptable, cpu, tlock, ticks, nextpid, panicked>>

Thread(c, p) ==
  \/ \E call \in Calls : Syscall(c, p, call)
  \/ Sysret(c, p)
  \/ allocproc(c, p) \/ ForkKstack(c, p) \/ ForkCopy(c, p) \/ ForkRun(c, p) \/ forkret(c, p)
  \/ exit(c, p)
  \/ WaitLock(c, p) \/ WaitScan(c, p) \/ WaitAwake(c, p)
  \/ \E pid \in KillPids : kill(c, p, pid)
  \/ SleepStart(c, p) \/ SleepTest(c, p) \/ sleep(c, p) \/ SleepAwake(c, p) \/ SleepRelock(c, p)
  \/ sched(c, p) \/ YieldBack(c, p)

Scheduler(c) == SchedAcquire(c) \/ SchedSwitch(c) \/ SchedBack(c) \/ SchedRelease(c)

Clock(c) == ClockTick(c) \/ ClockWakeup(c) \/ ClockRelease(c) \/ TrapTail(c)

Next ==
  \E c \in CPUs :
    \/ \E p \in Procs \cap {cpu[c].sp} : Thread(c, p)
    \/ Scheduler(c)
    \/ Clock(c)

Spec == Init /\ [][Next]_vars

(***************************************************************************)
(* Fairness: a CPU executes its scheduler and its interrupt handler; a     *)
(* process that is given the CPU again and again gets on with its system   *)
(* call (more than one instruction fits between two clock ticks); the      *)
(* clock keeps ticking; init calls wait (the loop in init.c).  User        *)
(* programs need not make any system call.                                 *)
(***************************************************************************)
InCall(p) == \E c \in CPUs : thr[p].pc \in NoLockPcs \ {"user"} /\ Thread(c, p)
InterruptsOff(p) == \E c \in CPUs : thr[p].pc \notin NoLockPcs /\ Thread(c, p)

Fairness ==
  /\ \A c \in CPUs : SF_vars(Scheduler(c)) /\ SF_vars(ClockTick(c))
                     /\ WF_vars(ClockWakeup(c) \/ ClockRelease(c) \/ TrapTail(c))
  /\ \A p \in Procs : SF_vars(InCall(p)) /\ WF_vars(InterruptsOff(p))
  /\ SF_vars(\E c \in CPUs : Syscall(c, initproc, "wait"))

FairSpec == Spec /\ Fairness

-----------------------------------------------------------------------------
States == {"UNUSED", "EMBRYO", "SLEEPING", "RUNNABLE", "RUNNING", "ZOMBIE"}

PCs == NoLockPcs \cup SchedPcs \cup
       {"none", "dead", "forkret", "w_scan", "w_slept", "s_test", "s_sleep", "s_slept", "y_back"}

ProcType   == [state : States, pid : 0..(MaxPid + NPROC), parent : Procs \cup {Nil}, killed : BOOLEAN,
               chan : Procs \cup {Nil, Ticks}, kstack : BOOLEAN, pgdir : BOOLEAN]
CpuType    == [proc : Procs \cup {Nil}, sp : Procs \cup {Nil}, cr3 : Procs \cup {Nil},
               spc : {"idle", "scan", "swtch"}, i : 1..(NPROC + 1),
               ipc : {"none", "wakeup", "release", "tail"}]
ThreadType == [pc : PCs, np : Procs \cup {Nil}, ticks0 : 0..(TickMod - 1), ypc : NoLockPcs \cup {"none"}]

TypeOK ==
  /\ ptable \in [Procs -> ProcType] /\ cpu \in [CPUs -> CpuType] /\ thr \in [Procs -> ThreadType]
  /\ lock \in CPUs \cup {NoCpu}
  /\ tlock \in CPUs \cup {NoCpu}
  /\ ticks \in 0..(TickMod - 1)
  /\ nextpid \in 1..(MaxPid + NPROC + 1)
  /\ panicked \in BOOLEAN

(***************************************************************************)
(* Two CPUs never run on the same kernel stack: a process that has made    *)
(* itself RUNNABLE, SLEEPING or ZOMBIE is still on its stack until swtch,  *)
(* and only ptable.lock keeps other schedulers away (proc.c:339-346, 380). *)
(***************************************************************************)
OneCpuPerStack == \A c, d \in CPUs : cpu[c].sp = cpu[d].sp /\ cpu[c].sp # Nil => c = d

(***************************************************************************)
(* The stack a CPU runs on and the page table in its CR3 are allocated:    *)
(* wait frees both while the zombie's last CPU may just have left them     *)
(* (proc.c:290-292, 346-347).                                              *)
(***************************************************************************)
StackAndPageTableLive ==
  \A c \in CPUs : /\ cpu[c].sp # Nil => ptable[cpu[c].sp].kstack
                  /\ cpu[c].cr3 # Nil => ptable[cpu[c].cr3].pgdir

(***************************************************************************)
(* No panic in sched or exit, whatever the CPUs interleave, as long as no  *)
(* program kills pid 1: "sched ptable.lock", "sched locks", "sched         *)
(* running", "sched interruptible", "init exiting" and, of a zombie that   *)
(* some CPU runs again, "zombie exit" (proc.c:235, 267, 371-378).          *)
(***************************************************************************)
NoPanic == ~panicked

(***************************************************************************)
(* A process asleep in wait has a reason to be: whenever ptable.lock is    *)
(* free it has a child, no child of it is a zombie and it is not killed    *)
(* (proc.c:253, 260, 304, 310: no wakeup is lost).                         *)
(***************************************************************************)
WaiterHasReason ==
  lock = NoCpu =>
    \A p \in Procs : ptable[p].state = "SLEEPING" /\ ptable[p].chan = p =>
      Children(p) # {} /\ Zombies(p) = {} /\ ~ptable[p].killed

(***************************************************************************)
(* "guaranteed that we won't miss any wakeup" (proc.c:430-433): whenever   *)
(* tickslock is free, a process asleep on &ticks is not yet due, although  *)
(* sleep lets go of tickslock before it is off the CPU.                    *)
(***************************************************************************)
SleeperNotDue ==
  tlock = NoCpu =>
    \A p \in Procs : ptable[p].state = "SLEEPING" /\ ptable[p].chan = Ticks =>
      Elapsed(p) < SleepTicks

(***************************************************************************)
(* Every process but init has a parent that can still reap it: exit hands  *)
(* the children on before the parent becomes a zombie, although fork sets  *)
(* np->parent without the lock (proc.c:200, 255-262).                      *)
(***************************************************************************)
ParentCanReap ==
  lock = NoCpu =>
    \A p \in Procs \ {initproc} : ptable[p].state \notin {"UNUSED", "EMBRYO"} =>
      /\ ptable[p].parent # Nil
      /\ ptable[ptable[p].parent].state \in {"RUNNABLE", "RUNNING", "SLEEPING"}

(***************************************************************************)
(* init reaps: a zombie that is init's child gives its slot back           *)
(* (proc.c:260, 283-300).                                                  *)
(***************************************************************************)
OrphanReaped ==
  \A p \in Procs :
    ptable[p].state = "ZOMBIE" /\ ptable[p].parent = initproc ~> ptable[p].state = "UNUSED"

(***************************************************************************)
(* A process killed in user space, fork, wait or kill exits: the check in  *)
(* wait, the wakeup in kill and the checks in trap leave no gap to stay in *)
(* (proc.c:304, 488; trap.c:40, 44, 97-111).  In piperead there is one.    *)
(***************************************************************************)
KilledExits ==
  \A p \in Procs :
    ptable[p].killed /\ ptable[p].state \notin {"UNUSED", "EMBRYO"} ~> ptable[p].state \in {"ZOMBIE", "UNUSED"}

(***************************************************************************)
(* Round robin: a RUNNABLE process gets the CPU (proc.c:335-352).          *)
(***************************************************************************)
RunnableRuns ==
  \A p \in Procs : ptable[p].state = "RUNNABLE" ~> ptable[p].state = "RUNNING"
=============================================================================
