------------------------------- MODULE Spinlock -------------------------------
(***************************************************************************)
(* The spin locks of xv6 (xv6_dregmod/src/spinlock.c): acquire, release,   *)
(* holding, pushcli and popcli, run by kernel code and by the interrupt    *)
(* handlers that may arrive between any two instructions of it.            *)
(*                                                                         *)
(* A CPU runs a stack of contexts: context 0 is the kernel code of the     *)
(* current process, context l+1 the handler of an interrupt that arrived   *)
(* while context l was running.  Only the top context of a CPU moves.      *)
(* Every access to a word that other CPUs or handlers use is a step of its *)
(* own; what a CPU does to its own ncli and intena with interrupts off is  *)
(* one step.                                                               *)
(***************************************************************************)
EXTENDS Integers, FiniteSets

CONSTANTS
  CPUs,      \* the processors
  NoCpu,     \* the null pointer in lk->cpu
  NLocks,    \* spin locks, numbered in the order the kernel nests them
  IrqLocks,  \* the locks an interrupt handler takes first (tickslock, idelock, cons.lock)
  MaxLevel   \* bound: contexts that may be stacked on one CPU

ASSUME SpinlockAssumption ==
  /\ NoCpu \notin CPUs
  /\ NLocks \in Nat \ {0}
  /\ IrqLocks \subseteq 1..NLocks
  /\ MaxLevel \in Nat \ {0}

Locks    == 1..NLocks
Levels   == 0..MaxLevel
Contexts == CPUs \X Levels
NoLock   == 0

VARIABLES
  locked,  \* locked[lk]: lk->locked
  lkcpu,   \* lkcpu[lk]: lk->cpu
  FL_IF,   \* FL_IF[c]: the interrupt flag in the EFLAGS of CPU c
  ncli,    \* ncli[c]: depth of pushcli nesting
  intena,  \* intena[c]: was IF set before the outermost pushcli?
  level,   \* level[c]: the context CPU c is running
  pc,      \* pc[t]: where context t is
  lk,      \* lk[t]: the lock argument of the call context t is in
  eflags,  \* eflags[t]: the local variable of pushcli
  held     \* held[t]: the locks context t has acquired and not yet released

vars == <<locked, lkcpu, FL_IF, ncli, intena, level, pc, lk, eflags, held>>

(***************************************************************************)
(* Program counters.  "run": outside spinlock.c.  acquire: a_push, a_cli,  *)
(* a_hold, a_xchg, a_cpu.  release: r_hold, r_cpu, r_unlock, r_pop.  A     *)
(* pushcli/popcli pair of its own, as in myproc(): m_push, m_cli, m_in.    *)
(* "panic": the CPU is in panic(), which never returns.                    *)
(***************************************************************************)
PCs == {"run", "a_push", "a_cli", "a_hold", "a_xchg", "a_cpu",
        "r_hold", "r_cpu", "r_unlock", "r_pop", "m_push", "m_cli", "m_in", "panic"}

Init ==
  /\ locked = [k \in Locks |-> 0]
  /\ lkcpu  = [k \in Locks |-> NoCpu]
  /\ FL_IF  = [c \in CPUs |-> 1]
  /\ ncli   = [c \in CPUs |-> 0]
  /\ intena = [c \in CPUs |-> 0]
  /\ level  = [c \in CPUs |-> 0]
  /\ pc     = [t \in Contexts |-> "run"]
  /\ lk     = [t \in Contexts |-> NoLock]
  /\ eflags = [t \in Contexts |-> 0]
  /\ held   = [t \in Contexts |-> {}]

Running(t) == level[t[1]] = t[2]

(***************************************************************************)
(* pushcli: EFLAGS is read first; an interrupt may still come in before    *)
(* the cli.  After the cli the rest touches only this CPU's own state.     *)
(***************************************************************************)
ReadEflags(t) ==
  /\ pc[t] \in {"a_push", "m_push"}
  /\ eflags' = [eflags EXCEPT ![t] = FL_IF[t[1]]]
  /\ pc' = [pc EXCEPT ![t] = IF @ = "a_push" THEN "a_cli" ELSE "m_cli"]
  /\ UNCHANGED <<locked, lkcpu, FL_IF, ncli, intena, level, lk, held>>

PushcliState_NoCli(t) ==  \* mutant: the cli is missing
  LET c == t[1] IN
  /\ intena' = [intena EXCEPT ![c] = IF ncli[c] = 0 THEN eflags[t] ELSE @]
  /\ ncli' = [ncli EXCEPT ![c] = @ + 1]
  /\ UNCHANGED FL_IF

PushcliState(t) ==
  LET c == t[1] IN
  /\ FL_IF' = [FL_IF EXCEPT ![c] = 0]
  /\ intena' = [intena EXCEPT ![c] = IF ncli[c] = 0 THEN eflags[t] ELSE @]
  /\ ncli' = [ncli EXCEPT ![c] = @ + 1]

Cli(t) ==
  /\ pc[t] \in {"a_cli", "m_cli"}
  /\ PushcliState(t)
  /\ eflags' = [eflags EXCEPT ![t] = 0]  \* the local goes out of scope
  /\ pc' = [pc EXCEPT ![t] = IF @ = "a_cli" THEN "a_hold" ELSE "m_in"]
  /\ UNCHANGED <<locked, lkcpu, level, lk, held>>

(***************************************************************************)
(* popcli: panics when interrupts are on or the nesting is exhausted, and  *)
(* turns interrupts on again only at the outermost level.                  *)
(***************************************************************************)
PopcliPanics(c) == FL_IF[c] = 1 \/ ncli[c] - 1 < 0

PopcliState_AlwaysSti(c) ==  \* mutant: intena is not consulted
  /\ ncli' = [ncli EXCEPT ![c] = @ - 1]
  /\ FL_IF' = [FL_IF EXCEPT ![c] = IF ncli[c] - 1 = 0 THEN 1 ELSE @]

PopcliState(c) ==
  /\ ncli' = [ncli EXCEPT ![c] = @ - 1]
  /\ FL_IF' = [FL_IF EXCEPT ![c] = IF ncli[c] - 1 = 0 /\ intena[c] = 1 THEN 1 ELSE @]

Popcli(t) ==
  /\ pc[t] \in {"r_pop", "m_in"}
  /\ IF PopcliPanics(t[1])
       THEN /\ pc' = [pc EXCEPT ![t] = "panic"]
            /\ UNCHANGED <<FL_IF, ncli>>
       ELSE /\ pc' = [pc EXCEPT ![t] = "run"]
            /\ PopcliState(t[1])
  /\ UNCHANGED <<locked, lkcpu, intena, level, lk, eflags, held>>

(***************************************************************************)
(* holding(lk), as acquire and release call it.  Its own pushcli/popcli    *)
(* pair is nested in a section that already has interrupts off and changes *)
(* nothing in the end.                                                     *)
(***************************************************************************)
holding(k, c) == locked[k] = 1 /\ lkcpu[k] = c

(***************************************************************************)
(* acquire(lk).  The kernel nests locks upwards, and never asks for a lock *)
(* the same code path already holds; a handler takes an IrqLock first.     *)
(* Nothing stops a handler from asking for a lock that the code it         *)
(* interrupted holds: that is what disabling interrupts is for.            *)
(***************************************************************************)
CallAcquire(t, k) ==
  /\ pc[t] = "run"
  /\ \A h \in held[t] : h < k
  /\ t[2] > 0 /\ held[t] = {} => k \in IrqLocks
  /\ lk' = [lk EXCEPT ![t] = k]
  /\ pc' = [pc EXCEPT ![t] = "a_push"]
  /\ UNCHANGED <<locked, lkcpu, FL_IF, ncli, intena, level, eflags, held>>

AcquireCheck(t) ==
  /\ pc[t] = "a_hold"
  /\ pc' = [pc EXCEPT ![t] = IF holding(lk[t], t[1]) THEN "panic" ELSE "a_xchg"]
  /\ UNCHANGED <<locked, lkcpu, FL_IF, ncli, intena, level, lk, eflags, held>>

Xchg_Ignored(t) ==  \* mutant: the value xchg returns is not tested
  /\ pc[t] = "a_xchg"
  /\ locked' = [locked EXCEPT ![lk[t]] = 1]
  /\ held' = [held EXCEPT ![t] = @ \cup {lk[t]}]
  /\ pc' = [pc EXCEPT ![t] = "a_cpu"]
  /\ UNCHANGED <<lkcpu, FL_IF, ncli, intena, level, lk, eflags>>

\* The xchg that finds the lock free; one that finds it taken changes nothing.
Xchg(t) ==
  /\ pc[t] = "a_xchg"
  /\ locked[lk[t]] = 0
  /\ locked' = [locked EXCEPT ![lk[t]] = 1]
  /\ held' = [held EXCEPT ![t] = @ \cup {lk[t]}]
  /\ pc' = [pc EXCEPT ![t] = "a_cpu"]
  /\ UNCHANGED <<lkcpu, FL_IF, ncli, intena, level, lk, eflags>>

RecordCpu_Missing(t) ==  \* mutant: lk->cpu is not recorded
  /\ pc[t] = "a_cpu"
  /\ lk' = [lk EXCEPT ![t] = NoLock]
  /\ pc' = [pc EXCEPT ![t] = "run"]
  /\ UNCHANGED <<locked, lkcpu, FL_IF, ncli, intena, level, eflags, held>>

RecordCpu(t) ==
  /\ pc[t] = "a_cpu"
  /\ lkcpu' = [lkcpu EXCEPT ![lk[t]] = t[1]]
  /\ lk' = [lk EXCEPT ![t] = NoLock]
  /\ pc' = [pc EXCEPT ![t] = "run"]
  /\ UNCHANGED <<locked, FL_IF, ncli, intena, level, eflags, held>>

(***************************************************************************)
(* release(lk), in any order (sleep() releases the outer of two locks).    *)
(***************************************************************************)
CallRelease(t, k) ==
  /\ pc[t] = "run"
  /\ k \in held[t]
  /\ lk' = [lk EXCEPT ![t] = k]
  /\ pc' = [pc EXCEPT ![t] = "r_hold"]
  /\ UNCHANGED <<locked, lkcpu, FL_IF, ncli, intena, level, eflags, held>>

ReleaseCheck(t) ==
  /\ pc[t] = "r_hold"
  /\ pc' = [pc EXCEPT ![t] = IF holding(lk[t], t[1]) THEN "r_cpu" ELSE "panic"]
  /\ UNCHANGED <<locked, lkcpu, FL_IF, ncli, intena, level, lk, eflags, held>>

ClearCpu(t) ==
  /\ pc[t] = "r_cpu"
  /\ lkcpu' = [lkcpu EXCEPT ![lk[t]] = NoCpu]
  /\ pc' = [pc EXCEPT ![t] = "r_unlock"]
  /\ UNCHANGED <<locked, FL_IF, ncli, intena, level, lk, eflags, held>>

Unlock(t) ==
  /\ pc[t] = "r_unlock"
  /\ locked' = [locked EXCEPT ![lk[t]] = 0]
  /\ held' = [held EXCEPT ![t] = @ \ {lk[t]}]
  /\ lk' = [lk EXCEPT ![t] = NoLock]
  /\ pc' = [pc EXCEPT ![t] = "r_pop"]
  /\ UNCHANGED <<lkcpu, FL_IF, ncli, intena, level, eflags>>

(***************************************************************************)
(* myproc(): pushcli, read this CPU's proc, popcli.                        *)
(***************************************************************************)
CallMyproc(t) ==
  /\ pc[t] = "run"
  /\ pc' = [pc EXCEPT ![t] = "m_push"]
  /\ UNCHANGED <<locked, lkcpu, FL_IF, ncli, intena, level, lk, eflags, held>>

(***************************************************************************)
(* An interrupt is taken through an interrupt gate (SETGATE with istrap 0  *)
(* in tvinit): the CPU saves EFLAGS and clears IF.  iret restores it; the  *)
(* saved flag is 1, or the interrupt had not been taken.                   *)
(***************************************************************************)
Interrupt(c) ==
  /\ FL_IF[c] = 1
  /\ level[c] < MaxLevel
  /\ pc[<<c, level[c]>>] # "panic"
  /\ FL_IF' = [FL_IF EXCEPT ![c] = 0]
  /\ level' = [level EXCEPT ![c] = @ + 1]
  /\ UNCHANGED <<locked, lkcpu, ncli, intena, pc, lk, eflags, held>>

Iret_FromKernel(t) ==  \* mutant: one frame too many is popped
  /\ pc[t] = "run"
  /\ held[t] = {}
  /\ FL_IF' = [FL_IF EXCEPT ![t[1]] = 1]
  /\ level' = [level EXCEPT ![t[1]] = @ - 1]
  /\ UNCHANGED <<locked, lkcpu, ncli, intena, pc, lk, eflags, held>>

Iret(t) ==
  /\ t[2] > 0
  /\ pc[t] = "run"
  /\ held[t] = {}
  /\ FL_IF' = [FL_IF EXCEPT ![t[1]] = 1]
  /\ level' = [level EXCEPT ![t[1]] = @ - 1]
  /\ UNCHANGED <<locked, lkcpu, ncli, intena, pc, lk, eflags, held>>

Step(t) ==
  /\ Running(t)
  /\ \/ ReadEflags(t) \/ Cli(t) \/ Popcli(t)
     \/ \E k \in Locks : CallAcquire(t, k) \/ CallRelease(t, k)
     \/ AcquireCheck(t) \/ Xchg(t) \/ RecordCpu(t)
     \/ ReleaseCheck(t) \/ ClearCpu(t) \/ Unlock(t)
     \/ CallMyproc(t) \/ Iret(t)

Next ==
  \/ \E t \in Contexts : Step(t)
  \/ \E c \in CPUs : Interrupt(c)

(***************************************************************************)
(* Fairness: a CPU keeps executing instructions, and a critical section of *)
(* the kernel ends: the code in it does not run on without releasing.      *)
(* Nothing is assumed of who wins an xchg race.                            *)
(***************************************************************************)
Top(c) == <<c, level[c]>>

EndSection(c) == \E k \in held[Top(c)] : CallRelease(Top(c), k)

Instruction(c) ==
  LET t == Top(c) IN
  \/ ReadEflags(t) \/ Cli(t) \/ Popcli(t)
  \/ AcquireCheck(t) \/ Xchg(t) \/ RecordCpu(t)
  \/ ReleaseCheck(t) \/ ClearCpu(t) \/ Unlock(t)

Fairness == \A c \in CPUs : WF_vars(Instruction(c)) /\ SF_vars(EndSection(c))

Spec == Init /\ [][Next]_vars
FairSpec == Spec /\ Fairness

-----------------------------------------------------------------------------
TypeOK ==
  /\ locked \in [Locks -> {0, 1}]
  /\ lkcpu \in [Locks -> CPUs \cup {NoCpu}]
  /\ FL_IF \in [CPUs -> {0, 1}]
  /\ ncli \in [CPUs -> Int]
  /\ intena \in [CPUs -> {0, 1}]
  /\ level \in [CPUs -> Levels]
  /\ pc \in [Contexts -> PCs]
  /\ lk \in [Contexts -> Locks \cup {NoLock}]
  /\ eflags \in [Contexts -> {0, 1}]
  /\ held \in [Contexts -> SUBSET Locks]

(***************************************************************************)
(* Two contexts never hold the same lock, whatever CPUs they are on: the   *)
(* xchg in acquire and the store in release keep locked and the holder in  *)
(* step (spinlock.c:32, 65).                                               *)
(***************************************************************************)
MutualExclusion ==
  \A t, u \in Contexts : t # u => held[t] \cap held[u] = {}

(***************************************************************************)
(* None of the panics of spinlock.c is reached by kernel code that pairs   *)
(* its calls: acquire does not mistake another CPU's lock for its own,     *)
(* release always recognises the lock as its own although lk->cpu is       *)
(* written after the xchg, and popcli finds interrupts off and ncli > 0.   *)
(***************************************************************************)
NoPanic == \A t \in Contexts : pc[t] # "panic"

(***************************************************************************)
(* "disable interrupts to avoid deadlock" (spinlock.c:27): code that an    *)
(* interrupt suspended holds no spin lock, so no handler can ever wait for *)
(* the CPU it runs on.                                                     *)
(***************************************************************************)
InterruptedHoldsNothing ==
  \A t \in Contexts : t[2] < level[t[1]] => held[t] = {}

(***************************************************************************)
(* pushcli/popcli "are matched" and "if interrupts are off, then pushcli,  *)
(* popcli leaves them off" (spinlock.c:100-102): code outside spinlock.c   *)
(* that holds nothing has the interrupt flag it started with, on at level  *)
(* 0 and off in a handler, so a handler is never itself interrupted; and   *)
(* while it holds a lock ncli counts exactly the locks it holds.           *)
(***************************************************************************)
FlagRestored ==
  \A t \in Contexts : Running(t) /\ pc[t] = "run" =>
    /\ ncli[t[1]] = Cardinality(held[t])
    /\ FL_IF[t[1]] = 1 <=> (t[2] = 0 /\ held[t] = {})

(***************************************************************************)
(* The innermost lock of the kernel's order does not stay locked: since    *)
(* its holder cannot be interrupted, no stream of interrupts keeps it from *)
(* its release (spinlock.c:27, 65).                                        *)
(***************************************************************************)
InnermostReleased == locked[NLocks] = 1 ~> locked[NLocks] = 0
=============================================================================
