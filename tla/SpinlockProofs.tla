--------------------------- MODULE SpinlockProofs ---------------------------
(* Proofs about Spinlock for any number of CPUs, locks and context levels.  *)
EXTENDS Spinlock, FiniteSetTheorems, TLAPS

(***************************************************************************)
(* The inductive invariant behind the safety properties.  LockInv ties     *)
(* locked and lk->cpu to the one context that holds the lock; StackInv     *)
(* says what suspended and unused contexts look like; NestInv accounts for *)
(* ncli, IF and intena on a CPU by where its running context is.           *)
(***************************************************************************)
LockInv(t) ==
  /\ \A k \in held[t] : locked[k] = 1
  /\ pc[t] \in {"a_push", "a_cli", "a_hold", "a_xchg"} => lk[t] \in Locks \ held[t]
  /\ pc[t] \in {"a_cpu", "r_hold", "r_cpu", "r_unlock"} => lk[t] \in held[t]
  /\ pc[t] = "r_unlock" => lkcpu[lk[t]] = NoCpu
  /\ \A k \in held[t] :
       (pc[t] \in {"a_cpu", "r_unlock"} => k # lk[t]) => lkcpu[k] = t[1]

OwnerInv(k) == lkcpu[k] # NoCpu => \E t \in Contexts : t[1] = lkcpu[k] /\ k \in held[t]

StackInv(t) ==
  /\ pc[t] # "panic"
  /\ t[2] < level[t[1]] =>
       /\ held[t] = {}
       /\ pc[t] \in {"run", "a_push", "a_cli", "m_push", "m_cli"}
  /\ t[2] > level[t[1]] => held[t] = {} /\ pc[t] = "run"
  /\ pc[t] \in {"a_cli", "m_cli"} =>
       (eflags[t] = 1 <=> (t[2] = 0 /\ held[t] = {}))

\* 1 while ncli counts a pushcli that no held lock stands for.
Extra(t) == IF pc[t] \in {"a_hold", "a_xchg", "r_pop", "m_in"} THEN 1 ELSE 0

NestInv(c) ==
  /\ level[c] \in {0, 1}
  /\ ncli[c] = Cardinality(held[Top(c)]) + Extra(Top(c))
  /\ FL_IF[c] = 1 <=> (level[c] = 0 /\ ncli[c] = 0)
  /\ ncli[c] > 0 => (intena[c] = 1 <=> level[c] = 0)

IInv ==
  /\ TypeOK
  /\ MutualExclusion
  /\ \A t \in Contexts : LockInv(t) /\ StackInv(t)
  /\ \A k \in Locks : OwnerInv(k)
  /\ \A c \in CPUs : NestInv(c)

-----------------------------------------------------------------------------
\* What the provers need to know of a context and of a set of locks.
LEMMA ContextParts ==
  ASSUME NEW t \in Contexts
  PROVE  t[1] \in CPUs /\ t[2] \in Levels /\ t[2] \in Nat /\ t = <<t[1], t[2]>>
BY DEF Contexts, Levels

\* The context on top of a CPU's stack is one of that CPU.
LEMMA TopContext ==
  ASSUME TypeOK, NEW c \in CPUs
  PROVE  Top(c) \in Contexts /\ Top(c)[1] = c /\ Top(c)[2] = level[c]
BY DEF TypeOK, Contexts, Top

\* Who runs is on top.
LEMMA RunningTop ==
  ASSUME TypeOK, NEW t \in Contexts, Running(t)
  PROVE  t = Top(t[1])
BY ContextParts DEF Running, Top

\* Adding a lock to a set, or taking one out, changes its size by one.
LEMMA LockSets ==
  ASSUME NEW S \in SUBSET Locks
  PROVE  /\ IsFiniteSet(S)
         /\ Cardinality(S) \in Nat
         /\ Cardinality(S) = 0 <=> S = {}
         /\ \A k \in Locks \ S : Cardinality(S \cup {k}) = Cardinality(S) + 1
         /\ \A k \in S : Cardinality(S \ {k}) = Cardinality(S) - 1
<1>1. IsFiniteSet(Locks)
  BY SpinlockAssumption, FS_Interval DEF Locks
<1>2. IsFiniteSet(S)
  BY <1>1, FS_Subset
<1> QED
  BY <1>2, FS_CardinalityType, FS_EmptySet, FS_AddElement, FS_RemoveElement

\* At boot nobody holds anything and interrupts are on.
LEMMA InitInv == Init => IInv
<1> SUFFICES ASSUME Init PROVE IInv
  OBVIOUS
<1>1. TypeOK
  BY SpinlockAssumption DEF Init, TypeOK, PCs, Levels, NoLock
<1>2. MutualExclusion
  BY DEF Init, MutualExclusion
<1>3. ASSUME NEW t \in Contexts PROVE LockInv(t) /\ StackInv(t)
  BY ContextParts DEF Init, LockInv, StackInv
<1>4. \A k \in Locks : OwnerInv(k)
  BY DEF Init, OwnerInv
<1>5. ASSUME NEW c \in CPUs PROVE NestInv(c)
  <2>1. Top(c) \in Contexts
    BY <1>1, TopContext
  <2> QED
    BY <2>1, FS_EmptySet DEF Init, NestInv, Extra
<1> QED
  BY <1>1, <1>2, <1>3, <1>4, <1>5 DEF IInv

\* Every step keeps the variables in their types.
LEMMA TypeStep == IInv /\ [Next]_vars => TypeOK'
<1> SUFFICES ASSUME IInv, [Next]_vars PROVE TypeOK'
  OBVIOUS
<1>0. TypeOK /\ \A t \in Contexts : LockInv(t)
  BY DEF IInv
<1> USE <1>0, SpinlockAssumption DEF TypeOK, PCs, NoLock
<1>1. ASSUME NEW t \in Contexts, Step(t) PROVE TypeOK'
  <2>0. t[1] \in CPUs /\ t[2] \in Levels /\ level[t[1]] = t[2]
    BY <1>1, ContextParts DEF Step, Running
  <2>1. CASE ReadEflags(t)
    BY <2>0, <2>1 DEF ReadEflags
  <2>2. CASE Cli(t)
    BY <2>0, <2>2 DEF Cli, PushcliState
  <2>3. CASE Popcli(t)
    BY <2>0, <2>3 DEF Popcli, PopcliState
  <2>4. ASSUME NEW k \in Locks, CallAcquire(t, k) PROVE TypeOK'
    BY <2>0, <2>4 DEF CallAcquire
  <2>5. ASSUME NEW k \in Locks, CallRelease(t, k) PROVE TypeOK'
    BY <2>0, <2>5 DEF CallRelease
  <2>6. CASE AcquireCheck(t)
    BY <2>0, <2>6 DEF AcquireCheck
  <2>7. CASE Xchg(t)
    BY <2>0, <2>7 DEF Xchg, LockInv
  <2>8. CASE RecordCpu(t)
    BY <2>0, <2>8 DEF RecordCpu
  <2>9. CASE ReleaseCheck(t)
    BY <2>0, <2>9 DEF ReleaseCheck
  <2>10. CASE ClearCpu(t)
    BY <2>0, <2>10 DEF ClearCpu
  <2>11. CASE Unlock(t)
    BY <2>0, <2>11 DEF Unlock
  <2>12. CASE CallMyproc(t)
    BY <2>0, <2>12 DEF CallMyproc
  <2>13. CASE Iret(t)
    BY <2>0, <2>13 DEF Iret, Levels
  <2> QED
    BY <1>1, <2>1, <2>2, <2>3, <2>4, <2>5, <2>6, <2>7, <2>8, <2>9, <2>10,
       <2>11, <2>12, <2>13 DEF Step
<1>2. ASSUME NEW c \in CPUs, Interrupt(c) PROVE TypeOK'
  BY <1>2 DEF Interrupt, Levels
<1>3. CASE UNCHANGED vars
  BY <1>3 DEF vars
<1> QED
  BY <1>1, <1>2, <1>3 DEF Next

\* The invariant survives pushcli reading EFLAGS.
LEMMA ReadEflagsStep ==
  ASSUME IInv, NEW t \in Contexts, Running(t), ReadEflags(t), TypeOK'
  PROVE  IInv'
<1>0. /\ TypeOK
      /\ t[1] \in CPUs /\ t[2] \in Nat
      /\ level[t[1]] = t[2]
      /\ t = Top(t[1])
  BY ContextParts, RunningTop DEF IInv, Running
<1>1. MutualExclusion'
  BY <1>0 DEF IInv, TypeOK, MutualExclusion, LockInv, ReadEflags
<1>2. ASSUME NEW u \in Contexts PROVE LockInv(u)'
  BY <1>0, ContextParts DEF IInv, TypeOK, MutualExclusion, LockInv, StackInv, ReadEflags
<1>3. ASSUME NEW u \in Contexts PROVE StackInv(u)'
  BY <1>0, LockSets, ContextParts DEF IInv, TypeOK, LockInv, StackInv, NestInv, Extra, ReadEflags
<1>4. ASSUME NEW k \in Locks PROVE OwnerInv(k)'
  BY <1>0 DEF IInv, TypeOK, OwnerInv, LockInv, ReadEflags
<1>5. ASSUME NEW c \in CPUs PROVE NestInv(c)'
  <2>1. CASE c = t[1]
    <3>1. Top(c)' = t /\ Top(c) = t /\ held[t] \in SUBSET Locks
      BY <1>0, <2>1 DEF TypeOK, Top, ReadEflags
    <3> QED
      BY <1>0, <2>1, <3>1, LockSets DEF IInv, TypeOK, LockInv, NestInv, Extra, ReadEflags
  <2>2. CASE c # t[1]
    <3>1. Top(c)' = Top(c) /\ Top(c) # t /\ Top(c) \in Contexts
      BY <1>0, <2>2, TopContext DEF Top, ReadEflags
    <3> QED
      BY <1>0, <2>2, <3>1 DEF IInv, TypeOK, NestInv, Extra, ReadEflags
  <2> QED
    BY <2>1, <2>2
<1> QED
  BY <1>1, <1>2, <1>3, <1>4, <1>5 DEF IInv

\* The invariant survives pushcli disabling interrupts and counting.
LEMMA CliStep ==
  ASSUME IInv, NEW t \in Contexts, Running(t), Cli(t), TypeOK'
  PROVE  IInv'
<1>0. /\ TypeOK
      /\ t[1] \in CPUs /\ t[2] \in Nat
      /\ level[t[1]] = t[2]
      /\ t = Top(t[1])
  BY ContextParts, RunningTop DEF IInv, Running
<1>1. MutualExclusion'
  BY <1>0 DEF IInv, TypeOK, MutualExclusion, LockInv, Cli, PushcliState
<1>2. ASSUME NEW u \in Contexts PROVE LockInv(u)'
  BY <1>0, ContextParts DEF IInv, TypeOK, MutualExclusion, LockInv, StackInv, Cli, PushcliState
<1>3. ASSUME NEW u \in Contexts PROVE StackInv(u)'
  BY <1>0, LockSets, ContextParts DEF IInv, TypeOK, LockInv, StackInv, NestInv, Extra, Cli, PushcliState
<1>4. ASSUME NEW k \in Locks PROVE OwnerInv(k)'
  BY <1>0 DEF IInv, TypeOK, OwnerInv, LockInv, Cli, PushcliState
<1>5. ASSUME NEW c \in CPUs PROVE NestInv(c)'
  <2>1. CASE c = t[1]
    <3>1. Top(c)' = t /\ held[t] \in SUBSET Locks
      BY <1>0, <2>1 DEF TypeOK, Top, Cli
    <3> QED
      BY <1>0, <2>1, <3>1, LockSets DEF IInv, TypeOK, LockInv, StackInv, NestInv, Extra, Cli, PushcliState
  <2>2. CASE c # t[1]
    <3>1. Top(c)' = Top(c) /\ Top(c) # t /\ Top(c) \in Contexts
      BY <1>0, <2>2, TopContext DEF Top, Cli
    <3> QED
      BY <1>0, <2>2, <3>1 DEF IInv, TypeOK, LockInv, StackInv, NestInv, Extra, Cli, PushcliState
  <2> QED
    BY <2>1, <2>2
<1> QED
  BY <1>1, <1>2, <1>3, <1>4, <1>5 DEF IInv

\* The invariant survives popcli.
LEMMA PopcliStep ==
  ASSUME IInv, NEW t \in Contexts, Running(t), Popcli(t), TypeOK'
  PROVE  IInv'
<1>0. /\ TypeOK
      /\ t[1] \in CPUs /\ t[2] \in Nat
      /\ level[t[1]] = t[2]
      /\ t = Top(t[1])
  BY ContextParts, RunningTop DEF IInv, Running
<1>1. MutualExclusion'
  BY <1>0 DEF IInv, TypeOK, MutualExclusion, LockInv, Popcli, PopcliPanics, PopcliState
<1>2. ASSUME NEW u \in Contexts PROVE LockInv(u)'
  BY <1>0, ContextParts DEF IInv, TypeOK, MutualExclusion, LockInv, StackInv, Popcli, PopcliPanics, PopcliState
<1>3. ASSUME NEW u \in Contexts PROVE StackInv(u)'
  BY <1>0, LockSets, ContextParts DEF IInv, TypeOK, LockInv, StackInv, NestInv, Extra, Popcli, PopcliPanics, PopcliState
<1>4. ASSUME NEW k \in Locks PROVE OwnerInv(k)'
  BY <1>0 DEF IInv, TypeOK, OwnerInv, LockInv, Popcli, PopcliPanics, PopcliState
<1>5. ASSUME NEW c \in CPUs PROVE NestInv(c)'
  <2>1. CASE c = t[1]
    <3>1. Top(c)' = t /\ held[t] \in SUBSET Locks
      BY <1>0, <2>1 DEF TypeOK, Top, Popcli
    <3>2. /\ ncli[c] = Cardinality(held[t]) + 1
          /\ Cardinality(held[t]) \in Nat
          /\ FL_IF[c] = 0
      BY <1>0, <2>1, <3>1, LockSets DEF IInv, TypeOK, NestInv, Extra, Popcli
    <3>3. /\ ncli'[c] = Cardinality(held[t])
          /\ FL_IF'[c] = IF ncli[c] - 1 = 0 /\ intena[c] = 1 THEN 1 ELSE 0
          /\ pc'[t] = "run" /\ UNCHANGED <<held, level, intena>>
      BY <1>0, <2>1, <3>2 DEF TypeOK, Popcli, PopcliPanics, PopcliState
    <3> QED
      BY <1>0, <2>1, <3>1, <3>2, <3>3 DEF IInv, NestInv, Extra
  <2>2. CASE c # t[1]
    <3>1. Top(c)' = Top(c) /\ Top(c) # t /\ Top(c) \in Contexts
      BY <1>0, <2>2, TopContext DEF Top, Popcli
    <3> QED
      BY <1>0, <2>2, <3>1 DEF IInv, TypeOK, LockInv, StackInv, NestInv, Extra, Popcli, PopcliPanics, PopcliState
  <2> QED
    BY <2>1, <2>2
<1> QED
  BY <1>1, <1>2, <1>3, <1>4, <1>5 DEF IInv

\* The invariant survives acquire's test of holding.
LEMMA AcquireCheckStep ==
  ASSUME IInv, NEW t \in Contexts, Running(t), AcquireCheck(t), TypeOK'
  PROVE  IInv'
<1>0. /\ TypeOK
      /\ t[1] \in CPUs /\ t[2] \in Nat
      /\ level[t[1]] = t[2]
      /\ t = Top(t[1])
  BY ContextParts, RunningTop DEF IInv, Running
<1>a. ~ holding(lk[t], t[1])
  <2> SUFFICES ASSUME holding(lk[t], t[1]) PROVE FALSE
    OBVIOUS
  <2>1. lk[t] \in Locks /\ lk[t] \notin held[t]
    BY <1>0 DEF IInv, LockInv, AcquireCheck
  <2>2. PICK u \in Contexts : u[1] = t[1] /\ lk[t] \in held[u]
    BY <1>0, <2>1, SpinlockAssumption DEF IInv, OwnerInv, holding
  <2>3. u[2] # t[2] /\ u[2] \in Nat
    BY <2>1, <2>2, ContextParts
  <2> QED
    BY <1>0, <2>2, <2>3 DEF IInv, StackInv
<1>1. MutualExclusion'
  BY <1>0 DEF IInv, TypeOK, MutualExclusion, LockInv, AcquireCheck
<1>2. ASSUME NEW u \in Contexts PROVE LockInv(u)'
  BY <1>0, ContextParts DEF IInv, TypeOK, MutualExclusion, LockInv, StackInv, AcquireCheck
<1>3. ASSUME NEW u \in Contexts PROVE StackInv(u)'
  BY <1>0, <1>a, ContextParts DEF IInv, TypeOK, LockInv, StackInv, NestInv, Extra, AcquireCheck
<1>4. ASSUME NEW k \in Locks PROVE OwnerInv(k)'
  BY <1>0 DEF IInv, TypeOK, OwnerInv, LockInv, AcquireCheck
<1>5. ASSUME NEW c \in CPUs PROVE NestInv(c)'
  <2>1. CASE c = t[1]
    <3>1. Top(c)' = t /\ Top(c) = t /\ held[t] \in SUBSET Locks
      BY <1>0, <1>a, <2>1 DEF TypeOK, Top, AcquireCheck
    <3> QED
      BY <1>0, <1>a, <2>1, <3>1, LockSets DEF IInv, TypeOK, LockInv, NestInv, Extra, AcquireCheck
  <2>2. CASE c # t[1]
    <3>1. Top(c)' = Top(c) /\ Top(c) # t /\ Top(c) \in Contexts
      BY <1>0, <1>a, <2>2, TopContext DEF Top, AcquireCheck
    <3> QED
      BY <1>0, <1>a, <2>2, <3>1 DEF IInv, TypeOK, NestInv, Extra, AcquireCheck
  <2> QED
    BY <2>1, <2>2
<1> QED
  BY <1>1, <1>2, <1>3, <1>4, <1>5 DEF IInv

\* The invariant survives the xchg of acquire.
LEMMA XchgStep ==
  ASSUME IInv, NEW t \in Contexts, Running(t), Xchg(t), TypeOK'
  PROVE  IInv'
<1>0. /\ TypeOK
      /\ t[1] \in CPUs /\ t[2] \in Nat
      /\ level[t[1]] = t[2]
      /\ t = Top(t[1])
  BY ContextParts, RunningTop DEF IInv, Running
<1>1. MutualExclusion'
  BY <1>0 DEF IInv, TypeOK, MutualExclusion, LockInv, Xchg
<1>2. ASSUME NEW u \in Contexts PROVE LockInv(u)'
  BY <1>0, ContextParts DEF IInv, TypeOK, MutualExclusion, LockInv, StackInv, Xchg
<1>3. ASSUME NEW u \in Contexts PROVE StackInv(u)'
  BY <1>0, LockSets, ContextParts DEF IInv, TypeOK, LockInv, StackInv, NestInv, Extra, Xchg
<1>4. ASSUME NEW k \in Locks PROVE OwnerInv(k)'
  BY <1>0 DEF IInv, TypeOK, OwnerInv, LockInv, Xchg
<1>5. ASSUME NEW c \in CPUs PROVE NestInv(c)'
  <2>1. CASE c = t[1]
    <3>1. Top(c)' = t /\ held[t] \in SUBSET Locks
      BY <1>0, <2>1 DEF TypeOK, Top, Xchg
    <3> QED
      BY <1>0, <2>1, <3>1, LockSets DEF IInv, TypeOK, LockInv, StackInv, NestInv, Extra, Xchg
  <2>2. CASE c # t[1]
    <3>1. Top(c)' = Top(c) /\ Top(c) # t /\ Top(c) \in Contexts
      BY <1>0, <2>2, TopContext DEF Top, Xchg
    <3> QED
      BY <1>0, <2>2, <3>1 DEF IInv, TypeOK, LockInv, StackInv, NestInv, Extra, Xchg
  <2> QED
    BY <2>1, <2>2
<1> QED
  BY <1>1, <1>2, <1>3, <1>4, <1>5 DEF IInv

\* The invariant survives acquire writing lk->cpu.
LEMMA RecordCpuStep ==
  ASSUME IInv, NEW t \in Contexts, Running(t), RecordCpu(t), TypeOK'
  PROVE  IInv'
<1>0. /\ TypeOK
      /\ t[1] \in CPUs /\ t[2] \in Nat
      /\ level[t[1]] = t[2]
      /\ t = Top(t[1])
  BY ContextParts, RunningTop DEF IInv, Running
<1>1. MutualExclusion'
  BY <1>0 DEF IInv, TypeOK, MutualExclusion, LockInv, RecordCpu
<1>2. ASSUME NEW u \in Contexts PROVE LockInv(u)'
  BY <1>0, ContextParts DEF IInv, TypeOK, MutualExclusion, LockInv, StackInv, RecordCpu
<1>3. ASSUME NEW u \in Contexts PROVE StackInv(u)'
  BY <1>0, LockSets, ContextParts DEF IInv, TypeOK, LockInv, StackInv, NestInv, Extra, RecordCpu
<1>4. ASSUME NEW k \in Locks PROVE OwnerInv(k)'
  BY <1>0 DEF IInv, TypeOK, OwnerInv, LockInv, RecordCpu
<1>5. ASSUME NEW c \in CPUs PROVE NestInv(c)'
  <2>1. CASE c = t[1]
    <3>1. Top(c)' = t /\ Top(c) = t /\ held[t] \in SUBSET Locks
      BY <1>0, <2>1 DEF TypeOK, Top, RecordCpu
    <3> QED
      BY <1>0, <2>1, <3>1, LockSets DEF IInv, TypeOK, LockInv, NestInv, Extra, RecordCpu
  <2>2. CASE c # t[1]
    <3>1. Top(c)' = Top(c) /\ Top(c) # t /\ Top(c) \in Contexts
      BY <1>0, <2>2, TopContext DEF Top, RecordCpu
    <3> QED
      BY <1>0, <2>2, <3>1 DEF IInv, TypeOK, NestInv, Extra, RecordCpu
  <2> QED
    BY <2>1, <2>2
<1> QED
  BY <1>1, <1>2, <1>3, <1>4, <1>5 DEF IInv

\* The invariant survives release's test of holding.
LEMMA ReleaseCheckStep ==
  ASSUME IInv, NEW t \in Contexts, Running(t), ReleaseCheck(t), TypeOK'
  PROVE  IInv'
<1>0. /\ TypeOK
      /\ t[1] \in CPUs /\ t[2] \in Nat
      /\ level[t[1]] = t[2]
      /\ t = Top(t[1])
  BY ContextParts, RunningTop DEF IInv, Running
<1>1. MutualExclusion'
  BY <1>0 DEF IInv, TypeOK, MutualExclusion, LockInv, ReleaseCheck, holding
<1>2. ASSUME NEW u \in Contexts PROVE LockInv(u)'
  BY <1>0, ContextParts DEF IInv, TypeOK, MutualExclusion, LockInv, StackInv, ReleaseCheck, holding
<1>3. ASSUME NEW u \in Contexts PROVE StackInv(u)'
  BY <1>0, LockSets, ContextParts DEF IInv, TypeOK, LockInv, StackInv, NestInv, Extra, ReleaseCheck, holding
<1>4. ASSUME NEW k \in Locks PROVE OwnerInv(k)'
  BY <1>0 DEF IInv, TypeOK, OwnerInv, LockInv, ReleaseCheck, holding
<1>5. ASSUME NEW c \in CPUs PROVE NestInv(c)'
  <2>1. CASE c = t[1]
    <3>1. Top(c)' = t /\ Top(c) = t /\ held[t] \in SUBSET Locks
      BY <1>0, <2>1 DEF TypeOK, Top, ReleaseCheck, holding
    <3> QED
      BY <1>0, <2>1, <3>1, LockSets DEF IInv, TypeOK, LockInv, NestInv, Extra, ReleaseCheck, holding
  <2>2. CASE c # t[1]
    <3>1. Top(c)' = Top(c) /\ Top(c) # t /\ Top(c) \in Contexts
      BY <1>0, <2>2, TopContext DEF Top, ReleaseCheck, holding
    <3> QED
      BY <1>0, <2>2, <3>1 DEF IInv, TypeOK, NestInv, Extra, ReleaseCheck, holding
  <2> QED
    BY <2>1, <2>2
<1> QED
  BY <1>1, <1>2, <1>3, <1>4, <1>5 DEF IInv

\* The invariant survives release clearing lk->cpu.
LEMMA ClearCpuStep ==
  ASSUME IInv, NEW t \in Contexts, Running(t), ClearCpu(t), TypeOK'
  PROVE  IInv'
<1>0. /\ TypeOK
      /\ t[1] \in CPUs /\ t[2] \in Nat
      /\ level[t[1]] = t[2]
      /\ t = Top(t[1])
  BY ContextParts, RunningTop DEF IInv, Running
<1>1. MutualExclusion'
  BY <1>0 DEF IInv, TypeOK, MutualExclusion, LockInv, ClearCpu
<1>2. ASSUME NEW u \in Contexts PROVE LockInv(u)'
  BY <1>0, ContextParts DEF IInv, TypeOK, MutualExclusion, LockInv, StackInv, ClearCpu
<1>3. ASSUME NEW u \in Contexts PROVE StackInv(u)'
  BY <1>0, LockSets, ContextParts DEF IInv, TypeOK, LockInv, StackInv, NestInv, Extra, ClearCpu
<1>4. ASSUME NEW k \in Locks PROVE OwnerInv(k)'
  BY <1>0 DEF IInv, TypeOK, OwnerInv, LockInv, ClearCpu
<1>5. ASSUME NEW c \in CPUs PROVE NestInv(c)'
  <2>1. CASE c = t[1]
    <3>1. Top(c)' = t /\ Top(c) = t /\ held[t] \in SUBSET Locks
      BY <1>0, <2>1 DEF TypeOK, Top, ClearCpu
    <3> QED
      BY <1>0, <2>1, <3>1, LockSets DEF IInv, TypeOK, LockInv, NestInv, Extra, ClearCpu
  <2>2. CASE c # t[1]
    <3>1. Top(c)' = Top(c) /\ Top(c) # t /\ Top(c) \in Contexts
      BY <1>0, <2>2, TopContext DEF Top, ClearCpu
    <3> QED
      BY <1>0, <2>2, <3>1 DEF IInv, TypeOK, NestInv, Extra, ClearCpu
  <2> QED
    BY <2>1, <2>2
<1> QED
  BY <1>1, <1>2, <1>3, <1>4, <1>5 DEF IInv

\* The invariant survives the movl of release.
LEMMA UnlockStep ==
  ASSUME IInv, NEW t \in Contexts, Running(t), Unlock(t), TypeOK'
  PROVE  IInv'
<1>0. /\ TypeOK
      /\ t[1] \in CPUs /\ t[2] \in Nat
      /\ level[t[1]] = t[2]
      /\ t = Top(t[1])
  BY ContextParts, RunningTop DEF IInv, Running
<1>1. MutualExclusion'
  BY <1>0 DEF IInv, TypeOK, MutualExclusion, LockInv, Unlock
<1>2. ASSUME NEW u \in Contexts PROVE LockInv(u)'
  BY <1>0, ContextParts DEF IInv, TypeOK, MutualExclusion, LockInv, StackInv, Unlock
<1>3. ASSUME NEW u \in Contexts PROVE StackInv(u)'
  BY <1>0, LockSets, ContextParts DEF IInv, TypeOK, LockInv, StackInv, NestInv, Extra, Unlock
<1>4. ASSUME NEW k \in Locks PROVE OwnerInv(k)'
  BY <1>0 DEF IInv, TypeOK, OwnerInv, LockInv, Unlock
<1>5. ASSUME NEW c \in CPUs PROVE NestInv(c)'
  <2>1. CASE c = t[1]
    <3>1. Top(c)' = t /\ Top(c) = t /\ held[t] \in SUBSET Locks
      BY <1>0, <2>1 DEF TypeOK, Top, Unlock
    <3>2. lk[t] \in held[t] /\ held'[t] = held[t] \ {lk[t]}
      BY <1>0 DEF IInv, TypeOK, LockInv, Unlock
    <3>3. Cardinality(held'[t]) = Cardinality(held[t]) - 1 /\ Cardinality(held[t]) \in Nat
      BY <3>1, <3>2, LockSets
    <3>4. Extra(t) = 0 /\ Extra(t)' = 1
      BY <1>0 DEF TypeOK, Extra, Unlock
    <3>5. UNCHANGED <<ncli, FL_IF, level, intena>>
      BY DEF Unlock
    <3> QED
      BY <1>0, <2>1, <3>1, <3>3, <3>4, <3>5 DEF IInv, NestInv
  <2>2. CASE c # t[1]
    <3>1. Top(c)' = Top(c) /\ Top(c) # t /\ Top(c) \in Contexts
      BY <1>0, <2>2, TopContext DEF Top, Unlock
    <3> QED
      BY <1>0, <2>2, <3>1 DEF IInv, TypeOK, NestInv, Extra, Unlock
  <2> QED
    BY <2>1, <2>2
<1> QED
  BY <1>1, <1>2, <1>3, <1>4, <1>5 DEF IInv

\* The invariant survives myproc.
LEMMA CallMyprocStep ==
  ASSUME IInv, NEW t \in Contexts, Running(t), CallMyproc(t), TypeOK'
  PROVE  IInv'
<1>0. /\ TypeOK
      /\ t[1] \in CPUs /\ t[2] \in Nat
      /\ level[t[1]] = t[2]
      /\ t = Top(t[1])
  BY ContextParts, RunningTop DEF IInv, Running
<1>1. MutualExclusion'
  BY <1>0 DEF IInv, TypeOK, MutualExclusion, LockInv, CallMyproc
<1>2. ASSUME NEW u \in Contexts PROVE LockInv(u)'
  BY <1>0, ContextParts DEF IInv, TypeOK, MutualExclusion, LockInv, StackInv, CallMyproc
<1>3. ASSUME NEW u \in Contexts PROVE StackInv(u)'
  BY <1>0, LockSets, ContextParts DEF IInv, TypeOK, LockInv, StackInv, NestInv, Extra, CallMyproc
<1>4. ASSUME NEW k \in Locks PROVE OwnerInv(k)'
  BY <1>0 DEF IInv, TypeOK, OwnerInv, LockInv, CallMyproc
<1>5. ASSUME NEW c \in CPUs PROVE NestInv(c)'
  <2>1. CASE c = t[1]
    <3>1. Top(c)' = t /\ Top(c) = t /\ held[t] \in SUBSET Locks
      BY <1>0, <2>1 DEF TypeOK, Top, CallMyproc
    <3> QED
      BY <1>0, <2>1, <3>1, LockSets DEF IInv, TypeOK, LockInv, NestInv, Extra, CallMyproc
  <2>2. CASE c # t[1]
    <3>1. Top(c)' = Top(c) /\ Top(c) # t /\ Top(c) \in Contexts
      BY <1>0, <2>2, TopContext DEF Top, CallMyproc
    <3> QED
      BY <1>0, <2>2, <3>1 DEF IInv, TypeOK, NestInv, Extra, CallMyproc
  <2> QED
    BY <2>1, <2>2
<1> QED
  BY <1>1, <1>2, <1>3, <1>4, <1>5 DEF IInv

\* The invariant survives the return from an interrupt.
LEMMA IretStep ==
  ASSUME IInv, NEW t \in Contexts, Running(t), Iret(t), TypeOK'
  PROVE  IInv'
<1>0. /\ TypeOK
      /\ t[1] \in CPUs /\ t[2] \in Nat
      /\ level[t[1]] = t[2]
      /\ t = Top(t[1])
  BY ContextParts, RunningTop DEF IInv, Running
<1>1. MutualExclusion'
  BY <1>0 DEF IInv, TypeOK, MutualExclusion, LockInv, Iret
<1>2. ASSUME NEW u \in Contexts PROVE LockInv(u)'
  BY <1>0, ContextParts DEF IInv, TypeOK, MutualExclusion, LockInv, StackInv, Iret
<1>3. ASSUME NEW u \in Contexts PROVE StackInv(u)'
  <2>1. u[1] \in CPUs /\ u[2] \in Nat /\ (u = t <=> u[1] = t[1] /\ u[2] = t[2])
    BY ContextParts
  <2> QED
    BY <1>0, <2>1 DEF IInv, TypeOK, LockInv, StackInv, NestInv, Extra, Iret
<1>4. ASSUME NEW k \in Locks PROVE OwnerInv(k)'
  BY <1>0 DEF IInv, TypeOK, OwnerInv, LockInv, Iret
<1>5. ASSUME NEW c \in CPUs PROVE NestInv(c)'
  <2>1. CASE c = t[1]
    <3>1. /\ level[c] = 1 /\ level'[c] = 0
          /\ FL_IF'[c] = 1 /\ ncli'[c] = ncli[c]
      BY <1>0, <2>1 DEF IInv, TypeOK, NestInv, Iret
    <3>2. <<c, 0>> \in Contexts /\ Top(c)' = <<c, 0>>
      BY <3>1, SpinlockAssumption DEF Top, Contexts, Levels
    <3>3. held'[<<c, 0>>] = {} /\ Extra(<<c, 0>>)' = 0
      BY <3>1, <3>2 DEF IInv, StackInv, Extra, Iret
    <3>4. ncli[c] = 0
      BY <1>0, <2>1, LockSets DEF IInv, NestInv, Extra, Iret
    <3> QED
      BY <3>1, <3>2, <3>3, <3>4, LockSets DEF NestInv
  <2>2. CASE c # t[1]
    <3>1. Top(c)' = Top(c) /\ level'[c] = level[c] /\ FL_IF'[c] = FL_IF[c]
      BY <1>0, <2>2 DEF TypeOK, Top, Iret
    <3> QED
      BY <3>1 DEF IInv, NestInv, Extra, Iret
  <2> QED
    BY <2>1, <2>2
<1> QED
  BY <1>1, <1>2, <1>3, <1>4, <1>5 DEF IInv

\* The invariant survives a call of acquire.
LEMMA CallAcquireStep ==
  ASSUME IInv, NEW t \in Contexts, Running(t), NEW j \in Locks, CallAcquire(t, j), TypeOK'
  PROVE  IInv'
<1>0. /\ TypeOK
      /\ t[1] \in CPUs /\ t[2] \in Nat
      /\ level[t[1]] = t[2]
      /\ t = Top(t[1])
  BY ContextParts, RunningTop DEF IInv, Running
<1>a. j \notin held[t]
  BY DEF CallAcquire, Locks
<1>1. MutualExclusion'
  BY <1>0 DEF IInv, TypeOK, MutualExclusion, LockInv, CallAcquire
<1>2. ASSUME NEW u \in Contexts PROVE LockInv(u)'
  BY <1>0, <1>a, ContextParts DEF IInv, TypeOK, MutualExclusion, LockInv, StackInv, CallAcquire
<1>3. ASSUME NEW u \in Contexts PROVE StackInv(u)'
  BY <1>0, LockSets, ContextParts DEF IInv, TypeOK, LockInv, StackInv, NestInv, Extra, CallAcquire
<1>4. ASSUME NEW k \in Locks PROVE OwnerInv(k)'
  BY <1>0 DEF IInv, TypeOK, OwnerInv, LockInv, CallAcquire
<1>5. ASSUME NEW c \in CPUs PROVE NestInv(c)'
  <2>1. CASE c = t[1]
    <3>1. Top(c)' = t /\ Top(c) = t /\ held[t] \in SUBSET Locks
      BY <1>0, <2>1 DEF TypeOK, Top, CallAcquire
    <3> QED
      BY <1>0, <2>1, <3>1, LockSets DEF IInv, TypeOK, LockInv, NestInv, Extra, CallAcquire
  <2>2. CASE c # t[1]
    <3>1. Top(c)' = Top(c) /\ Top(c) # t /\ Top(c) \in Contexts
      BY <1>0, <2>2, TopContext DEF Top, CallAcquire
    <3> QED
      BY <1>0, <2>2, <3>1 DEF IInv, TypeOK, NestInv, Extra, CallAcquire
  <2> QED
    BY <2>1, <2>2
<1> QED
  BY <1>1, <1>2, <1>3, <1>4, <1>5 DEF IInv

\* The invariant survives a call of release.
LEMMA CallReleaseStep ==
  ASSUME IInv, NEW t \in Contexts, Running(t), NEW j \in Locks, CallRelease(t, j), TypeOK'
  PROVE  IInv'
<1>0. /\ TypeOK
      /\ t[1] \in CPUs /\ t[2] \in Nat
      /\ level[t[1]] = t[2]
      /\ t = Top(t[1])
  BY ContextParts, RunningTop DEF IInv, Running
<1>1. MutualExclusion'
  BY <1>0 DEF IInv, TypeOK, MutualExclusion, LockInv, CallRelease
<1>2. ASSUME NEW u \in Contexts PROVE LockInv(u)'
  BY <1>0, ContextParts DEF IInv, TypeOK, MutualExclusion, LockInv, StackInv, CallRelease
<1>3. ASSUME NEW u \in Contexts PROVE StackInv(u)'
  BY <1>0, LockSets, ContextParts DEF IInv, TypeOK, LockInv, StackInv, NestInv, Extra, CallRelease
<1>4. ASSUME NEW k \in Locks PROVE OwnerInv(k)'
  BY <1>0 DEF IInv, TypeOK, OwnerInv, LockInv, CallRelease
<1>5. ASSUME NEW c \in CPUs PROVE NestInv(c)'
  <2>1. CASE c = t[1]
    <3>1. Top(c)' = t /\ Top(c) = t /\ held[t] \in SUBSET Locks
      BY <1>0, <2>1 DEF TypeOK, Top, CallRelease
    <3> QED
      BY <1>0, <2>1, <3>1, LockSets DEF IInv, TypeOK, LockInv, NestInv, Extra, CallRelease
  <2>2. CASE c # t[1]
    <3>1. Top(c)' = Top(c) /\ Top(c) # t /\ Top(c) \in Contexts
      BY <1>0, <2>2, TopContext DEF Top, CallRelease
    <3> QED
      BY <1>0, <2>2, <3>1 DEF IInv, TypeOK, NestInv, Extra, CallRelease
  <2> QED
    BY <2>1, <2>2
<1> QED
  BY <1>1, <1>2, <1>3, <1>4, <1>5 DEF IInv

\* The invariant survives an interrupt.
LEMMA InterruptStep ==
  ASSUME IInv, NEW d \in CPUs, Interrupt(d), TypeOK'
  PROVE  IInv'
<1>0. /\ TypeOK
      /\ level[d] = 0 /\ ncli[d] = 0 /\ level' = [level EXCEPT ![d] = 1]
      /\ Top(d) \in Contexts /\ Top(d) = <<d, 0>>
      /\ held[Top(d)] = {} /\ Extra(Top(d)) = 0
  <2>1. TypeOK /\ Top(d) \in Contexts /\ held[Top(d)] \in SUBSET Locks
    BY TopContext DEF IInv, TypeOK
  <2>2. level[d] = 0 /\ ncli[d] = 0
    BY <2>1 DEF IInv, TypeOK, NestInv, Interrupt
  <2>3. Cardinality(held[Top(d)]) = 0 /\ Extra(Top(d)) = 0
    BY <2>1, <2>2, LockSets DEF IInv, NestInv, Extra
  <2> QED
    BY <2>1, <2>2, <2>3, LockSets DEF Top, TypeOK, Interrupt
<1>1. MutualExclusion'
  BY <1>0 DEF IInv, MutualExclusion, Interrupt
<1>2. ASSUME NEW u \in Contexts PROVE LockInv(u)'
  BY <1>0 DEF IInv, LockInv, Interrupt
<1>3. ASSUME NEW u \in Contexts PROVE StackInv(u)'
  <2>1. u[1] \in CPUs /\ u[2] \in Nat /\ (u = Top(d) <=> u[1] = d /\ u[2] = 0)
    BY <1>0, ContextParts
  <2>2. pc[Top(d)] \in PCs \ {"a_hold", "a_xchg", "r_pop", "m_in"}
    BY <1>0 DEF TypeOK, Extra
  <2>3. pc[Top(d)] \notin {"a_cpu", "r_hold", "r_cpu", "r_unlock", "panic"}
    BY <1>0 DEF IInv, LockInv, StackInv
  <2> QED
    BY <1>0, <2>1, <2>2, <2>3 DEF IInv, TypeOK, StackInv, Interrupt, PCs
<1>4. ASSUME NEW k \in Locks PROVE OwnerInv(k)'
  BY <1>0 DEF IInv, OwnerInv, Interrupt
<1>5. ASSUME NEW c \in CPUs PROVE NestInv(c)'
  <2>1. CASE c = d
    <3>1. <<d, 1>> \in Contexts /\ Top(c)' = <<d, 1>>
      BY <1>0, <2>1, SpinlockAssumption DEF TypeOK, Contexts, Levels, Top
    <3>2. held[<<d, 1>>] = {} /\ pc[<<d, 1>>] = "run"
      BY <1>0, <3>1 DEF IInv, StackInv
    <3> QED
      BY <1>0, <2>1, <3>1, <3>2, LockSets DEF TypeOK, NestInv, Extra, Interrupt
  <2>2. CASE c # d
    <3>1. Top(c)' = Top(c) /\ level'[c] = level[c]
      BY <1>0, <2>2 DEF TypeOK, Top
    <3> QED
      BY <1>0, <2>2, <3>1 DEF IInv, TypeOK, NestInv, Extra, Interrupt
  <2> QED
    BY <2>1, <2>2
<1> QED
  BY <1>1, <1>2, <1>3, <1>4, <1>5 DEF IInv

\* A step that changes nothing keeps the invariant.
LEMMA StutterStep == IInv /\ UNCHANGED vars => IInv'
BY DEF IInv, TypeOK, MutualExclusion, LockInv, StackInv, OwnerInv, NestInv, Extra, Top, vars

\* Every step keeps the invariant.
LEMMA NextInv == IInv /\ [Next]_vars => IInv'
<1> SUFFICES ASSUME IInv, [Next]_vars PROVE IInv'
  OBVIOUS
<1>0. TypeOK'
  BY TypeStep
<1>1. ASSUME NEW t \in Contexts, Step(t) PROVE IInv'
  BY <1>0, <1>1, ReadEflagsStep, CliStep, PopcliStep, CallAcquireStep, AcquireCheckStep,
     XchgStep, RecordCpuStep, CallReleaseStep, ReleaseCheckStep, ClearCpuStep,
     UnlockStep, CallMyprocStep, IretStep DEF Step
<1>2. ASSUME NEW c \in CPUs, Interrupt(c) PROVE IInv'
  BY <1>0, <1>2, InterruptStep
<1>3. CASE UNCHANGED vars
  BY <1>3, StutterStep
<1> QED
  BY <1>1, <1>2, <1>3 DEF Next

\* The invariant always holds.
LEMMA Inductive == Spec => []IInv
BY InitInv, NextInv, PTL DEF Spec

-----------------------------------------------------------------------------
(***************************************************************************)
(* Type correctness of spinlock.c's state, for any number of CPUs, locks   *)
(* and nested interrupts.                                                  *)
(***************************************************************************)
THEOREM TypeCorrect == Spec => []TypeOK
<1>1. IInv => TypeOK
  BY DEF IInv
<1> QED
  BY <1>1, Inductive, PTL

(***************************************************************************)
(* acquire and release give mutual exclusion between all contexts of all   *)
(* CPUs, interrupt handlers included (spinlock.c:25-68).                   *)
(***************************************************************************)
THEOREM MutualExclusionHolds == Spec => []MutualExclusion
<1>1. IInv => MutualExclusion
  BY DEF IInv
<1> QED
  BY <1>1, Inductive, PTL

(***************************************************************************)
(* No panic of acquire, release or popcli is reachable from paired calls   *)
(* (spinlock.c:28-29, 49-50, 119-122).                                     *)
(***************************************************************************)
THEOREM NoPanicHolds == Spec => []NoPanic
<1>1. IInv => NoPanic
  BY DEF IInv, NoPanic, StackInv
<1> QED
  BY <1>1, Inductive, PTL

(***************************************************************************)
(* Code suspended by an interrupt holds no spin lock, so a handler never   *)
(* spins on its own CPU (spinlock.c:27).                                   *)
(***************************************************************************)
THEOREM InterruptedHoldsNothingHolds == Spec => []InterruptedHoldsNothing
<1>1. IInv => InterruptedHoldsNothing
  BY DEF IInv, InterruptedHoldsNothing, StackInv
<1> QED
  BY <1>1, Inductive, PTL

(***************************************************************************)
(* pushcli and popcli are matched: ncli counts the held locks, and the     *)
(* interrupt flag is back where it was once the last one is released       *)
(* (spinlock.c:100-125).                                                   *)
(***************************************************************************)
THEOREM FlagRestoredHolds == Spec => []FlagRestored
<1>1. ASSUME IInv PROVE FlagRestored
  <2> SUFFICES ASSUME NEW t \in Contexts, Running(t), pc[t] = "run"
               PROVE  /\ ncli[t[1]] = Cardinality(held[t])
                      /\ FL_IF[t[1]] = 1 <=> (t[2] = 0 /\ held[t] = {})
    BY DEF FlagRestored
  <2>1. t = Top(t[1]) /\ t[1] \in CPUs /\ level[t[1]] = t[2]
    BY <1>1, ContextParts, RunningTop DEF IInv, Running
  <2>2. held[t] \in SUBSET Locks
    BY <1>1 DEF IInv, TypeOK
  <2> QED
    BY <1>1, <2>1, <2>2, LockSets DEF IInv, TypeOK, NestInv, Extra
<1> QED
  BY <1>1, Inductive, PTL
=============================================================================
