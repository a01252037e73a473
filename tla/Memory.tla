------------------------------- MODULE Memory -------------------------------
(***************************************************************************)
(* Physical pages of xv6 and who owns them: the allocator (kalloc.c), the  *)
(* start of the machine and of the other CPUs (main.c), address spaces     *)
(* (vm.c) and the calls that build, grow, shrink and free them: fork,      *)
(* growproc, exec, exit and wait (proc.c, exec.c), with every failure.     *)
(*                                                                         *)
(* A call of kalloc is one step once use_lock is set.  freevm is one step: *)
(* others see its pages come back one by one only in what they can get.    *)
(***************************************************************************)
EXTENDS Integers, FiniteSets

CONSTANTS
  NPROC,       \* process slots; 1 is init
  NAPS,        \* CPUs that startothers starts
  NLow, NHigh, \* pages that kinit1 and kinit2 free
  PGSIZE,      \* bytes of a page
  PTPAGES,     \* pages that one page table maps
  MaxPages,    \* pages of user memory (KERNBASE / PGSIZE)
  StackPages,  \* pages exec adds: the guard page and the stack
  ShrinkSizes  \* the sizes to which programs shrink with sbrk

ASSUME MemoryAssumption ==
  /\ NPROC \in Nat \ {0} /\ NAPS \in Nat /\ NLow \in Nat /\ NHigh \in Nat
  /\ PGSIZE \in Nat \ {0} /\ PTPAGES \in Nat \ {0} /\ MaxPages \in Nat \ {0, 1}
  /\ StackPages \in 1..MaxPages /\ ShrinkSizes \subseteq Nat

Procs   == 1..NPROC
APs     == 1..NAPS
Pages   == 1..(NLow + NHigh)
Nil     == 0
PageNos == 0..(MaxPages - 1)
Tables  == {i \div PTPAGES : i \in PageNos}
KTable  == -1    \* the table of the kernel's part, which setupkvm makes

VARIABLES
  free,     \* the pages on kmem.freelist; which of them is first makes no difference
  useLock,  \* kmem.use_lock
  boot,     \* how far main is: pc, the AP it starts, the list that kinit2 saw
  kvm,      \* kpgdir and its table
  code4,    \* the stack for the AP that starts, at code-4
  aps,      \* of each AP: pc and stack
  state, kstack, sz, space,  \* of each process slot; space: its page table
  cr3,      \* of each process: the page directory its CPU uses
  job       \* of each process: the call under way and its locals

vars == <<free, useLock, boot, kvm, code4, aps, state, kstack, sz, space, cr3, job>>
cpus == <<useLock, boot, kvm, code4, aps>>

\* A page table: directory, tables, user pages.
NoSpace == [pgdir |-> Nil, tabs |-> [t \in Tables \cup {KTable} |-> Nil], pg |-> [a \in PageNos |-> Nil]]
NoJob   == [op |-> "none", pc |-> "idle", child |-> Nil, new |-> NoSpace, at |-> 0, size |-> 0,
            mem |-> Nil]

Init ==
  /\ free = 1..NLow
  /\ useLock = FALSE
  /\ boot = [pc |-> "kvmalloc", ap |-> 1, seen |-> {}]
  /\ kvm = NoSpace /\ code4 = Nil
  /\ aps = [c \in APs |-> [pc |-> "off", stack |-> Nil]]
  /\ state = [p \in Procs |-> "unused"]
  /\ kstack = [p \in Procs |-> Nil]
  /\ sz = [p \in Procs |-> 0]
  /\ space = [p \in Procs |-> NoSpace]
  /\ cr3 = [p \in Procs |-> Nil]
  /\ job = [p \in Procs |-> NoJob]

\* The i-th page that kalloc returns from now on.
kalloc(i) == CHOOSE p \in free : Cardinality({q \in free : q < p}) = i - 1

PagesOf(s) == ({s.pgdir} \cup {s.tabs[t] : t \in DOMAIN s.tabs} \cup {s.pg[a] : a \in PageNos}) \ {Nil}

KERNBASE == MaxPages * PGSIZE
Fits(newsz) == newsz < KERNBASE

PGROUNDUP(n) == (n + PGSIZE - 1) \div PGSIZE   \* in pages
\* The user pages that a process of size n has.
Sized(n) == 0..(PGROUNDUP(n) - 1)

-----------------------------------------------------------------------------
(***************************************************************************)
(* main, on the boot CPU, and mpenter, on the others                       *)
(***************************************************************************)
\* Nobody looks whether setupkvm has failed: main goes on with kpgdir = 0.
kvmalloc ==
  /\ boot.pc = "kvmalloc"
  /\ IF Cardinality(free) >= 2
       THEN /\ kvm' = [NoSpace EXCEPT !.pgdir = kalloc(1), !.tabs[KTable] = kalloc(2)]
            /\ free' = free \ {kalloc(1), kalloc(2)}
       ELSE UNCHANGED <<kvm, free>>
  /\ boot' = [boot EXCEPT !.pc = "startothers"]
  /\ UNCHANGED <<useLock, code4, aps, state, kstack, sz, space, cr3, job>>

\* What main does when it has started every CPU, and after that.
AfterOthers_UserFirst == "userinit"  \* mutant: userinit comes before kinit2
AfterOthers == "kinit2"

\* Nor whether kalloc has: the CPU is started with a stack at 0.
startothers ==
  /\ boot.pc = "startothers" /\ boot.ap \in APs
  /\ code4' = IF free = {} THEN Nil ELSE kalloc(1)
  /\ free' = free \ {code4'}
  /\ aps' = [aps EXCEPT ![boot.ap].pc = "entry"]
  /\ boot' = [boot EXCEPT !.pc = "wait"]
  /\ UNCHANGED <<useLock, kvm, state, kstack, sz, space, cr3, job>>

started == aps[boot.ap].pc = "sched"

startnext ==
  /\ boot.pc = "wait" /\ started
  /\ boot' = [boot EXCEPT !.pc = "startothers", !.ap = @ + 1]
  /\ UNCHANGED <<free, useLock, kvm, code4, aps, state, kstack, sz, space, cr3, job>>

allstarted ==
  /\ boot.pc = "startothers" /\ boot.ap \notin APs
  /\ boot' = [boot EXCEPT !.pc = AfterOthers]
  /\ UNCHANGED <<free, useLock, kvm, code4, aps, state, kstack, sz, space, cr3, job>>

\* entryother.S loads the stack that code-4 names.
entryother(c) ==
  /\ aps[c].pc = "entry"
  /\ aps' = [aps EXCEPT ![c] = [pc |-> "mpenter", stack |-> code4]]
  /\ code4' = Nil   \* nobody looks at it any more
  /\ UNCHANGED <<free, useLock, boot, kvm, state, kstack, sz, space, cr3, job>>

mpenter(c) ==
  /\ aps[c].pc = "mpenter"
  /\ aps' = [aps EXCEPT ![c].pc = "sched"]
  /\ UNCHANGED <<free, useLock, boot, kvm, code4, state, kstack, sz, space, cr3, job>>

\* kfree without the lock: r->next = kmem.freelist, and then kmem.freelist = r.
kinit2_read ==
  /\ boot.pc = "kinit2"
  /\ boot' = [boot EXCEPT !.pc = "kinit2_write", !.seen = free]
  /\ UNCHANGED <<free, useLock, kvm, code4, aps, state, kstack, sz, space, cr3, job>>

kinit2_write ==
  /\ boot.pc = "kinit2_write"
  /\ free' = boot.seen \cup ((NLow + 1)..(NLow + NHigh))
  /\ useLock' = TRUE
  /\ boot' = [boot EXCEPT !.pc = IF state[1] = "unused" THEN "userinit" ELSE "sched", !.seen = {}]
  /\ UNCHANGED <<kvm, code4, aps, state, kstack, sz, space, cr3, job>>

\* allocproc, setupkvm and inituvm; from here on any CPU runs the process.
\* With fewer than five pages main stops here, in a panic or a fault.
userinit ==
  LET s == [NoSpace EXCEPT !.pgdir = kalloc(2), !.tabs[KTable] = kalloc(3), !.tabs[0] = kalloc(5),
                           !.pg[0] = kalloc(4)] IN
  /\ boot.pc = "userinit" /\ Cardinality(free) >= 5
  /\ kstack' = [kstack EXCEPT ![1] = kalloc(1)]
  /\ space' = [space EXCEPT ![1] = s]
  /\ free' = free \ (PagesOf(s) \cup {kalloc(1)})
  /\ state' = [state EXCEPT ![1] = "alive"]
  /\ sz' = [sz EXCEPT ![1] = PGSIZE]
  /\ cr3' = [cr3 EXCEPT ![1] = s.pgdir]
  /\ boot' = [boot EXCEPT !.pc = IF useLock THEN "sched" ELSE "kinit2"]
  /\ UNCHANGED <<useLock, kvm, code4, aps, job>>

-----------------------------------------------------------------------------
(***************************************************************************)
(* Calls of a process.  job.new is the page table under construction, and  *)
(* for growproc the process's own.                                         *)
(***************************************************************************)
Idle(p) == state[p] = "alive" /\ job[p].pc = "idle"
AtPc(p, label) == state[p] = "alive" /\ job[p].pc = label

\* The number of pages that allocuvm and copyuvm map in all.
Target(j) == PGROUNDUP(j.size)

\* fork: allocproc takes a slot, then a kernel stack.
fork(p) ==
  /\ Idle(p)
  /\ \E q \in Procs :
       /\ state[q] = "unused" /\ \A r \in 1..(q - 1) : state[r] # "unused"
       /\ state' = [state EXCEPT ![q] = "embryo"]
       /\ job' = [job EXCEPT ![p] = [NoJob EXCEPT !.op = "fork", !.pc = "kstack", !.child = q, !.size = sz[p]]]
  /\ UNCHANGED <<free, cpus, kstack, sz, space, cr3>>

allocproc(p) ==
  LET q == job[p].child IN
  /\ AtPc(p, "kstack")
  /\ IF free = {}
       THEN /\ state' = [state EXCEPT ![q] = "unused"]
            /\ job' = [job EXCEPT ![p] = NoJob]
            /\ UNCHANGED <<free, kstack>>
       ELSE /\ kstack' = [kstack EXCEPT ![q] = kalloc(1)]
            /\ free' = free \ {kalloc(1)}
            /\ job' = [job EXCEPT ![p].pc = "setupkvm"]
            /\ UNCHANGED state
  /\ UNCHANGED <<cpus, sz, space, cr3>>

\* exec of a file with a segment of n bytes; one that does not fit is an exec_error.
exec(p, n) ==
  /\ Idle(p) /\ Fits((PGROUNDUP(n) + StackPages) * PGSIZE)
  /\ job' = [job EXCEPT ![p] = [NoJob EXCEPT !.op = "exec", !.pc = "setupkvm",
                                             !.size = (PGROUNDUP(n) + StackPages) * PGSIZE]]
  /\ UNCHANGED <<free, cpus, state, kstack, sz, space, cr3>>

\* growproc(n), n > 0.  With no room below KERNBASE it fails at once.
grow(p, n) ==
  /\ Idle(p) /\ n > 0 /\ Fits(sz[p] + n)
  /\ job' = [job EXCEPT ![p] = [NoJob EXCEPT !.op = "grow", !.pc = "page", !.new = space[p],
                                             !.at = PGROUNDUP(sz[p]),
                                             !.size = sz[p] + n]]
  /\ UNCHANGED <<free, cpus, state, kstack, sz, space, cr3>>

\* deallocuvm(pgdir, oldsz, newsz): the table without the pages from newsz on.
Dealloc(s, newsz) == [s EXCEPT !.pg = [a \in PageNos |-> IF a \in Sized(newsz) THEN @[a] ELSE Nil]]

\* growproc(n), n < 0, to a size of newsz bytes.  deallocuvm returns newsz, and
\* growproc takes 0 for a failure: it returns with the pages gone.
shrink(p, newsz) ==
  /\ Idle(p) /\ newsz < sz[p]
  /\ space' = [space EXCEPT ![p] = Dealloc(@, newsz)]
  /\ free' = free \cup (PagesOf(space[p]) \ PagesOf(Dealloc(space[p], newsz)))
  /\ IF newsz = 0
       THEN UNCHANGED <<sz, cr3>>
       ELSE sz' = [sz EXCEPT ![p] = newsz] /\ cr3' = [cr3 EXCEPT ![p] = space[p].pgdir]
  /\ UNCHANGED <<cpus, state, kstack, job>>

\* setupkvm: the directory and the table of the kernel's part.
setupkvm(p) ==
  /\ AtPc(p, "setupkvm")
  /\ IF free = {}
       THEN /\ job' = [job EXCEPT ![p].pc = "bad"]
            /\ UNCHANGED free
       ELSE /\ job' = [job EXCEPT ![p].pc = "kmap", ![p].new = [@ EXCEPT !.pgdir = kalloc(1)]]
            /\ free' = free \ {kalloc(1)}
  /\ UNCHANGED <<cpus, state, kstack, sz, space, cr3>>

kmap(p) ==
  /\ AtPc(p, "kmap")
  /\ IF free = {}
       THEN /\ job' = [job EXCEPT ![p].pc = "bad"]
            /\ UNCHANGED free
       ELSE /\ job' = [job EXCEPT ![p].pc = "page", ![p].new = [@ EXCEPT !.tabs[KTable] = kalloc(1)]]
            /\ free' = free \ {kalloc(1)}
  /\ UNCHANGED <<cpus, state, kstack, sz, space, cr3>>

\* A page of allocuvm or copyuvm, which panics if the parent has no such page ...
Missing(p) == job[p].op = "fork" /\ space[p].pg[job[p].at] = Nil

uvm_page(p) ==
  /\ AtPc(p, "page") /\ job[p].at < Target(job[p])
  /\ IF free = {} \/ Missing(p)
       THEN /\ job' = [job EXCEPT ![p].pc = IF Missing(p) THEN "panic" ELSE "bad"]
            /\ UNCHANGED free
       ELSE /\ job' = [job EXCEPT ![p].pc = "map", ![p].mem = kalloc(1)]
            /\ free' = free \ {kalloc(1)}
  /\ UNCHANGED <<cpus, state, kstack, sz, space, cr3>>

\* ... and mappages, in which walkpgdir may need a table.
mappages(p) ==
  LET j == job[p]
      t == j.at \div PTPAGES
      s == IF j.new.tabs[t] = Nil /\ free # {} THEN [j.new EXCEPT !.tabs[t] = kalloc(1)] ELSE j.new
      m == [s EXCEPT !.pg[j.at] = j.mem] IN
  /\ AtPc(p, "map")
  /\ free' = free \ PagesOf(s)
  /\ IF s.tabs[t] = Nil
       THEN /\ job' = [job EXCEPT ![p].pc = "kfree"]
            /\ UNCHANGED space
       ELSE /\ job' = [job EXCEPT ![p] = [j EXCEPT !.pc = "page", !.new = m, !.at = @ + 1, !.mem = Nil]]
            /\ space' = IF j.op = "grow" THEN [space EXCEPT ![p] = m] ELSE space
  /\ UNCHANGED <<cpus, state, kstack, sz, cr3>>

\* The page that could not be mapped.
unmapped(p) ==
  /\ AtPc(p, "kfree")
  /\ free' = free \cup {job[p].mem}
  /\ job' = [job EXCEPT ![p].pc = "bad", ![p].mem = Nil]
  /\ UNCHANGED <<cpus, state, kstack, sz, space, cr3>>

\* exec gives up at any time because of the file or of its arguments.
exec_error(p) ==
  /\ AtPc(p, "page") /\ job[p].op = "exec"
  /\ job' = [job EXCEPT ![p].pc = "bad"]
  /\ UNCHANGED <<free, cpus, state, kstack, sz, space, cr3>>

\* fork and exec free the new page table, fork the kernel stack and the slot.
bad_new(p) ==
  LET j == job[p] IN
  /\ AtPc(p, "bad") /\ j.op # "grow"
  /\ free' = free \cup PagesOf(j.new) \cup (IF j.op = "fork" THEN {kstack[j.child]} ELSE {})
  /\ kstack' = IF j.op = "fork" THEN [kstack EXCEPT ![j.child] = Nil] ELSE kstack
  /\ state' = IF j.op = "fork" THEN [state EXCEPT ![j.child] = "unused"] ELSE state
  /\ job' = [job EXCEPT ![p] = NoJob]
  /\ UNCHANGED <<cpus, sz, space, cr3>>

\* allocuvm undoes what it did: deallocuvm(pgdir, newsz, oldsz).
bad_grow_Kept(p) ==  \* mutant: allocuvm returns without deallocuvm
  /\ AtPc(p, "bad") /\ job[p].op = "grow"
  /\ job' = [job EXCEPT ![p] = NoJob]
  /\ UNCHANGED <<free, cpus, state, kstack, sz, space, cr3>>
bad_grow(p) ==
  /\ AtPc(p, "bad") /\ job[p].op = "grow"
  /\ space' = [space EXCEPT ![p] = Dealloc(@, sz[p])]
  /\ free' = free \cup (PagesOf(space[p]) \ PagesOf(Dealloc(space[p], sz[p])))
  /\ job' = [job EXCEPT ![p] = NoJob]
  /\ UNCHANGED <<cpus, state, kstack, sz, cr3>>

Built(p) == AtPc(p, "page") /\ job[p].at >= Target(job[p])

fork_done(p) ==
  LET j == job[p] IN
  /\ Built(p) /\ j.op = "fork"
  /\ space' = [space EXCEPT ![j.child] = j.new]
  /\ sz' = [sz EXCEPT ![j.child] = sz[p]]
  /\ state' = [state EXCEPT ![j.child] = "alive"]
  /\ cr3' = [cr3 EXCEPT ![j.child] = j.new.pgdir]
  /\ job' = [job EXCEPT ![p] = NoJob]
  /\ UNCHANGED <<free, cpus, kstack>>

grow_done(p) ==
  /\ Built(p) /\ job[p].op = "grow"
  /\ sz' = [sz EXCEPT ![p] = job[p].size]
  /\ cr3' = [cr3 EXCEPT ![p] = space[p].pgdir]
  /\ job' = [job EXCEPT ![p] = NoJob]
  /\ UNCHANGED <<free, cpus, state, kstack, space>>

\* exec commits: job.new is now the old page table.
AfterCommit_FreeFirst == "freevm"  \* mutant: freevm(oldpgdir) before switchuvm
AfterCommit == "switchuvm"

exec_commit(p) ==
  /\ Built(p) /\ job[p].op = "exec"
  /\ space' = [space EXCEPT ![p] = job[p].new]
  /\ sz' = [sz EXCEPT ![p] = job[p].size]
  /\ job' = [job EXCEPT ![p].new = space[p], ![p].pc = AfterCommit]
  /\ UNCHANGED <<free, cpus, state, kstack, cr3>>

\* switchuvm of exec, and of the scheduler whenever it resumes the process.
switchuvm(p) ==
  /\ state[p] = "alive"
  /\ cr3[p] # space[p].pgdir \/ job[p].pc = "switchuvm"
  /\ cr3' = [cr3 EXCEPT ![p] = space[p].pgdir]
  /\ job' = [job EXCEPT ![p].pc = IF @ = "switchuvm" THEN "freevm" ELSE @]
  /\ UNCHANGED <<free, cpus, state, kstack, sz, space>>

exec_freevm(p) ==
  /\ AtPc(p, "freevm")
  /\ free' = free \cup PagesOf(job[p].new)
  /\ job' = [job EXCEPT ![p] = NoJob]
  /\ UNCHANGED <<cpus, state, kstack, sz, space, cr3>>

\* The scheduler loads kpgdir before wait can look at the zombie.
exit(p) ==
  /\ Idle(p) /\ p # 1
  /\ state' = [state EXCEPT ![p] = "zombie"]
  /\ cr3' = [cr3 EXCEPT ![p] = kvm.pgdir]
  /\ UNCHANGED <<free, cpus, kstack, sz, space, job>>

wait(p, q) ==
  /\ Idle(p) /\ state[q] = "zombie"
  /\ free' = free \cup {kstack[q]} \cup PagesOf(space[q])
  /\ kstack' = [kstack EXCEPT ![q] = Nil]
  /\ space' = [space EXCEPT ![q] = NoSpace]
  /\ state' = [state EXCEPT ![q] = "unused"]
  /\ sz' = [sz EXCEPT ![q] = 0]
  /\ cr3' = [cr3 EXCEPT ![q] = Nil]
  /\ UNCHANGED <<cpus, job>>

Main == kvmalloc \/ startothers \/ startnext \/ allstarted \/ kinit2_read \/ kinit2_write \/ userinit

\* The sizes of segments, and the increments, that processes ask for.
Sizes == 0..KERNBASE

Run(p) ==
  \/ fork(p) \/ allocproc(p) \/ fork_done(p)
  \/ \E n \in Sizes : exec(p, n) \/ grow(p, n)
  \/ \E n \in ShrinkSizes : shrink(p, n)
  \/ setupkvm(p) \/ kmap(p) \/ uvm_page(p) \/ mappages(p) \/ unmapped(p)
  \/ grow_done(p) \/ bad_grow(p) \/ bad_new(p)
  \/ exec_error(p) \/ exec_commit(p) \/ switchuvm(p) \/ exec_freevm(p)
  \/ exit(p) \/ \E q \in Procs : wait(p, q)

Next == Main \/ (\E c \in APs : entryother(c) \/ mpenter(c)) \/ \E p \in Procs : Run(p)

Spec == Init /\ [][Next]_vars

-----------------------------------------------------------------------------
SpaceType == [pgdir : Pages \cup {Nil}, tabs : [Tables \cup {KTable} -> Pages \cup {Nil}],
              pg : [PageNos -> Pages \cup {Nil}]]
BootType  == [pc : {"kvmalloc", "startothers", "wait", "kinit2", "kinit2_write", "userinit", "sched"},
              ap : 1..(NAPS + 1), seen : SUBSET Pages]
ApType    == [pc : {"off", "entry", "mpenter", "sched"}, stack : Pages \cup {Nil}]
JobType   == [op : {"none", "fork", "exec", "grow"},
              pc : {"idle", "kstack", "setupkvm", "kmap", "page", "map", "kfree", "bad", "panic",
                    "switchuvm", "freevm"},
              child : Procs \cup {Nil}, new : SpaceType, at : 0..MaxPages, size : 0..(KERNBASE - 1),
              mem : Pages \cup {Nil}]

\* Every variable has its type; a process never has more memory than there is
\* room for below KERNBASE.
TypeOK ==
  /\ free \subseteq Pages /\ useLock \in BOOLEAN
  /\ boot \in BootType /\ kvm \in SpaceType /\ code4 \in Pages \cup {Nil}
  /\ aps \in [APs -> ApType]
  /\ state \in [Procs -> {"unused", "embryo", "alive", "zombie"}]
  /\ kstack \in [Procs -> Pages \cup {Nil}]
  /\ sz \in [Procs -> 0..(KERNBASE - 1)]
  /\ space \in [Procs -> SpaceType]
  /\ cr3 \in [Procs -> Pages \cup {Nil}]
  /\ job \in [Procs -> JobType]

(***************************************************************************)
(* Who owns a page, and as what.                                           *)
(***************************************************************************)
OwnedBy(who, p, s) ==
  {<<who, p, "pgdir", 0, s.pgdir>>} \cup {<<who, p, "tab", t, s.tabs[t]>> : t \in DOMAIN s.tabs}
    \cup {<<who, p, "pg", a, s.pg[a]>> : a \in PageNos}
Owners ==
  OwnedBy("kernel", 0, kvm) \cup {<<"kernel", 0, "code4", 0, code4>>}
    \cup {<<"cpu", c, "stack", 0, aps[c].stack>> : c \in APs}
    \cup {<<"proc", p, "kstack", 0, kstack[p]>> : p \in Procs}
    \cup (UNION {OwnedBy("proc", p, space[p]) : p \in Procs})
    \cup (UNION {OwnedBy("job", p, job[p].new) : p \in {q \in Procs : job[q].op # "grow"}})
    \cup {<<"job", p, "mem", 0, job[p].mem>> : p \in Procs}
Managed == IF useLock THEN Pages ELSE 1..NLow

\* A page that the allocator manages is on the free list or has exactly one
\* owner: whatever fails, and in whatever order CPUs and processes allocate
\* and free, no page is leaked, freed twice or given to two owners, and the
\* stacks of the CPUs are distinct.
OneOwner ==
  LET owners == {o \in Owners : o[5] # Nil}
      used   == {o[5] : o \in owners} IN
  /\ Cardinality(owners) = Cardinality(used)
  /\ used \cap free = {}
  /\ used \cup free = Managed

\* Between its calls a process has exactly the pages of its size, however often
\* allocuvm failed half way in growproc or exec, with one exception: when it has
\* shrunk to size 0, growproc takes the 0 that deallocuvm returns for a failure
\* and leaves sz as it was with the pages gone, the first one for good
\* (proc.c:167-170).  Even then it has no page beyond its size: mappages never
\* meets one left behind ("remap", vm.c:72).
SizeIsMapped ==
  \A p \in Procs : Idle(p) =>
    LET mapped == {a \in PageNos : space[p].pg[a] # Nil} IN
    /\ mapped \subseteq Sized(sz[p])
    /\ mapped = Sized(sz[p]) \/ (0 \in ShrinkSizes /\ 0 \notin mapped)

\* No CPU translates addresses with a page directory that is free or already
\* belongs to somebody else.
Cr3Live ==
  \A p \in Procs : state[p] = "alive" =>
    /\ cr3[p] \notin free
    /\ cr3[p] \in {space[p].pgdir, job[p].new.pgdir}
=============================================================================
