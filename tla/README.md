# A verification project for x86osdev

The repository is a course on writing x86 operating systems that run under the
Bochs emulator. The programs of its own are

* **xv6** (`src/bochs/x86osdev/xv6_dregmod/src`): a small multiprocessor Unix;
* **the tutorial kernel** (`src/bochs/x86osdev/{boot_code, ..., user_mode}/src`):
  one kernel in nine stages; `user_mode` is the last and holds all the others;
* **multi_core_startup**: a boot sector that starts all CPUs.

The rest of `src/bochs` is the Bochs emulator itself, third-party code that the
kernels run on; it is not modelled. xv6 comes with a Promela model of its own
(`sleep1.p`) of `sleep` and `wakeup` for one producer and one consumer; the
modules here cover that protocol and everything below about it and much more.

## Inventory

### xv6

| part | state | operations | hard because | correct when |
|---|---|---|---|---|
| spin locks, `spinlock.c` | `locked`, `cpu` of a lock; `ncli`, `intena`, IF of a CPU | acquire, release, holding, pushcli, popcli | CPUs race, interrupts arrive between any two instructions | one holder; no handler waits for its own CPU; the interrupt flag comes back; no panic |
| processes, `proc.c` | process table, `ptable.lock`, per-CPU `proc`, stack and CR3 | fork, exit, wait, kill, sleep, wakeup, yield, scheduler | a process runs on its stack after it has said it no longer runs; the lock travels across `swtch`; fork fails half way | one CPU per stack; nothing in use is freed; no lost wakeup; every zombie is reaped; every runnable process runs; every killed one exits |
| traps, clock, `trap.c`, `sysproc.c` | `ticks`, `tickslock` | clock interrupt, forced yield, sys_sleep, the tests of `killed` | races with sleep on another CPU, `ticks` wraps | a sleeper is woken when it is due |
| pipes, `pipe.c`, `file.c` | ring, two wrapping counters, two open flags, lock | pipewrite, piperead, pipeclose | two-way sleep and wakeup, kill, racing closes, counter overflow | a byte stream; freed once, by the last; nobody sleeps through its event |
| log, `log.c` | in-memory header, `outstanding`, `committing`; log and header on disk | begin_op, log_write, end_op, commit, recovery | group commit, crash between any two disk writes | whole calls survive or vanish; calls never overflow the log |
| buffer cache, `bio.c`; sleep locks, `sleeplock.c`; IDE driver, `ide.c` | buffers, LRU list, request queue | bget, bread, bwrite, brelse, acquiresleep, releasesleep, iderw, ideintr | recycling against lookup, interrupt against sleep, two-step release | one copy of a block, one user, what it sees is what was left; clean means on disk |
| inodes, names, `fs.c`, `sysfile.c` | inode cache with reference counts and sleep locks, inodes, directories and the bitmap on disk | iget, ilock, iput, ialloc, balloc, namex, dirlink, open, create, link, unlink, mkdir, chdir, write, close | reference count read under a lock and used after it; a dozen error paths that each put and unlock something else; crashes | one entry per inode; references counted exactly; nothing in use is freed; the disk is a consistent tree after any crash |
| page allocator, `kalloc.c`; VM, `vm.c`; `exec.c` | free list; page tables; sizes; CR3 | kinit1, kinit2, kalloc, kfree, allocuvm, deallocuvm, copyuvm, freevm, exec, growproc | the lock is switched on during boot; memory runs out between any two pages | every page has one owner at every step; the size of a process is mapped; a page table in use is not freed |
| console, `console.c` | input ring with three wrapping indices; cursor | consoleintr, consoleread, consolewrite | interrupt against reader, editing a full ring, ^D in the middle of a read | lines arrive once and in order; the ring never gets stuck |
| startup, `main.c`, `mp.c`, `lapic.c` | `started` of each CPU, the words below `code` | startothers, mpenter | one stack and entry address at a time | every CPU gets its own stack |
| boot, dispatch, user programs, `mkfs.c` | | | sequential | |

The parts interact like this. Every part uses spin locks; a lock that an
interrupt handler also takes is why `acquire` disables interrupts. `sleep` and
`wakeup` of the process module are the only way to wait, and `ptable.lock` is
what makes "release my lock and sleep" one step: pipes, the log, sleep locks,
the disk driver and the console rely on exactly that. The log keeps its blocks
in the buffer cache, pinned by B_DIRTY, and writes through the IDE driver, whose
interrupt wakes the waiting process. `kill` cuts across all of it: it makes a
sleeper runnable whatever it waits for.

### The tutorial kernel and the startup demo

Heap and ordered array (`kheap.c`, `ordered_array.c`): holes in an index ordered
by size, split, unified, expanded and contracted. Paging (`paging.c`): a bitmap
of frames, page tables allocated on the heap that paging itself extends.
Multitasking (`task.c`): a linked ready queue, `fork` that returns twice and
`switch_task` that recognises its second return by a magic value. These are
sequential but hold long chains of legal calls that reach illegal states.
Descriptor tables, interrupts, timer, screen, VFS and initrd are tables written
once, or output. `multi_core_startup.asm` hands out CPU ids with `lock cmpxchg`.

## Modules

| module | models | abstract specification |
|---|---|---|
| `Spinlock` | `spinlock.c`, one step per instruction that others can see | |
| `Proc` | `proc.c`, the clock interrupt and the kill tests of `trap.c`, `sys_sleep` | |
| `Pipe` | `pipe.c` and the closing of a pipe end in `file.c` | `ByteStream` |
| `Log` | `log.c`, with the buffer cache as content, dirty bit and lock of a block | `AtomicStore` |
| `BufferCache` | `bio.c`, `sleeplock.c`, `ide.c` | `BlockStore` |
| `Inode` | `fs.c`, the calls of `sysfile.c`, the inode side of `file.c`, on top of what `BlockStore` and `AtomicStore` promise | |
| `Memory` | `kalloc.c`, `vm.c`, the pages of `exec.c` and of fork, growproc, exit and wait in `proc.c`, startup in `main.c` | |
| `Console` | `console.c` | `LineDiscipline` |

`MC...` modules instantiate them for TLC; each `...Proofs` module extends one of
them with its theorems. Operators whose name has a suffix
and whose comment begins with "mutant" are bugs somebody could write in the
definition that follows them; each property is checked to fail under one.

How state and steps correspond to the code:

* **Spinlock.** A CPU has a stack of contexts, one more for each interrupt that
  has been taken and not returned from. `pc` names the instruction. `held` is
  the set of locks a context has won and not yet given up. Code that uses the
  locks takes them in a fixed order and does not ask for a lock it has; both
  are conventions of the kernel and stated in the guard of `CallAcquire`.
  `holding`'s own pushcli and popcli are nested in a section with interrupts
  off and are folded into their caller.
* **Proc.** `cpu[c].sp` says whose kernel stack CPU c executes on, `cr3` whose
  page table it has loaded, `lock` which CPU holds `ptable.lock`. A section
  under `ptable.lock` that does not switch is one step; one that does is split
  at `sched`, at the scheduler's part and at the return. What fork does without
  the lock is split at each allocation, any of which may fail. The clock
  interrupt arrives wherever interrupts are on. `sched` panics for each of its
  four reasons, and a zombie that ran again would panic in `exit`. The closing
  of files in `exit` is in `Pipe` and `Inode`; `intena`, which `sched` saves and
  restores, is in `Spinlock`. init forks and waits for ever (its exit when its
  own fork fails, which panics the kernel, is left out).
* **Pipe.** Every byte copied is a step. `rfd` and `wfd` are the processes with
  an end open; the last `fileclose` and the `pipeclose` it calls are two steps.
  `pipealloc` may find no file or no page and then leaves nothing behind.
  `got` and `eof` record what the reader has seen, for the refinement.
* **Log.** Each block written to disk is a step, and `Crash` may come before and
  after it, during recovery too. `log_write` tests for space in one step and
  appends in another, as the code does outside and inside `log.lock`. `used`
  holds the distinct blocks of a call: at most `OpBlocks`, which is at most the
  MAXOPBLOCKS that `begin_op` grants.
* **BufferCache.** A process has up to two buffers at a time, as in `write_log`,
  `install_trans`, `bmap` with `balloc` and `itrunc` with `bfree`; `Users` are
  the processes in their dealings with the first and with the second, and
  `Nested` says which block is read by who has which. A section under `bcache.lock`, `idelock` or the spin lock in
  a sleep lock is a step. `brelse` is two: the lock, then the reference. The
  disk is external: it performs one command and raises its interrupt. `kill`
  may wake any sleeper. Users write what they changed or have the log pin it.
  Every panic of `bio.c` and `ide.c` that depends on state is there, those for a
  missing disk 1 and for a block past the end of the disk included.
* **Inode.** A process has one open file, a current directory and, in a call,
  the three references its locals hold: `w` (where `namex` has come to), `ip`
  (the inode worked on) and `put` (handed to `iput`). A step takes at most one
  sleep lock, then looks at shared state, and gives locks up last; `iput` is
  split where it drops `icache.lock`. A lock order is nowhere assumed: a process
  waits for a sleep lock by not being able to step. Files have one block and no
  content, directories are functions from names to inode numbers. The log is
  taken at its promise: a crash finds the disk of the last moment at which no
  call was in a transaction, which is where `CrashConsistent` looks at it.
* **Memory.** A page is a number; an address space is the set of pages a page
  directory, its tables and its user part are. `job` is a call under way, with
  the page table it builds and the page it has in hand. Each `kalloc` is a step
  and may fail, and the code's clean-up then runs. Sizes are bytes, pages have
  two, so the rounding of PGROUNDUP matters. The free list is a set: which page
  comes first makes no difference to who owns it. During boot `kfree` without
  the lock is two steps. `freevm` is one step. The kernel's part of a page
  table is one page. `kvmalloc` and `startothers` do not look whether they got
  their pages and go on without; `userinit` then stops for want of a page, in a
  panic or a fault. `ShrinkSizes` are the sizes to which programs shrink.
* **Console.** Each character of an interrupt and each byte a reader takes is a
  step under `cons.lock`. The indices r, w and e count modulo `MaxUint`. `dst`
  records what a reader got, for the refinement. Formatting, scan codes and the
  escape of the panic output are left out.

## Runs

| run | instance | shows |
|---|---|---|
| `spinlock` | 2 CPUs, 2 nested locks, interrupts up to 2 deep | `MutualExclusion`, `NoPanic`, `InterruptedHoldsNothing`, `FlagRestored`, and `InnermostReleased` under fairness |
| `proc` | 2 CPUs, 3 slots, 3 pids, ticks modulo 2; fork, exit, wait, kill, sys_sleep, preemption | `OneCpuPerStack`, `StackAndPageTableLive`, `NoPanic`, `WaiterHasReason`, `ParentCanReap`, and `SleeperNotDue`: no wakeup is lost between the condition lock and `ptable.lock` |
| `proc_live` | 1 CPU, 3 slots | `OrphanReaped`, `RunnableRuns`, `KilledExits` |
| `pipe` | 2 processes with both ends, 2 bytes, counters modulo 4, kills | `IsByteStream`, `NoUseAfterFree`, `NoLostWakeup` |
| `pipe_killed_reader` | 1 byte, one process killed | **violated**: `KilledLeaves` |
| `log` | 2 concurrent calls of 2 blocks, 4 blocks, room for 4, crashes | `IsAtomicStore`, `CommitsAlone`, `LogFits`, `SleeperHasWaker` |
| `log_mkfs` | the same with the log as short as `mkfs` makes it | **violated**: `LogFits` |
| `bcache` | 2 processes with up to 2 buffers each, 3 blocks, 2 buffers, 1 pinned | `IsBlockStore`, `OneBufferPerBlock`, `CleanIsOnDisk`, `SleeperHasWaker`, `NoPanic` |
| `inode` | 2 processes, 4 inodes, 1 data block, the tree / with /d and a file of two names /b and /d/b; create, open, mkdir, unlink and link at /a, write, close, unlink /d (which is not empty), chdir / | `OneEntryPerInode`, `RefsCounted`, `WriteThrough`, `InUseIsAllocated`, `CrashConsistent`, `NoPanic` |
| `inode_deadlock` | the same | **violated**: `NoDeadlock` |
| `memory` | 2 process slots, 2 more CPUs, 14 pages of 2 bytes, user memory of 3 pages in 2 tables, shrinking to 3 and to 0 bytes | `OneOwner`, `SizeIsMapped`, `Cr3Live` |
| `console` | 2 readers of up to 2 bytes, a ring of 3, indices modulo 6, a screen of 2 by 1 | `IsLineDiscipline`, `RingNotStuck`, `NoLostWakeup`, `CursorOnScreen` |

Every module has a `TypeOK` that says what its variables range over. It is proved
for all of them, as the first part of the inductive invariants below.

**Bounds.** Two CPUs, processes or calls suffice for a race, and a third slot
of the process table gives the orphan, its dead parent and init. A pid bound of
3 fills the table, or uses a slot again after its process was reaped or its
fork failed, and ticks modulo 2 wrap at every second tick. The pipe is
the smallest whose counters wrap while it is partly full; writes of up to 3
bytes exceed it, so writers block half way. The log has as many blocks as its
header holds, so it can become exactly full, and two calls can leave a third
begin waiting. Two buffers for three blocks, four users and a pin make `bget`
recycle, wait for sleep locks and run out; that `bget` does not run out of enough
buffers is proved and not checked. Two processes at one name of one directory meet in
every order that the calls on it have; the disk is full after one new inode and
one block, so `ialloc` and `balloc` fail too. The inode cache has as many
entries as there are inodes, so the panic of a full cache is out of reach.
Memory is just too small for two grown processes, so each allocation of fork,
exec and growproc is reached with pages left and with none. The ring of the
console takes fewer characters than a user types, and the screen is shorter
than the ring, so a backspace can arrive at its upper left corner. The calls of
`inode` change the current directory to "/" only, so that half of
`InUseIsAllocated` is not exercised by the run; the theorem covers it. `MaxPid`,
`MaxN`, `MaxLevel`, `MaxPinned`, `OpBlocks`, `ShrinkSizes`, `MaxRead`, `MaxPages`, `TickMod`, `UintMod` and
`MaxUint` are the named bounds. Symmetry is used only in runs without liveness
(`log`, `bcache`, `inode`, `console`), over sets whose members the
specifications treat alike.

**Deadlock** is checked except where the system really may stop: in the pipe,
where processes that have closed everything, or one that reads its own empty
pipe, stop; in `bcache`, where `bget` may panic; in `inode`, whose deadlock is the subject of a run of its own; in
`memory`, where a boot without a page for init panics; in `console`, where
readers wait for somebody to type.

**Fairness.** Spinlock: a CPU keeps executing instructions (weak) and a critical
section ends (strong); nothing about who wins an xchg. Proc: a CPU executes its
scheduler and handlers, the clock keeps ticking, a process that gets the CPU
again and again makes progress in its system call (strong, since a tick may
preempt it each time it could move, but more than one instruction fits between
two ticks), init waits. User programs owe nothing. `proc_live` uses one CPU,
where a lock is free whenever it is asked for; with more, spin locks promise no
fairness and the properties do not follow. Pipe: a process in a call goes on,
and a spinning acquire gets a lock that is free again and again.

## Where the code and its comments differ

* `pipe_killed_reader`: `killed` is tested under the pipe's lock and set under
  `ptable.lock`; a kill between the test and the sleep is not noticed and the
  killed process sleeps on (`pipe.c:107`). The same pattern is in `console.c:246`
  and `sysproc.c`; in the latter the next tick ends it. `NoLostWakeup` of
  `Console` says nothing of kill, and `KilledExits` of `Proc` is about processes
  killed in user space, fork, wait or kill.
* `log_mkfs`: `mkfs` gives the log LOGSIZE blocks including the header; `begin_op`
  reserves LOGSIZE data blocks. Calls within their MAXOPBLOCKS reach the panic
  (`mkfs.c:25`, `log.c:132`, `log.c:218`).
* `inode_deadlock`: `iput` takes the sleep lock of the inode it puts. `create`
  and `sys_unlink` put the directory while they hold an inode in it, `sys_unlink`
  locks an inode while it holds the directory: two processes that create and
  unlink the same name can wait for each other for ever (`fs.c:334`).

More limits are visible in how properties and instances had to be stated.

* `NoLostWakeup` of the pipe holds only until a process is killed: a killed
  writer leaves a full pipe without waking its readers (`pipe.c:86`).
* `LogFits` allows the panic of `log_write` when all calls have used up their
  grant, since it tests for space before it looks whether the block is already
  logged (`log.c:218-229`).
* `SizeIsMapped` makes an exception for a process that has shrunk to size 0:
  `deallocuvm` then returns 0, the new size, which `growproc` takes for a failure.
  It returns -1 with the pages gone, `sz` as before and the TLB not flushed
  (`proc.c:167-170`), and `copyuvm` of a fork would panic. The run does this; the
  first page stays missing, by which the property knows such a process.
* `bget` panics when all buffers are pinned or held. `NoPanic` of `BufferCache`
  excludes it only for NBUF at least the pinned blocks plus two for each process;
  `param.h` has NBUF = LOGSIZE = 30 and NPROC = 64, which is far from it.
* `IsBlockStore` needs a disk without read errors: `ideintr` sets B_VALID after
  an error too (`ide.c:118-122`).
* `kill` marks any slot with the pid, UNUSED ones too, and `allocproc` does not
  clear `killed`: after `kill(0)`, or the kill of a pid whose fork failed, the
  next child in that slot is born killed (`proc.c:486`). The instance kills pid
  2, which a failed fork can leave in a slot; no property speaks of it.
* `kill` does not spare init: a program that kills pid 1 makes init exit, which
  panics (`proc.c:235`, `proc.c:486`). `NoPanic` of `Proc` is about programs that
  do not, and its theorem says so.
* `CrashConsistent` and `RefsCounted` say nothing about inodes that are allocated
  and have no name. Two `iput`s that both read `ref = 2` each only decrement it,
  and an unlinked file stays on the disk; a crash with an unlinked file open
  has the same effect. (The comment of `fs.c` says that iput frees an inode whose
  reference and link counts have fallen to zero.)
* The calls of `inode` never walk through a directory that can be removed. In a
  removed directory `create` still makes files, and its ".." may be an inode
  that is free by then, at which `ilock` panics "ilock: no type". Nor do they
  name "." as the target of `link`, which makes `dirlink` put, and so lock, the
  directory that its caller has locked: a deadlock. The theorems of `IInv` hold
  for calls of both kinds, those of `FsInv` for the second kind; of the first
  kind they say nothing (`CallsStayOut`): `CrashConsistent` and `NoPanic` fail
  there, and `InUseIsAllocated` is not looked into.

## Proofs

Eight modules hold proofs, one for each component module. Each theorem is of the form "`Spec` implies that the
property always holds", or "`Spec` implies the abstract specification", for
every value of the constants that satisfies the module's `ASSUME`; what the runs
show on an instance, these show for any number of CPUs, processes, blocks, bytes
and pages. Theorems are named after the property with `Holds` appended;
`TypeCorrect` is the one about `TypeOK`.

None of the properties is inductive alone. Each module defines an `IInv` as a
conjunction of named parts. TLC confirmed it on the instance of the module's run
first. One lemma per action shows that the action keeps it, a theorem then reads
the property off it.

| module | theorems | hypothesis beside the module's assumption |
|---|---|---|
| `SpinlockProofs` | `TypeCorrect`, `MutualExclusion`, `NoPanic`, `InterruptedHoldsNothing`, `FlagRestored` | |
| `PipeProofs` | `TypeCorrect`, `NoUseAfterFree`, `NoLostWakeup`, `PipeIsByteStream` | |
| `LogProofs` | `TypeCorrect`, `CommitsAlone`, `SleeperHasWaker`, `LogFits`, `LogIsAtomicStore` | `LogFits`: `NLOG > LOGSIZE` or `Spare` |
| `BufferCacheProofs` | `TypeCorrect`, `OneBufferPerBlock`, `SleeperHasWaker`, `NoPanic`, `CleanIsOnDisk`, `CacheIsBlockStore` | the last two: `TRUE \notin DiskErrors` |
| `ConsoleProofs` | `TypeCorrect`, `RingNotStuck`, `NoLostWakeup`, `CursorOnScreen`, `ConsoleIsLineDiscipline` | |
| `ProcProofs` | `TypeCorrect`, `OneCpuPerStack`, `StackAndPageTableLive`, `NoPanic`, `WaiterHasReason`, `ParentCanReap`, `SleeperNotDue` | `NoPanic`: `1 \notin KillPids` |
| `MemoryProofs` | `TypeCorrect`, `OneOwner`, `SizeIsMapped`, `Cr3Live` | |
| `InodeProofs` | `TypeCorrect`, `OneEntryPerInode`, `RefsCounted`, `WriteThrough`, `CrashConsistent`, `InUseIsAllocated`, `NoPanic` | the last three: `MkfsTree`, `CallsStayOut` |

The hypotheses are where the code itself needs them. `mkfs` makes a disk with
`NLOG = LOGSIZE`, and the run `log_mkfs` shows that `LogFits` fails there when
calls use up what they are granted. `Spare` is the other way to be safe:
`NLOG >= LOGSIZE`, and no call writes more than MAXOPBLOCKS - 2 blocks. The
repository's disk and kernel meet it: `param.h` grants 10 blocks, and the call
that writes most is a `filewrite` of 3 blocks of data at an offset inside a
block, with 4 data blocks, the inode, the indirect block and the bitmap: 7.
The others: `ideintr` marks a buffer valid after a disk error; a killed init
panics; in a directory that has been removed names can be made and followed. The
theorems that do not mention them hold with short logs, disk errors, a killed
init and calls in removed directories too. What `NoPanic` of `BufferCache` needs
of NBUF, and the exception of `SizeIsMapped`, are parts of the properties.
`MCInode` assumes `MkfsTree` and `CallsStayOut`, so TLC evaluates both for the
tree and the calls of the run.

**Spinlock.** `SpinlockAssumption`: the null CPU is no CPU, there is a lock and a
level. `IInv` adds

* `LockInv`: a held lock has `locked = 1`, and `lk->cpu` is its holder's CPU
  except in the two windows where `acquire` has not yet written it and
  `release` has already cleared it;
* `OwnerInv`: conversely, a CPU recorded in a lock has a context that holds it,
  so `holding` in `acquire` cannot mistake a foreign lock for its own;
* `StackInv`: suspended contexts hold nothing and stand before the `cli` of a
  pushcli, and the EFLAGS they have read there is still right when they resume,
  because a handler restores what it found;
* `NestInv`: on each CPU `ncli` is the number of locks its running context holds
  plus at most one, IF is on exactly at the bottom with `ncli = 0`, and `intena`
  says whether the CPU is at level 0. Hence handlers never nest.

`ncli` and the cardinality of `held` move together by the cardinality facts of
`FiniteSetTheorems`.

**Pipe.** `PipeAssumption`: the counters count modulo a multiple of `PIPESIZE`
larger than it (2^32 and 512 in the code). `LockInv`: the holder of the lock is
the one process in a critical section. `EndInv`: who is in a call has a
descriptor, one process closes each end and only after the last descriptor went;
this is why the page is freed once. `SleepInv`: a sleeper's reason still holds,
or the holder of the lock has just removed it and stands before its wakeup.
`LocalInv`, `RingInv`: a reader that copies found a byte or the end; at most
`PIPESIZE` bytes are in flight. The refinement maps the ring between the two
counters to the stream's queue; its lemmas are about remainders, since a slot is
`nwrite % PIPESIZE` of a counter that itself wraps.

**Log.** `LogAssumption`: the log has room for one call (`LOGSIZE >= MAXOPBLOCKS`).
`ControlInv`: who commits is alone, nothing runs before recovery is over.
`SpaceInv`: `Room` is the set of blocks that the active calls may still add, and
the header plus `Room` fits into `LOGSIZE`. This, not the test in `begin_op`
alone, is what each `log_write` preserves: a block that is new takes one from
`Room`, one that is absorbed takes none. `FitInv`, under `Spare`: the header
stays two blocks short of `LOGSIZE`, so the shorter log of mkfs is never full. `LogInv`: what header, logged blocks and
home blocks hold at each stage of a commit and of recovery. `CacheInv`: a buffer
that differs from its home block is pinned by the log. The refinement maps the
durable store to the home blocks overlaid with the logged ones once the header
on disk names them, so the write of the header is the step that commits.

**BufferCache.** `BufferCacheAssumption`: finitely many processes, at least one
buffer. `LruInv`: the list has every buffer once. `HoldInv`: which process has
which buffer and its sleep lock at each step, and what its flags are then.
`QueueInv`: the queue has exactly the buffers whose owners wait and whose work
is not done, the disk works on its head, and an interrupt that is due belongs to
the head's command. `PinInv`: dirty buffers that nobody is writing are the
pinned ones, at most `MaxPinned`; with `refcnt` counting the users, two for a
process, this leaves `bget` a buffer by cardinality. The refinement maps a block to its buffer's data
where it is valid and to the disk elsewhere.

**Console.** `ConsoleAssumption`: the indices count modulo a multiple of
`INPUT_BUF` larger than it. `LockInv`: who is inside `consoleread` holds
`cons.lock`, and is done when it wants no more bytes. `LineInv`: what is typed
and not committed holds neither a newline nor an end of file, so ^U stops at the
commit index and nowhere else. `DstInv` is the type of what readers have got.
The refinement maps the ring between `r` and `w` to the committed text and the
one between `w` and `e` to the line being edited.

**Proc.** `ProcAssumption`: one of the CPUs takes the clock interrupts, sleeps are
shorter than a turn of the clock. `CpuInv`, `LockInv`, `TickInv`: where a CPU is
between `swtch` and `switchkvm`, and that the holder of `ptable.lock` and of
`tickslock` is the CPU that is in a section under it, on whatever stack: the lock
changes hands from a process to the scheduler and on to the next process without
being released. `ThreadInv`: what `state` says of the thread, on a CPU and off
it. `ForkInv`: a fork under way owns one EMBRYO, as far built as it says.
`MemoryInv`: who is more than an EMBRYO, or in some `c->proc`, has its stack and
page table. `FamilyInv`, `WaitInv`, `SleepInv`: parents live; the reason of who
sleeps in `wait` or on `ticks` still holds, or the clock is about to wake it.
`PanicInv`: only a killed init exits. `PidInv` bounds the pids that are handed
out although the bound `MaxPid` is tested before the lock is taken.

**Memory.** `MemoryAssumption`: page sizes and the memory below `KERNBASE` are
positive, and there is room there for the two pages of a stack. `OwnInv`: of the
free list, the kernel's page table, the stacks and page tables of processes and
CPUs, the page tables under construction and the page in a call's hand, exactly
one has any page that the allocator manages. `Distinct`: no page is twice in one
page table; together the two give `OneOwner`, which counts. `BootInv`: CPUs start
one after the other, each takes its stack from `code-4` before the next is put
there, and nothing allocates between the two halves of a `kfree` without the
lock. `ProcInv`: what the state of a slot and the step of its call say of its
size, its page tables and CR3. `ChildInv`: the slot a fork fills is its own. `Covers` says
how pages and size go together in these: no page beyond the size, and all of
them unless the first is missing, which happens to who shrinks to 0. It is kept
while growproc adds pages above, and read off as `SizeIsMapped` between calls.

**Inode.** `InodeAssumption`: finitely many processes and names, an initial tree
and calls that are well formed. The calls may be any, with paths of any length, through
directories that others remove meanwhile. `LocalInv`: where a call is says which
of its pointers `w`, `ip` and `put` refer to an entry, what is left of its path
and where it goes after the lookup. `FileInv`: a file that can be written, and
one being written, is open. `EntryInv`: an entry in use has an inode number.
`CopyInv`: a valid entry in use equals the disk's inode and is not a free one,
locked or not. This is stronger than `WriteThrough`, which speaks of unlocked
entries, and rests on two things: each operation that changes an inode writes it
back in the same step, and `iput` clears `valid` when it frees; so no valid entry
is of an inode that `ialloc` may take. `OneEntryPerInode` is needed for it, since
an update must change no second copy. `RefsCounted` is an argument about
cardinalities: five sets of processes refer to an entry (by working directory,
open file and the three pointers of a call). A step moves one process in or out
of them, so it changes their sum by what this process's references change:
nothing where one is handed on, one more or one less where `ref` follows.

The disk has an invariant of its own, `FsInv`, which is inductive together with
`IInv` under two hypotheses. `MkfsTree`: the inodes that mkfs makes are a tree
and their counts are right. `CallsStayOut`: a name that some call unlinks
(`Removable`) is only the last element of paths, and not of those of chdir;
which name a call unlinks, and what that name is by then, is left open. TLC
confirmed `FsInv` on the instance of the run before it was proved.

* `TreeInv`: the directories that have a name (`Live`) are a tree: each is in
  the directory that its ".." names, under one name, and that directory stays
  (`Kept`: it is the root or has a name that no call unlinks). A directory whose
  name unlink has erased is no longer one of them, though its count is still 1.
* `CountInv`: a link count is the number of names plus the number of processes
  that owe the inode one. `sys_link` counts first and enters the name under
  another lock, or takes the count back; `sys_unlink` erases the name and
  takes the link away after `iunlockput(dp)`. Between the two the count and the
  names differ, by exactly these calls (`Owing`).
* `BlockInv`: a block is marked exactly when one inode has it.
* `CallInv`: what a call may rely on wherever it waits: each entry it has is of
  an allocated inode (`UseOk`), the directory it works in stays (`WalkOk`), the
  locks it keeps are its own (`HoldOk`), the new inode of create is known to
  nobody else and its name is still free (`FillOk`), the name unlink found still
  stands for that inode (`EraseOk`), and iput frees what has no name and no
  other user, though it read the count before it took the lock (`FreeOk`).

The last is the heart of the argument. `iput` reads `ref == 1` and `nlink == 0`
under `icache.lock`, releases it and frees the inode in a later step. Nobody
takes a reference in between: a new one comes from a name, which `CountInv`
excludes, from `ialloc`, which takes free inodes only, or from a process that
already has one, which `RefsCounted` excludes. A step of one process is shown to
keep what the others rely on once for all steps (`OthersOk`), from which entries
it leaves alone, which inodes it may write and what it takes. What changes the
tree is proved about trees of inodes in general: a name for a file (`TreeName`),
a new directory (`TreeFill`), a name erased (`TreeErase`). `CrashConsistent` then
follows because between calls nobody owes a link, `InUseIsAllocated` is part of
`UseOk`, and each of the panics contradicts a part of `FsInv`.

Only model-checked, on the instances above: liveness, which is out of the
prover's reach: `InnermostReleased` of `Spinlock`, `OrphanReaped`, `RunnableRuns`
and `KilledExits` of `Proc`. Every safety property of a passing run is a theorem.

## Not modelled

* Of xv6: the entries of page tables beyond who owns which page (addresses,
  permissions), user memory, ELF images, file contents; `dup` and `filedup`
  (every process has one descriptor), `mknod`, `read` and `fstat`, which change
  nothing the properties speak of; device registers and boot code; formatting
  and output; user programs other than init; `mkfs` other than the size of the
  log.
* Of the tutorial kernel: its heap, paging and tasks, see the plan. Its tables,
  interrupt stubs, timer, screen, VFS and initrd are written once or are output.
  The chapters before `user_mode` are earlier states of the same kernel.
* The Bochs emulator, the machine the kernels run on: third-party code, by far
  the largest part of the source tree.

Weak memory ordering is not modelled: on x86 the `xchg` and the
`__sync_synchronize` in `acquire` and `release` make the interleaving view exact
for these sections.

## Plan

1. `Heap` and `Paging` of the tutorial kernel in one composed module: blocks and
   holes tile the heap, no two blocks overlap, the index holds exactly the
   holes, frames are owned once; `Task` with fork and switch_task.
2. `Startup` of multi_core_startup: unique ids from `lock cmpxchg`.
3. `filedup` and shared descriptors, in one module with `Pipe` and `Inode`.
