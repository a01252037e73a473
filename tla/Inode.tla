-------------------------------- MODULE Inode --------------------------------
(***************************************************************************)
(* Inodes, directories and names of xv6 (fs.c) and the system calls on     *)
(* them (sysfile.c, fileclose and filewrite of file.c): the inode cache    *)
(* with its reference counts and sleep locks, path lookup, create, open,   *)
(* link, unlink, mkdir, chdir, write and close, with crashes.              *)
(*                                                                         *)
(* Below are the buffer cache and the log, taken at what BlockStore and    *)
(* AtomicStore promise: a block is read or changed in one step, the disk   *)
(* is the one of the last moment at which no call was in a transaction.    *)
(* A step takes at most one sleep lock before it looks at shared state,    *)
(* and gives locks up after it.                                            *)
(***************************************************************************)
EXTENDS Integers, Sequences, FiniteSets

CONSTANTS
  Procs, Nobody,  \* processes; no process
  Names,          \* names of files, other than "." and ".."
  Calls,          \* the system calls processes make: records op, path, new, wr
  NINODE,         \* entries of the inode cache (param.h)
  NInodes,        \* inodes on the disk, 1 is the root directory
  NBlocks,        \* data blocks on the disk
  Tree            \* the inodes mkfs makes, from 1 on

Slots   == 1..NINODE
Inums   == 1..NInodes
Blocks  == 1..NBlocks
ROOTINO == 1
Nil     == 0              \* no cache entry, no inode, no block
Entries == Names \cup {".", ".."}
NoEnts  == [n \in Entries |-> Nil]

Types     == {"free", "dir", "file"}
InodeType == [type : Types, nlink : Int, addr : Blocks \cup {Nil}, ents : [Entries -> Inums \cup {Nil}]]

\* A path is a sequence of elements, after a "/" if it begins at the root.
Elements  == Entries \cup {"/"}
IsPath(q) == q # <<>> /\ \A k \in 1..Len(q) : q[k] = "/" => k = 1
Ops       == {"create", "mkdir", "open", "link", "unlink", "chdir", "write", "close"}
CallType  == [op : Ops, path : Seq(Elements), new : Seq(Elements), wr : BOOLEAN]

ASSUME InodeAssumption ==
  /\ IsFiniteSet(Procs) /\ Nobody \notin Procs
  /\ IsFiniteSet(Names) /\ {".", "..", "/"} \cap Names = {}
  /\ NINODE \in Nat \ {0} /\ NInodes \in Nat \ {0} /\ NBlocks \in Nat
  /\ \A i \in DOMAIN Tree : i \in Inums /\ Tree[i] \in InodeType
  /\ \A c \in Calls : /\ c \in CallType
                      /\ c.op \in {"write", "close"} \/ IsPath(c.path)
                      /\ c.op = "link" => IsPath(c.new)

VARIABLES
  disk,     \* inode[i]: type, nlink, addr and, for a directory, its entries; bitmap
  icache,   \* icache[s]: inum, ref, valid, and the cached type, nlink, addr
  lock,     \* lock[s]: the process with the sleep lock of entry s
  cwd, ofile,  \* of each process: current directory, open file
  th,       \* of each process: pc, locals and the references they hold
  panicked

vars == <<disk, icache, lock, cwd, ofile, th, panicked>>

Free    == [type |-> "free", nlink |-> 0, addr |-> Nil, ents |-> NoEnts]
NoEntry == [inum |-> Nil, ref |-> 0, valid |-> FALSE, type |-> "free", nlink |-> 0, addr |-> Nil]
\* w: the directory namex has reached; ip: the inode worked on; put: handed to iput
Idle    == [pc |-> "idle", op |-> "none", path |-> <<>>, par |-> FALSE, new |-> <<>>, wr |-> FALSE,
            w |-> Nil, ip |-> Nil, put |-> Nil, ret |-> "none", ok |-> "none", no |-> "none"]
NoFile  == [ip |-> Nil, writable |-> FALSE]

\* Every process starts in the root directory.
BootCache == [s \in Slots |-> IF s = 1 THEN [NoEntry EXCEPT !.inum = ROOTINO, !.ref = Cardinality(Procs)]
                                       ELSE NoEntry]
FirstInodes == [i \in Inums |-> IF i \in DOMAIN Tree THEN Tree[i] ELSE Free]

Init ==
  /\ disk = [inode |-> FirstInodes, bitmap |-> {}]
  /\ icache = BootCache
  /\ lock = [s \in Slots |-> Nobody]
  /\ cwd = [p \in Procs |-> 1]
  /\ ofile = [p \in Procs |-> NoFile]
  /\ th = [p \in Procs |-> Idle]
  /\ panicked = "no"

-----------------------------------------------------------------------------
(***************************************************************************)
(* The inode cache                                                         *)
(***************************************************************************)
Cached(i)  == {s \in Slots : icache[s].ref > 0 /\ icache[s].inum = i}
EmptySlots == {s \in Slots : icache[s].ref = 0}
First(S)   == CHOOSE s \in S : \A t \in S : s <= t
Full(i)    == Cached(i) = {} /\ EmptySlots = {}

SlotOf_Fresh(i) == First(EmptySlots \cup Cached(i))  \* mutant: the first usable entry is taken
SlotOf(i)  == IF Cached(i) # {} THEN First(Cached(i)) ELSE First(EmptySlots)

idup(s) == [icache EXCEPT ![s].ref = @ + 1]

\* The cache after iget(i), which returns SlotOf(i); there must be room.
iget(i) ==
  LET s == SlotOf(i) IN
  IF icache[s].ref > 0 THEN idup(s)
                       ELSE [icache EXCEPT ![s] = [NoEntry EXCEPT !.inum = i, !.ref = 1]]

\* ilock reads the inode from disk unless it is valid.
Loaded(s) ==
  LET d == disk.inode[icache[s].inum] IN
  IF icache[s].valid THEN icache[s]
  ELSE [icache[s] EXCEPT !.valid = TRUE, !.type = d.type, !.nlink = d.nlink, !.addr = d.addr]

\* acquiresleep in ilock succeeds, and ilock does not panic.
NoType(s)   == ~icache[s].valid /\ disk.inode[icache[s].inum].type = "free"
Lockable(s) == lock[s] = Nobody /\ ~NoType(s)

\* iupdate: the cached fields of entry e go to the disk image d.
iupdate(d, e) ==
  [d EXCEPT !.inode[e.inum] = [@ EXCEPT !.type = e.type, !.nlink = e.nlink, !.addr = e.addr]]

\* p goes on at this label; after a panic nobody does.
At(p, label) == panicked = "no" /\ th[p].pc = label

Put(t, s, label) == [t EXCEPT !.pc = "iput", !.put = s, !.ret = label]

(***************************************************************************)
(* iput.  The reference count is read under icache.lock, which is released *)
(* before the inode is freed; the count goes down in a step of its own.    *)
(***************************************************************************)
LastRef_Any(s) == TRUE  \* mutant: the reference count is not looked at
LastRef(s) == icache[s].ref = 1

iput(p) ==
  LET s == th[p].put IN
  /\ At(p, "iput") /\ lock[s] = Nobody
  /\ IF icache[s].valid /\ icache[s].nlink = 0 /\ LastRef(s)
       THEN /\ lock' = [lock EXCEPT ![s] = p]
            /\ th' = [th EXCEPT ![p].pc = "ifree"]
       ELSE /\ th' = [th EXCEPT ![p].pc = "unref"]
            /\ UNCHANGED lock
  /\ UNCHANGED <<disk, icache, cwd, ofile, panicked>>

bfree(d, a) == [d EXCEPT !.bitmap = @ \ {a}]

\* itrunc gives the block back and the inode is written with type 0.
ifree_Valid(p) ==  \* mutant: ip->valid = 0 is missing
  LET s == th[p].put
      a == icache[s].addr IN
  /\ At(p, "ifree")
  /\ panicked' = IF a # Nil /\ a \notin disk.bitmap THEN "freeing free block" ELSE "no"
  /\ icache' = [icache EXCEPT ![s].addr = Nil, ![s].type = "free"]
  /\ disk' = [bfree(disk, a) EXCEPT !.inode[icache[s].inum] = Free]
  /\ lock' = [lock EXCEPT ![s] = Nobody]
  /\ th' = [th EXCEPT ![p].pc = "unref"]
  /\ UNCHANGED <<cwd, ofile>>

ifree(p) ==
  LET s == th[p].put
      a == icache[s].addr IN
  /\ At(p, "ifree")
  /\ panicked' = IF a # Nil /\ a \notin disk.bitmap THEN "freeing free block" ELSE "no"
  /\ icache' = [icache EXCEPT ![s].valid = FALSE, ![s].addr = Nil, ![s].type = "free"]
  /\ disk' = [bfree(disk, a) EXCEPT !.inode[icache[s].inum] = Free]
  /\ lock' = [lock EXCEPT ![s] = Nobody]
  /\ th' = [th EXCEPT ![p].pc = "unref"]
  /\ UNCHANGED <<cwd, ofile>>

\* An entry nobody refers to keeps nothing that iget does not overwrite.
unref(p) ==
  LET s == th[p].put IN
  /\ At(p, "unref")
  /\ icache' = IF icache[s].ref = 1 THEN [icache EXCEPT ![s] = NoEntry] ELSE [icache EXCEPT ![s].ref = @ - 1]
  /\ th' = [th EXCEPT ![p] = IF @.ret = "end" THEN Idle
                               ELSE [@ EXCEPT !.pc = th[p].ret, !.put = Nil, !.ret = "none"]]
  /\ UNCHANGED <<disk, lock, cwd, ofile, panicked>>

-----------------------------------------------------------------------------
(***************************************************************************)
(* Names.  namex starts at the root or at the current directory and takes  *)
(* one sleep lock at a time; ok and no say where to go with and without an *)
(* inode.                                                                  *)
(***************************************************************************)
Lookup(t, path, par, ok, no) ==
  [t EXCEPT !.pc = "start", !.path = path, !.par = par, !.ok = ok, !.no = no]

start(p) ==
  LET t == th[p]
      abs == Head(t.path) = "/"
      s == IF abs THEN SlotOf(ROOTINO) ELSE cwd[p] IN
  /\ At(p, "start")
  /\ abs => ~Full(ROOTINO)
  /\ icache' = IF abs THEN iget(ROOTINO) ELSE idup(s)
  /\ th' = [th EXCEPT ![p] = [t EXCEPT !.pc = "namex", !.w = s,
                                       !.path = IF abs THEN Tail(@) ELSE @]]
  /\ UNCHANGED <<disk, lock, cwd, ofile, panicked>>

\* The inode number that dirlookup(dp, name) finds in entry s.
dirlookup(s, name) == disk.inode[icache[s].inum].ents[name]

namex_end(p) ==  \* no element left
  LET t == th[p] IN
  /\ At(p, "namex") /\ t.path = <<>>
  /\ th' = [th EXCEPT ![p] = IF t.par THEN Put([t EXCEPT !.w = Nil], t.w, t.no)
                                      ELSE [t EXCEPT !.pc = t.ok]]
  /\ UNCHANGED <<disk, icache, lock, cwd, ofile, panicked>>

\* next is referenced before ip is put.
namex_step_Late(p) ==  \* mutant: iunlockput(ip) loses next
  LET t == th[p]
      i == dirlookup(t.w, Head(t.path)) IN
  /\ At(p, "namex") /\ t.path # <<>> /\ Lockable(t.w)
  /\ ~(t.par /\ Len(t.path) = 1) /\ Loaded(t.w).type = "dir" /\ i # Nil /\ ~Full(i)
  /\ icache' = [iget(i) EXCEPT ![SlotOf(i)].ref = IF icache[SlotOf(i)].ref = 0 THEN 1 ELSE @ - 1]
  /\ th' = [th EXCEPT ![p] = Put([t EXCEPT !.w = SlotOf(i), !.path = Tail(t.path)], t.w,
                                  IF Len(t.path) = 1 THEN t.ok ELSE "namex")]
  /\ UNCHANGED <<disk, lock, cwd, ofile, panicked>>

namex_step(p) ==
  LET t == th[p]
      i == dirlookup(t.w, Head(t.path)) IN
  /\ At(p, "namex") /\ t.path # <<>> /\ Lockable(t.w)
  /\ ~(t.par /\ Len(t.path) = 1) /\ Loaded(t.w).type = "dir" /\ i # Nil /\ ~Full(i)
  /\ icache' = [iget(i) EXCEPT ![t.w] = [Loaded(t.w) EXCEPT !.ref = iget(i)[t.w].ref]]
  /\ th' = [th EXCEPT ![p] = Put([t EXCEPT !.w = SlotOf(i), !.path = Tail(t.path)], t.w,
                                  IF Len(t.path) = 1 THEN t.ok ELSE "namex")]
  /\ UNCHANGED <<disk, lock, cwd, ofile, panicked>>

namex_parent(p) ==  \* stop one level early
  LET t == th[p] IN
  /\ At(p, "namex") /\ Len(t.path) = 1 /\ t.par /\ Lockable(t.w)
  /\ Loaded(t.w).type = "dir"
  /\ icache' = [icache EXCEPT ![t.w] = Loaded(t.w)]
  /\ th' = [th EXCEPT ![p].pc = t.ok]
  /\ UNCHANGED <<disk, lock, cwd, ofile, panicked>>

namex_fail(p) ==
  LET t == th[p] IN
  /\ At(p, "namex") /\ t.path # <<>> /\ Lockable(t.w)
  /\ \/ Loaded(t.w).type # "dir"
     \/ ~(t.par /\ Len(t.path) = 1) /\ dirlookup(t.w, Head(t.path)) = Nil
  /\ icache' = [icache EXCEPT ![t.w] = Loaded(t.w)]
  /\ th' = [th EXCEPT ![p] = Put([t EXCEPT !.w = Nil], t.w, t.no)]
  /\ UNCHANGED <<disk, lock, cwd, ofile, panicked>>

(***************************************************************************)
(* begin_op (Log); end_op is part of the last step of a call.              *)
(***************************************************************************)
begin(p, c) ==
  LET t == [Idle EXCEPT !.op = c.op, !.new = c.new, !.wr = c.wr] IN
  /\ At(p, "idle")
  /\ c.op = "close" => ofile[p] # NoFile
  /\ c.op = "write" => ofile[p].writable
  /\ th' = [th EXCEPT ![p] =
       CASE c.op = "close"  -> Put(t, ofile[p].ip, "end")
         [] c.op = "write"  -> [t EXCEPT !.pc = "write"]
         [] c.op \in {"create", "mkdir"} -> Lookup(t, c.path, TRUE, "create", "end")
         [] c.op = "unlink" -> Lookup(t, c.path, TRUE, "unlink", "end")
         [] c.op = "open"   -> Lookup(t, c.path, FALSE, "open", "end")
         [] c.op = "chdir"  -> Lookup(t, c.path, FALSE, "chdir", "end")
         [] c.op = "link"   -> Lookup(t, c.path, FALSE, "link", "end")]
  /\ ofile' = IF c.op = "close" THEN [ofile EXCEPT ![p] = NoFile] ELSE ofile
  /\ UNCHANGED <<disk, icache, lock, cwd, panicked>>

(***************************************************************************)
(* create: the directory w is locked until the new inode is in it.         *)
(***************************************************************************)
Name(t) == Head(t.path)

create_found(p) ==
  LET t == th[p]
      i == dirlookup(t.w, Name(t)) IN
  /\ At(p, "create") /\ Lockable(t.w) /\ i # Nil /\ ~Full(i)
  /\ icache' = [iget(i) EXCEPT ![t.w] = [Loaded(t.w) EXCEPT !.ref = iget(i)[t.w].ref]]
  /\ th' = [th EXCEPT ![p] = Put([t EXCEPT !.w = Nil, !.ip = SlotOf(i)], t.w, "create_lock")]
  /\ UNCHANGED <<disk, lock, cwd, ofile, panicked>>

\* sys_open and sys_mkdir once they have inode s.  A process has one
\* descriptor: fdalloc fails while it is in use.
Opened(p, t, s) ==
  IF t.op # "mkdir" /\ ofile[p] = NoFile
    THEN /\ ofile' = [ofile EXCEPT ![p] = [ip |-> s, writable |-> t.wr]]
         /\ th' = [th EXCEPT ![p] = Idle]
    ELSE /\ th' = [th EXCEPT ![p] = Put([t EXCEPT !.w = Nil, !.ip = Nil], s, "end")]
         /\ UNCHANGED ofile

create_lock(p) ==
  LET t == th[p] IN
  /\ At(p, "create_lock") /\ Lockable(t.ip)
  /\ icache' = [icache EXCEPT ![t.ip] = Loaded(t.ip)]
  /\ IF t.op = "create" /\ Loaded(t.ip).type = "file"
       THEN Opened(p, t, t.ip)
       ELSE /\ th' = [th EXCEPT ![p] = Put([t EXCEPT !.ip = Nil], t.ip, "end")]
            /\ UNCHANGED ofile
  /\ UNCHANGED <<disk, lock, cwd, panicked>>

TypeMade(op) == IF op = "mkdir" THEN "dir" ELSE "file"

\* ialloc marks a free inode as used and references it.
ialloc(p) ==
  LET t == th[p] IN
  /\ At(p, "create") /\ Lockable(t.w) /\ dirlookup(t.w, Name(t)) = Nil
  /\ lock' = [lock EXCEPT ![t.w] = p]
  /\ \E i \in Inums :
       /\ disk.inode[i].type = "free" /\ \A j \in 1..(i - 1) : disk.inode[j].type # "free"
       /\ ~Full(i)
       /\ disk' = [disk EXCEPT !.inode[i] = [Free EXCEPT !.type = TypeMade(t.op)]]
       /\ icache' = [iget(i) EXCEPT ![t.w] = [Loaded(t.w) EXCEPT !.ref = iget(i)[t.w].ref]]
       /\ th' = [th EXCEPT ![p].pc = "create_fill", ![p].ip = SlotOf(i)]
  /\ UNCHANGED <<cwd, ofile, panicked>>

\* The rest of create, up to iunlockput(dp), in which ip stays locked.
create_fill(p) ==
  LET t  == th[p]
      e  == [Loaded(t.ip) EXCEPT !.nlink = 1]
      dp == IF t.op = "mkdir" THEN [icache[t.w] EXCEPT !.nlink = @ + 1] ELSE icache[t.w]
      d  == iupdate(iupdate(disk, e), dp) IN
  /\ At(p, "create_fill") /\ Lockable(t.ip)
  /\ icache' = [icache EXCEPT ![t.ip] = e, ![t.w] = dp]
  /\ disk' = [d EXCEPT !.inode[e.inum].ents =
                  IF t.op = "mkdir" THEN [@ EXCEPT !["."] = e.inum, ![".."] = dp.inum] ELSE @,
                !.inode[dp.inum].ents[Name(t)] = e.inum]
  /\ lock' = [lock EXCEPT ![t.ip] = p, ![t.w] = Nobody]
  /\ th' = [th EXCEPT ![p] = Put([t EXCEPT !.w = Nil], t.w, "opened")]
  /\ UNCHANGED <<cwd, ofile, panicked>>

\* The new inode is still locked.
opened(p) ==
  LET t == th[p] IN
  /\ At(p, "opened")
  /\ lock' = [lock EXCEPT ![t.ip] = Nobody]
  /\ Opened(p, t, t.ip)
  /\ UNCHANGED <<disk, icache, cwd, panicked>>

sys_open(p) ==
  LET t == th[p] IN
  /\ At(p, "open") /\ Lockable(t.w)
  /\ icache' = [icache EXCEPT ![t.w] = Loaded(t.w)]
  /\ IF Loaded(t.w).type = "dir" /\ t.wr
       THEN /\ th' = [th EXCEPT ![p] = Put([t EXCEPT !.w = Nil], t.w, "end")]
            /\ UNCHANGED ofile
       ELSE Opened(p, t, t.w)
  /\ UNCHANGED <<disk, lock, cwd, panicked>>

(***************************************************************************)
(* unlink: the directory w is locked, then the inode in it.                *)
(***************************************************************************)
unlink_fail(p) ==
  LET t == th[p] IN
  /\ At(p, "unlink") /\ Lockable(t.w)
  /\ Name(t) \in {".", ".."} \/ dirlookup(t.w, Name(t)) = Nil
  /\ icache' = [icache EXCEPT ![t.w] = Loaded(t.w)]
  /\ th' = [th EXCEPT ![p] = Put([t EXCEPT !.w = Nil], t.w, "end")]
  /\ UNCHANGED <<disk, lock, cwd, ofile, panicked>>

unlink_found(p) ==
  LET t == th[p]
      i == dirlookup(t.w, Name(t)) IN
  /\ At(p, "unlink") /\ Lockable(t.w)
  /\ Name(t) \notin {".", ".."} /\ i # Nil /\ ~Full(i)
  /\ icache' = [iget(i) EXCEPT ![t.w] = [Loaded(t.w) EXCEPT !.ref = iget(i)[t.w].ref]]
  /\ lock' = [lock EXCEPT ![t.w] = p]
  /\ th' = [th EXCEPT ![p] = [t EXCEPT !.pc = "unlink_ip", !.ip = SlotOf(i)]]
  /\ UNCHANGED <<disk, cwd, ofile, panicked>>

isdirempty(s) == \A n \in Names : dirlookup(s, n) = Nil

unlink_busy(p) ==  \* a directory that is not empty
  LET t == th[p] IN
  /\ At(p, "unlink_ip") /\ Lockable(t.ip)
  /\ Loaded(t.ip).nlink >= 1 /\ Loaded(t.ip).type = "dir" /\ ~isdirempty(t.ip)
  /\ icache' = [icache EXCEPT ![t.ip] = Loaded(t.ip)]
  /\ th' = [th EXCEPT ![p] = Put([t EXCEPT !.ip = Nil], t.ip, "unlock_w")]
  /\ UNCHANGED <<disk, lock, cwd, ofile, panicked>>

\* The entry is erased; iunlockput(dp), in which ip stays locked.
unlink_erase(p) ==
  LET t  == th[p]
      e  == Loaded(t.ip)
      dp == IF e.type = "dir" THEN [icache[t.w] EXCEPT !.nlink = @ - 1] ELSE icache[t.w] IN
  /\ At(p, "unlink_ip") /\ Lockable(t.ip)
  /\ e.nlink >= 1 /\ (e.type = "dir" => isdirempty(t.ip))
  /\ icache' = [icache EXCEPT ![t.ip] = e, ![t.w] = dp]
  /\ disk' = [iupdate(disk, dp) EXCEPT !.inode[dp.inum].ents[Name(t)] = Nil]
  /\ lock' = [lock EXCEPT ![t.ip] = p, ![t.w] = Nobody]
  /\ th' = [th EXCEPT ![p] = Put([t EXCEPT !.w = Nil], t.w, "unlink_drop")]
  /\ UNCHANGED <<cwd, ofile, panicked>>

\* ip->nlink-- with ip locked, then iunlockput(ip).
unlink_drop(p) ==
  LET t == th[p]
      e == [icache[t.ip] EXCEPT !.nlink = @ - 1] IN
  /\ At(p, "unlink_drop")
  /\ icache' = [icache EXCEPT ![t.ip] = e]
  /\ disk' = iupdate(disk, e)
  /\ lock' = [lock EXCEPT ![t.ip] = Nobody]
  /\ th' = [th EXCEPT ![p] = Put([t EXCEPT !.ip = Nil], t.ip, "end")]
  /\ UNCHANGED <<cwd, ofile, panicked>>

\* iunlockput(dp) on the failure paths of unlink and link.
unlock_w(p) ==
  LET t == th[p] IN
  /\ At(p, "unlock_w")
  /\ lock' = [lock EXCEPT ![t.w] = Nobody]
  /\ th' = [th EXCEPT ![p] = Put([t EXCEPT !.w = Nil], t.w, IF t.op = "link" THEN "link_bad" ELSE "end")]
  /\ UNCHANGED <<disk, icache, cwd, ofile, panicked>>

(***************************************************************************)
(* link: the count goes up first, the entry is written under another lock. *)
(***************************************************************************)
sys_link(p) ==
  LET t == th[p]
      e == [Loaded(t.w) EXCEPT !.nlink = @ + 1] IN
  /\ At(p, "link") /\ Lockable(t.w)
  /\ IF e.type = "dir"
       THEN /\ icache' = [icache EXCEPT ![t.w] = Loaded(t.w)]
            /\ th' = [th EXCEPT ![p] = Put([t EXCEPT !.w = Nil], t.w, "end")]
            /\ UNCHANGED disk
       ELSE /\ icache' = [icache EXCEPT ![t.w] = e]
            /\ disk' = iupdate(disk, e)
            /\ th' = [th EXCEPT ![p] = Lookup([t EXCEPT !.w = Nil, !.ip = t.w], t.new, TRUE,
                                              "dirlink", "link_bad")]
  /\ UNCHANGED <<lock, cwd, ofile, panicked>>

\* dirlink finds the name and puts what it found, with dp locked.
dirlink_taken(p) ==
  LET t == th[p]
      i == dirlookup(t.w, Name(t)) IN
  /\ At(p, "dirlink") /\ Lockable(t.w) /\ i # Nil /\ ~Full(i)
  /\ icache' = [iget(i) EXCEPT ![t.w] = [Loaded(t.w) EXCEPT !.ref = iget(i)[t.w].ref]]
  /\ lock' = [lock EXCEPT ![t.w] = p]
  /\ th' = [th EXCEPT ![p] = Put(t, SlotOf(i), "unlock_w")]
  /\ UNCHANGED <<disk, cwd, ofile, panicked>>

dirlink(p) ==
  LET t == th[p] IN
  /\ At(p, "dirlink") /\ Lockable(t.w) /\ dirlookup(t.w, Name(t)) = Nil
  /\ icache' = [icache EXCEPT ![t.w] = Loaded(t.w)]
  /\ disk' = [disk EXCEPT !.inode[icache[t.w].inum].ents[Name(t)] = icache[t.ip].inum]
  /\ th' = [th EXCEPT ![p] = Put([t EXCEPT !.w = Nil], t.w, "link_done")]
  /\ UNCHANGED <<lock, cwd, ofile, panicked>>

link_done(p) ==
  LET t == th[p] IN
  /\ At(p, "link_done")
  /\ th' = [th EXCEPT ![p] = Put([t EXCEPT !.ip = Nil], t.ip, "end")]
  /\ UNCHANGED <<disk, icache, lock, cwd, ofile, panicked>>

link_bad_Kept(p) ==  \* mutant: the count stays up
  LET t == th[p] IN
  /\ At(p, "link_bad") /\ Lockable(t.ip)
  /\ icache' = [icache EXCEPT ![t.ip] = Loaded(t.ip)]
  /\ th' = [th EXCEPT ![p] = Put([t EXCEPT !.ip = Nil], t.ip, "end")]
  /\ UNCHANGED <<disk, lock, cwd, ofile, panicked>>

link_bad(p) ==
  LET t == th[p]
      e == [Loaded(t.ip) EXCEPT !.nlink = @ - 1] IN
  /\ At(p, "link_bad") /\ Lockable(t.ip)
  /\ icache' = [icache EXCEPT ![t.ip] = e]
  /\ disk' = iupdate(disk, e)
  /\ th' = [th EXCEPT ![p] = Put([t EXCEPT !.ip = Nil], t.ip, "end")]
  /\ UNCHANGED <<lock, cwd, ofile, panicked>>

(***************************************************************************)
(* chdir and write                                                         *)
(***************************************************************************)
sys_chdir(p) ==
  LET t == th[p] IN
  /\ At(p, "chdir") /\ Lockable(t.w)
  /\ icache' = [icache EXCEPT ![t.w] = Loaded(t.w)]
  /\ IF Loaded(t.w).type # "dir"
       THEN /\ th' = [th EXCEPT ![p] = Put([t EXCEPT !.w = Nil], t.w, "end")]
            /\ UNCHANGED cwd
       ELSE /\ th' = [th EXCEPT ![p] = Put([t EXCEPT !.w = Nil], cwd[p], "end")]
            /\ cwd' = [cwd EXCEPT ![p] = t.w]
  /\ UNCHANGED <<disk, lock, ofile, panicked>>

balloc == First(Blocks \ disk.bitmap)

\* A file has one block, which bmap allocates when it is first written.
bmap(e) == IF e.addr = Nil THEN [e EXCEPT !.addr = balloc] ELSE e

\* filewrite: writei, and the inode goes to the disk.
filewrite(p) ==
  LET s == ofile[p].ip
      e == bmap(Loaded(s)) IN
  /\ At(p, "write") /\ Lockable(s)
  /\ Loaded(s).addr = Nil => Blocks \ disk.bitmap # {}
  /\ icache' = [icache EXCEPT ![s] = e]
  /\ disk' = [iupdate(disk, e) EXCEPT !.bitmap = @ \cup {e.addr}]
  /\ th' = [th EXCEPT ![p] = Idle]
  /\ UNCHANGED <<lock, cwd, ofile, panicked>>

(***************************************************************************)
(* The panics of ilock, dirlookup, unlink, iget, ialloc and balloc.        *)
(***************************************************************************)
\* The entry whose lock p asks for next.
Wanted(p) ==
  LET t == th[p] IN
  CASE t.pc = "iput" -> t.put
    [] t.pc = "namex" /\ t.path # <<>> -> t.w
    [] t.pc \in {"create", "unlink", "dirlink", "open", "link", "chdir"} -> t.w
    [] t.pc \in {"create_lock", "create_fill", "unlink_ip", "link_bad"} -> t.ip
    [] t.pc = "write" -> ofile[p].ip
    [] OTHER -> Nil

\* The inode p looks up next, once it has the lock.
Next_iget(p) ==
  LET t == th[p] IN
  CASE t.pc = "start" /\ Head(t.path) = "/" -> ROOTINO
    [] t.pc = "namex" /\ t.path # <<>> /\ ~(t.par /\ Len(t.path) = 1) -> dirlookup(t.w, Name(t))
    [] t.pc \in {"create", "dirlink"} -> dirlookup(t.w, Name(t))
    [] t.pc = "unlink" /\ Name(t) \in Names -> dirlookup(t.w, Name(t))
    [] OTHER -> Nil

panic(p) ==
  LET t == th[p]
      s == Wanted(p)
      i == Next_iget(p) IN
  /\ panicked = "no"
  /\ s # Nil => lock[s] = Nobody
  /\ \/ /\ s # Nil /\ t.pc # "iput" /\ NoType(s)
        /\ panicked' = "ilock: no type"
     \/ /\ t.pc \in {"create", "unlink", "dirlink"} /\ Lockable(s) /\ Loaded(s).type # "dir"
        /\ panicked' = "dirlookup not DIR"
     \/ /\ t.pc = "unlink_ip" /\ Lockable(s) /\ Loaded(s).nlink < 1
        /\ panicked' = "unlink: nlink < 1"
     \/ /\ i # Nil /\ Full(i)
        /\ panicked' = "iget: no inodes"
     \/ /\ t.pc = "create" /\ Lockable(s) /\ i = Nil /\ \A j \in Inums : disk.inode[j].type # "free"
        /\ panicked' = "ialloc: no inodes"
     \/ /\ t.pc = "write" /\ Lockable(s) /\ Loaded(s).addr = Nil
        /\ Blocks \subseteq disk.bitmap
        /\ panicked' = "balloc: out of blocks"
  /\ UNCHANGED <<disk, icache, lock, cwd, ofile, th>>

(***************************************************************************)
(* Power fails.  The log commits when no call is in a transaction, and     *)
(* recovery restores that moment whatever was under way when power failed. *)
(* So the disks a restart finds are those of the moments without a call.   *)
(***************************************************************************)
Quiescent == \A p \in Procs : th[p].pc = "idle"

Crash ==
  /\ Quiescent /\ panicked = "no"
  /\ icache' = BootCache
  /\ cwd' = [p \in Procs |-> 1] /\ ofile' = [p \in Procs |-> NoFile]
  /\ UNCHANGED <<disk, lock, th, panicked>>

Run(p) ==
  \/ \E c \in Calls : begin(p, c)
  \/ start(p)
  \/ namex_end(p) \/ namex_step(p) \/ namex_parent(p) \/ namex_fail(p)
  \/ iput(p) \/ ifree(p) \/ unref(p)
  \/ create_found(p) \/ create_lock(p) \/ ialloc(p) \/ create_fill(p)
  \/ sys_open(p) \/ opened(p)
  \/ unlink_fail(p) \/ unlink_found(p) \/ unlink_busy(p) \/ unlink_erase(p) \/ unlink_drop(p)
  \/ unlock_w(p)
  \/ sys_link(p) \/ dirlink_taken(p) \/ dirlink(p) \/ link_done(p) \/ link_bad(p)
  \/ sys_chdir(p) \/ filewrite(p)
  \/ panic(p)

Next == Crash \/ \E p \in Procs : Run(p)

Spec == Init /\ [][Next]_vars

-----------------------------------------------------------------------------
EntryType == [inum : Inums \cup {Nil}, ref : Nat, valid : BOOLEAN,
              type : Types, nlink : Int, addr : Blocks \cup {Nil}]

PCs == {"idle", "start", "namex", "iput", "ifree", "unref", "open", "create", "create_lock",
        "create_fill", "opened", "unlink", "unlink_ip", "unlink_drop", "unlock_w", "link",
        "dirlink", "link_done", "link_bad", "chdir", "write", "end", "none"}

ThreadType == [pc : PCs, op : Ops \cup {"none"}, path : Seq(Elements), par : BOOLEAN,
               new : Seq(Elements), wr : BOOLEAN, w : Slots \cup {Nil}, ip : Slots \cup {Nil},
               put : Slots \cup {Nil}, ret : PCs, ok : PCs, no : PCs]

Panics == {"no", "freeing free block", "ilock: no type", "dirlookup not DIR", "unlink: nlink < 1",
           "iget: no inodes", "ialloc: no inodes", "balloc: out of blocks"}

\* Every variable has its type; a pointer to a cache entry is one or null.
TypeOK ==
  /\ disk \in [inode : [Inums -> InodeType], bitmap : SUBSET Blocks]
  /\ icache \in [Slots -> EntryType]
  /\ lock \in [Slots -> Procs \cup {Nobody}]
  /\ cwd \in [Procs -> Slots]
  /\ ofile \in [Procs -> [ip : Slots \cup {Nil}, writable : BOOLEAN]]
  /\ th \in [Procs -> ThreadType]
  /\ panicked \in Panics

\* iget: an inode has at most one cache entry, so its lock is the inode's lock.
OneEntryPerInode ==
  \A s, t \in Slots :
    icache[s].ref > 0 /\ icache[t].ref > 0 /\ icache[s].inum = icache[t].inum => s = t

\* "ip->ref tracks the number of in-memory pointers to the entry": no path of
\* a system call, failing ones included, loses a reference or puts one twice.
RefsCounted ==
  \A s \in Slots :
    icache[s].ref = Cardinality({p \in Procs : th[p].w = s}) + Cardinality({p \in Procs : th[p].ip = s})
                  + Cardinality({p \in Procs : th[p].put = s}) + Cardinality({p \in Procs : cwd[p] = s})
                  + Cardinality({p \in Procs : ofile[p].ip = s})

\* "i-node cache is write-through": a valid entry that nobody has locked says
\* what the disk says.
WriteThrough ==
  \A s \in Slots :
    icache[s].ref > 0 /\ icache[s].valid /\ lock[s] = Nobody =>
      LET d == disk.inode[icache[s].inum] IN
      d.type = icache[s].type /\ d.nlink = icache[s].nlink /\ d.addr = icache[s].addr

\* An inode that is an open file or a current directory is not freed, and so
\* not given to another file, whoever unlinks it meanwhile.
InUseIsAllocated ==
  \A p \in Procs : \A s \in {cwd[p], ofile[p].ip} \ {Nil} :
    disk.inode[icache[s].inum].type # "free"

\* What recovery finds is a file system: a link count is the number of entries
\* that name the inode in directories that have a name themselves, no entry
\* names a free inode, a block belongs to one file and is marked, and no other
\* block is marked.
NamesOf(I, L, i) == {e \in Inums \X (Entries \ {"."}) : e[1] \in L /\ I[e[1]].ents[e[2]] = i}
Links(i) == Cardinality(NamesOf(disk.inode, {d \in Inums : disk.inode[d].nlink > 0}, i))
CrashConsistent ==
  Quiescent =>
    /\ \A i \in Inums : disk.inode[i].nlink = Links(i)
    /\ \A i, j \in Inums : i # j /\ disk.inode[i].addr # Nil => disk.inode[i].addr # disk.inode[j].addr
    /\ disk.bitmap = {disk.inode[i].addr : i \in Inums} \ {Nil}

\* Of the panics in fs.c and sysfile.c only those for want of room are reached,
\* by calls that stay out of directories which can be removed (CallsStayOut,
\* below): in a removed one ".." may lead to a free inode, and ilock panics.
NoPanic == panicked \in {"no", "iget: no inodes", "ialloc: no inodes", "balloc: out of blocks"}

\* No processes wait for each other's locks: "another concurrent
\* link/unlink/create test, to look for deadlocks" (usertests.c).
NoDeadlock ==
  \A S \in (SUBSET Procs) \ {{}} :
    ~ \A p \in S : Wanted(p) # Nil /\ lock[Wanted(p)] \in S

-----------------------------------------------------------------------------
(***************************************************************************)
(* InUseIsAllocated, CrashConsistent and NoPanic are proved for every disk *)
(* on which mkfs has made a tree and all calls that do not walk through a  *)
(* directory that another call may remove: in one that is gone create      *)
(* makes names that nobody counts, and ".." may be an inode that is free.  *)
(***************************************************************************)
\* The names that some call unlinks.
Removable == {n \in Names : \E c \in Calls : c.op = "unlink" /\ c.path # <<>> /\ c.path[Len(c.path)] = n}

\* They are only the last elements of paths, and not of those of chdir.
CallsStayOut ==
  \A c \in Calls : \A q \in {c.path, c.new} : \A k \in 1..Len(q) :
    k < Len(q) \/ c.op = "chdir" => q[k] \notin Removable

\* Of the directories L, the root and those with a name that no call unlinks.
KeptIn(I, L) == {d \in L : d = ROOTINO \/ \E a \in L : \E n \in Names \ Removable : I[a].ents[n] = d}

\* The directories L are a tree: each has one name, in the directory that its
\* ".." names and that stays.
IsTree(I, L) ==
  /\ \A i \in Inums : /\ I[i].type = "free" => I[i] = Free
                      /\ I[i].type # "dir" => I[i].ents = NoEnts
  /\ ROOTINO \in L /\ I[ROOTINO].ents[".."] = ROOTINO
  /\ \A d \in L :
       /\ I[d].ents["."] = d /\ I[d].ents[".."] \in KeptIn(I, L)
       /\ d # ROOTINO => \E n \in Names : I[I[d].ents[".."]].ents[n] = d
       /\ \A n \in Names : LET i == I[d].ents[n] IN
            i # Nil /\ I[i].type = "dir" =>
              /\ i \in L \ {ROOTINO} /\ I[i].ents[".."] = d
              /\ \A m \in Names : I[d].ents[m] = i => m = n

\* The disk mkfs makes, with files that have no block yet: a link count is the
\* number of names.
MkfsTree ==
  LET I == FirstInodes
      L == {i \in Inums : I[i].type = "dir" /\ I[i].nlink > 0} IN
  /\ IsTree(I, L)
  /\ \A i \in Inums : I[i].addr = Nil /\ I[i].nlink = Cardinality(NamesOf(I, L, i))
=============================================================================
