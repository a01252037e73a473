---------------------------- MODULE InodeProofs ----------------------------
(***************************************************************************)
(* Proofs about Inode for any processes, calls, trees and sizes: first the *)
(* cache (IInv), then the file system on the disk (FsInv), for trees that  *)
(* MkfsTree and calls that CallsStayOut allows.                            *)
(***************************************************************************)
EXTENDS Inode, TLAPS, FiniteSetTheorems, WellFoundedInduction

(***************************************************************************)
(* The inductive invariant.                                                *)
(*                                                                         *)
(* LocalInv: where a call is says which of its three references it has,    *)
(* what it still has of its path and where its lookup leads.  A process in *)
(* iput counts as being where it goes on.                                  *)
(***************************************************************************)
Putting == {"iput", "ifree", "unref"}
Parents == {"create", "unlink", "dirlink"}    \* entered with a directory and a name
Leaves  == {"open", "link", "chdir"}          \* entered with an inode
WithW   == Parents \cup Leaves \cup {"namex", "create_fill", "unlink_ip", "unlock_w"}
WithIp  == {"create_lock", "create_fill", "opened", "unlink_ip", "unlink_drop", "link_done", "link_bad"}
Looking == {"start", "namex", "unlock_w"} \cup Parents \cup Leaves

Where(t) == IF t.put # Nil THEN t.ret ELSE t.pc

RefsOk(t) ==
  /\ t.put # Nil <=> t.pc \in Putting
  /\ t.put # Nil => t.ret \notin Putting \cup {"none", "idle", "write", "start"}
  /\ t.put = Nil => t.pc \notin {"none", "end"}
  /\ t.w # Nil <=> Where(t) \in WithW
  /\ t.ip # Nil <=> Where(t) \in WithIp \/ (Where(t) \in Looking /\ t.ok = "dirlink")

LookOk(t) ==
  /\ Where(t) \in Looking \ {"unlock_w"} =>
       /\ t.ok \in Parents \cup Leaves
       /\ t.par <=> t.ok \in Parents
       /\ t.no = IF t.ok = "dirlink" THEN "link_bad" ELSE "end"
       /\ t.op = "link" <=> t.ok \in {"link", "dirlink"}
  /\ Where(t) \in Parents \cup Leaves => t.ok = Where(t)
  /\ Where(t) = "unlink_ip" => t.ok = "unlink" /\ t.op # "link"
  /\ Where(t) = "unlock_w" => (t.op = "link" <=> t.ok = "dirlink")

PathOk(t) ==
  /\ Where(t) = "start" => IsPath(t.path)
  /\ Where(t) \in Parents \cup {"namex"} => t.path \in Seq(Entries)
  /\ Where(t) \in Parents => t.path # <<>>
  /\ t.op = "link" => IsPath(t.new)

LocalInv == \A p \in Procs : RefsOk(th[p]) /\ LookOk(th[p]) /\ PathOk(th[p])

FileInv ==
  \A p \in Procs : /\ ofile[p].ip = Nil => ~ofile[p].writable
                   /\ th[p].pc = "write" => ofile[p].ip # Nil

\* An entry in use has an inode; a valid one is a copy of it, and not free.
EntryInv == \A s \in Slots : icache[s].ref > 0 => icache[s].inum # Nil

Copy(s) ==
  /\ icache[s].type = disk.inode[icache[s].inum].type /\ icache[s].type # "free"
  /\ icache[s].nlink = disk.inode[icache[s].inum].nlink
  /\ icache[s].addr = disk.inode[icache[s].inum].addr

CopyInv == \A s \in Slots : icache[s].ref > 0 /\ icache[s].valid => Copy(s)

IInv == TypeOK /\ LocalInv /\ FileInv /\ EntryInv /\ OneEntryPerInode /\ RefsCounted /\ CopyInv

-----------------------------------------------------------------------------
(***************************************************************************)
(* The effects that the steps have in common.                              *)
(***************************************************************************)
\* Thread record u is t with these fields, as a call that goes on has it.
Moves(u, t, pc, path, w, ip, put, ret) ==
  /\ u \in ThreadType /\ u.pc = pc /\ u.path = path /\ u.w = w /\ u.ip = ip /\ u.put = put /\ u.ret = ret
  /\ u.op = t.op /\ u.par = t.par /\ u.new = t.new /\ u.wr = t.wr /\ u.ok = t.ok /\ u.no = t.no

Only(p) ==
  /\ th' \in [Procs -> ThreadType] /\ cwd' \in [Procs -> Slots]
  /\ ofile' \in [Procs -> [ip : Slots \cup {Nil}, writable : BOOLEAN]]
  /\ \A q \in Procs \ {p} : th'[q] = th[q] /\ cwd'[q] = cwd[q] /\ ofile'[q] = ofile[q]

LocalOk(t) == RefsOk(t) /\ LookOk(t) /\ PathOk(t)

\* What happens to the counts: nothing, one more for inode i in entry z, one
\* less for entry z.
SameRefs ==
  \A s \in Slots : icache'[s].ref = icache[s].ref /\ icache'[s].inum = icache[s].inum

Gets(z, i) ==
  /\ z \in Slots /\ i \in Inums
  /\ icache'[z].ref = icache[z].ref + 1 /\ icache'[z].inum = i
  /\ IF icache[z].ref > 0 THEN icache[z].inum = i ELSE Cached(i) = {}
  /\ \A s \in Slots \ {z} : icache'[s].ref = icache[s].ref /\ icache'[s].inum = icache[s].inum

Drops(z) ==
  /\ z \in Slots
  /\ icache[z].ref > 0 /\ icache'[z].ref = icache[z].ref - 1
  /\ icache'[z].ref > 0 => icache'[z].inum = icache[z].inum
  /\ \A s \in Slots \ {z} : icache'[s].ref = icache[s].ref /\ icache'[s].inum = icache[s].inum

\* The references of p to entry s.
B(x, s) == IF x = s THEN 1 ELSE 0
Mine(p, s) == B(th[p].w, s) + B(th[p].ip, s) + B(th[p].put, s) + B(cwd[p], s) + B(ofile[p].ip, s)

-----------------------------------------------------------------------------
\* First finds a member of a set of numbers that has one.
LEMMA FirstIs == ASSUME NEW S \in SUBSET Nat, S # {} PROVE First(S) \in S
<1>1. \E x \in S : \A y \in S : ~(<<y, x>> \in OpToRel(<, Nat))
  BY NatLessThanWellFounded, WFMin
<1>2. \A x, y \in S : ~(<<y, x>> \in OpToRel(<, Nat)) => x <= y
  BY DEF OpToRel
<1> QED
  BY <1>1, <1>2 DEF First

\* The entry that iget returns exists when it does not panic.
LEMMA SlotIs ==
  ASSUME NEW i, ~Full(i)
  PROVE  /\ SlotOf(i) \in Slots
         /\ IF Cached(i) # {} THEN SlotOf(i) \in Cached(i) ELSE SlotOf(i) \in EmptySlots
<1>1. Slots \subseteq Nat /\ Cached(i) \subseteq Slots /\ EmptySlots \subseteq Slots
  BY InodeAssumption DEF Slots, Cached, EmptySlots
<1>2. CASE Cached(i) # {}
  BY <1>1, <1>2, FirstIs DEF SlotOf
<1>3. CASE Cached(i) = {}
  <2>1. EmptySlots # {}
    BY <1>3 DEF Full
  <2> QED
    BY <1>1, <1>3, <2>1, FirstIs DEF SlotOf
<1> QED
  BY <1>2, <1>3

\* Two sets of processes that differ in p at most.
LEMMA CountMoves ==
  ASSUME NEW p \in Procs, NEW S \in SUBSET Procs, NEW T \in SUBSET Procs,
         \A q \in Procs \ {p} : q \in S <=> q \in T
  PROVE  /\ Cardinality(S) \in Nat /\ Cardinality(T) \in Nat
         /\ Cardinality(T) + (IF p \in S THEN 1 ELSE 0) = Cardinality(S) + (IF p \in T THEN 1 ELSE 0)
<1>1. IsFiniteSet(S) /\ IsFiniteSet(T) /\ Cardinality(S) \in Nat /\ Cardinality(T) \in Nat
  BY InodeAssumption, FS_Subset, FS_CardinalityType
<1>2. CASE p \in S <=> p \in T
  <2>1. S = T
    BY <1>2
  <2> QED
    BY <1>1, <2>1
<1>3. CASE p \in S /\ p \notin T
  <2>1. T = S \ {p}
    BY <1>3
  <2>2. Cardinality(T) = Cardinality(S) - 1
    BY <1>1, <1>3, <2>1, FS_RemoveElement
  <2> QED
    BY <1>1, <1>3, <2>2
<1>4. CASE p \notin S /\ p \in T
  <2>1. T = S \cup {p}
    BY <1>4
  <2>2. Cardinality(T) = Cardinality(S) + 1
    BY <1>1, <1>4, <2>1, FS_AddElement
  <2> QED
    BY <1>1, <1>4, <2>2
<1> QED
  BY <1>2, <1>3, <1>4

\* The counts stay right when they move by what the references of p do.
LEMMA RefsMove ==
  ASSUME RefsCounted, NEW p \in Procs, Only(p), TypeOK,
         \A s \in Slots : icache'[s].ref \in Nat /\ icache'[s].ref + Mine(p, s) = icache[s].ref + Mine(p, s)'
  PROVE  RefsCounted'
<1> SUFFICES ASSUME NEW s \in Slots
             PROVE  icache'[s].ref = Cardinality({q \in Procs : th'[q].w = s}) + Cardinality({q \in Procs : th'[q].ip = s})
                      + Cardinality({q \in Procs : th'[q].put = s}) + Cardinality({q \in Procs : cwd'[q] = s})
                      + Cardinality({q \in Procs : ofile'[q].ip = s})
  BY DEF RefsCounted
<1> DEFINE W == {q \in Procs : th[q].w = s}          W1 == {q \in Procs : th'[q].w = s}
           I == {q \in Procs : th[q].ip = s}         I1 == {q \in Procs : th'[q].ip = s}
           U == {q \in Procs : th[q].put = s}        U1 == {q \in Procs : th'[q].put = s}
           C == {q \in Procs : cwd[q] = s}           C1 == {q \in Procs : cwd'[q] = s}
           F == {q \in Procs : ofile[q].ip = s}      F1 == {q \in Procs : ofile'[q].ip = s}
<1>1. \A q \in Procs \ {p} : /\ q \in W <=> q \in W1
                             /\ q \in I <=> q \in I1
                             /\ q \in U <=> q \in U1
                             /\ q \in C <=> q \in C1
                             /\ q \in F <=> q \in F1
  BY DEF Only
<1>2. /\ Cardinality(W) \in Nat /\ Cardinality(W1) \in Nat
      /\ Cardinality(W1) + (IF p \in W THEN 1 ELSE 0) = Cardinality(W) + (IF p \in W1 THEN 1 ELSE 0)
  <2> HIDE DEF W, W1
  <2> QED BY <1>1, CountMoves DEF W, W1
<1>3. /\ Cardinality(I) \in Nat /\ Cardinality(I1) \in Nat
      /\ Cardinality(I1) + (IF p \in I THEN 1 ELSE 0) = Cardinality(I) + (IF p \in I1 THEN 1 ELSE 0)
  BY <1>1, CountMoves
<1>4. /\ Cardinality(U) \in Nat /\ Cardinality(U1) \in Nat
      /\ Cardinality(U1) + (IF p \in U THEN 1 ELSE 0) = Cardinality(U) + (IF p \in U1 THEN 1 ELSE 0)
  BY <1>1, CountMoves
<1>5. /\ Cardinality(C) \in Nat /\ Cardinality(C1) \in Nat
      /\ Cardinality(C1) + (IF p \in C THEN 1 ELSE 0) = Cardinality(C) + (IF p \in C1 THEN 1 ELSE 0)
  BY <1>1, CountMoves
<1>6. /\ Cardinality(F) \in Nat /\ Cardinality(F1) \in Nat
      /\ Cardinality(F1) + (IF p \in F THEN 1 ELSE 0) = Cardinality(F) + (IF p \in F1 THEN 1 ELSE 0)
  BY <1>1, CountMoves
<1>7. icache[s].ref = Cardinality(W) + Cardinality(I) + Cardinality(U) + Cardinality(C) + Cardinality(F)
  BY DEF RefsCounted
<1>8. /\ Mine(p, s) = (IF p \in W THEN 1 ELSE 0) + (IF p \in I THEN 1 ELSE 0) + (IF p \in U THEN 1 ELSE 0)
                      + (IF p \in C THEN 1 ELSE 0) + (IF p \in F THEN 1 ELSE 0)
      /\ Mine(p, s)' = (IF p \in W1 THEN 1 ELSE 0) + (IF p \in I1 THEN 1 ELSE 0) + (IF p \in U1 THEN 1 ELSE 0)
                      + (IF p \in C1 THEN 1 ELSE 0) + (IF p \in F1 THEN 1 ELSE 0)
  BY DEF Mine, B
<1>9. icache'[s].ref \in Nat /\ icache'[s].ref + Mine(p, s) = icache[s].ref + Mine(p, s)'
  OBVIOUS
<1> HIDE DEF W, I, U, C, F, W1, I1, U1, C1, F1
<1>10. icache'[s].ref = Cardinality(W1) + Cardinality(I1) + Cardinality(U1) + Cardinality(C1) + Cardinality(F1)
  BY <1>2, <1>3, <1>4, <1>5, <1>6, <1>7, <1>8, <1>9
<1> QED
  BY <1>10 DEF W1, I1, U1, C1, F1

\* Who is referred to is in use.
LEMMA Referenced ==
  ASSUME TypeOK, EntryInv, RefsCounted, NEW p \in Procs, NEW s \in Slots,
         s \in {th[p].w, th[p].ip, th[p].put, cwd[p], ofile[p].ip}
  PROVE  icache[s].ref > 0 /\ icache[s].inum \in Inums
<1>0. icache[s].ref \in Nat /\ icache[s].inum \in Inums \cup {Nil}
  BY DEF TypeOK, EntryType
<1> DEFINE W == {q \in Procs : th[q].w = s}
           I == {q \in Procs : th[q].ip = s}
           U == {q \in Procs : th[q].put = s}
           C == {q \in Procs : cwd[q] = s}
           F == {q \in Procs : ofile[q].ip = s}
<1>1. \A S \in SUBSET Procs : Cardinality(S) \in Nat /\ (p \in S => Cardinality(S) > 0)
  <2> SUFFICES ASSUME NEW S \in SUBSET Procs PROVE Cardinality(S) \in Nat /\ (p \in S => Cardinality(S) > 0)
    OBVIOUS
  <2>1. IsFiniteSet(S)
    BY InodeAssumption, FS_Subset
  <2> QED
    BY <2>1, FS_CardinalityType, FS_EmptySet
<1>2. W \in SUBSET Procs /\ I \in SUBSET Procs /\ U \in SUBSET Procs /\ C \in SUBSET Procs /\ F \in SUBSET Procs
  OBVIOUS
<1>3. p \in W \/ p \in I \/ p \in U \/ p \in C \/ p \in F
  OBVIOUS
<1>4. icache[s].ref = Cardinality(W) + Cardinality(I) + Cardinality(U) + Cardinality(C) + Cardinality(F)
  BY DEF RefsCounted
<1> HIDE DEF W, I, U, C, F
<1>5. icache[s].ref > 0
  BY <1>1, <1>2, <1>3, <1>4
<1> QED
  BY <1>0, <1>5 DEF EntryInv

-----------------------------------------------------------------------------
(***************************************************************************)
(* Thread records and the entries of the cache, field by field.            *)
(***************************************************************************)
\* The labels are labels.
LEMMA Labels ==
  /\ {"iput", "ifree", "unref", "end", "none", "idle", "start", "write"} \subseteq PCs
  /\ Parents \subseteq PCs /\ Leaves \subseteq PCs /\ WithW \subseteq PCs /\ WithIp \subseteq PCs /\ Looking \subseteq PCs
BY DEF PCs, Parents, Leaves, WithW, WithIp, Looking

\* A thread goes on at l, ...
LEMMA SetPc ==
  ASSUME NEW t \in ThreadType, NEW l \in PCs
  PROVE  Moves([t EXCEPT !.pc = l], t, l, t.path, t.w, t.ip, t.put, t.ret)
<1>1. [t EXCEPT !.pc = l] =
        [pc |-> l, op |-> t.op, path |-> t.path, par |-> t.par, new |-> t.new, wr |-> t.wr,
         w |-> t.w, ip |-> t.ip, put |-> t.put, ret |-> t.ret, ok |-> t.ok, no |-> t.no]
  BY DEF ThreadType
<1> QED
  BY <1>1 DEF Moves, ThreadType

\* ... has a path, ...
LEMMA SetPath ==
  ASSUME NEW t \in ThreadType, NEW q \in Seq(Elements)
  PROVE  Moves([t EXCEPT !.path = q], t, t.pc, q, t.w, t.ip, t.put, t.ret)
<1>1. [t EXCEPT !.path = q] =
        [pc |-> t.pc, op |-> t.op, path |-> q, par |-> t.par, new |-> t.new, wr |-> t.wr,
         w |-> t.w, ip |-> t.ip, put |-> t.put, ret |-> t.ret, ok |-> t.ok, no |-> t.no]
  BY SMTT(60) DEF ThreadType
<1> QED
  BY <1>1 DEF Moves, ThreadType

\* ... takes or gives up its directory, ...
LEMMA SetW ==
  ASSUME NEW t \in ThreadType, NEW x \in Slots \cup {Nil}
  PROVE  Moves([t EXCEPT !.w = x], t, t.pc, t.path, x, t.ip, t.put, t.ret)
<1>1. [t EXCEPT !.w = x] =
        [pc |-> t.pc, op |-> t.op, path |-> t.path, par |-> t.par, new |-> t.new, wr |-> t.wr,
         w |-> x, ip |-> t.ip, put |-> t.put, ret |-> t.ret, ok |-> t.ok, no |-> t.no]
  BY DEF ThreadType
<1> QED
  BY <1>1 DEF Moves, ThreadType

\* ... or its inode, ...
LEMMA SetIp ==
  ASSUME NEW t \in ThreadType, NEW y \in Slots \cup {Nil}
  PROVE  Moves([t EXCEPT !.ip = y], t, t.pc, t.path, t.w, y, t.put, t.ret)
<1>1. [t EXCEPT !.ip = y] =
        [pc |-> t.pc, op |-> t.op, path |-> t.path, par |-> t.par, new |-> t.new, wr |-> t.wr,
         w |-> t.w, ip |-> y, put |-> t.put, ret |-> t.ret, ok |-> t.ok, no |-> t.no]
  BY DEF ThreadType
<1> QED
  BY <1>1 DEF Moves, ThreadType

\* ... or what it puts, ...
LEMMA SetPut ==
  ASSUME NEW t \in ThreadType, NEW x \in Slots \cup {Nil}
  PROVE  Moves([t EXCEPT !.put = x], t, t.pc, t.path, t.w, t.ip, x, t.ret)
<1>1. [t EXCEPT !.put = x] =
        [pc |-> t.pc, op |-> t.op, path |-> t.path, par |-> t.par, new |-> t.new, wr |-> t.wr,
         w |-> t.w, ip |-> t.ip, put |-> x, ret |-> t.ret, ok |-> t.ok, no |-> t.no]
  BY DEF ThreadType
<1> QED
  BY <1>1 DEF Moves, ThreadType

\* ... and where it goes then.
LEMMA SetRet ==
  ASSUME NEW t \in ThreadType, NEW l \in PCs
  PROVE  Moves([t EXCEPT !.ret = l], t, t.pc, t.path, t.w, t.ip, t.put, l)
<1>1. [t EXCEPT !.ret = l] =
        [pc |-> t.pc, op |-> t.op, path |-> t.path, par |-> t.par, new |-> t.new, wr |-> t.wr,
         w |-> t.w, ip |-> t.ip, put |-> t.put, ret |-> l, ok |-> t.ok, no |-> t.no]
  BY DEF ThreadType
<1> QED
  BY <1>1 DEF Moves, ThreadType

\* It takes or gives up directory and inode, ...
LEMMA SetWIp ==
  ASSUME NEW t \in ThreadType, NEW x \in Slots \cup {Nil}, NEW y \in Slots \cup {Nil}
  PROVE  Moves([t EXCEPT !.w = x, !.ip = y], t, t.pc, t.path, x, y, t.put, t.ret)
<1> DEFINE t1 == [t EXCEPT !.w = x]
           t2 == [t1 EXCEPT !.ip = y]
<1>1. Moves(t1, t, t.pc, t.path, x, t.ip, t.put, t.ret)
  BY SetW
<1>2. Moves(t2, t1, t1.pc, t1.path, t1.w, y, t1.put, t1.ret)
  BY ZenonT(60), SetIp, <1>1 DEF Moves
<1>3. [t EXCEPT !.w = x, !.ip = y] = t2
  OBVIOUS
<1> HIDE DEF t1, t2
<1> QED
  BY <1>1, <1>2, <1>3 DEF Moves

\* ... walks on, ...
LEMMA SetWPath ==
  ASSUME NEW t \in ThreadType, NEW x \in Slots \cup {Nil}, NEW q \in Seq(Elements)
  PROVE  Moves([t EXCEPT !.w = x, !.path = q], t, t.pc, q, x, t.ip, t.put, t.ret)
<1> DEFINE t1 == [t EXCEPT !.w = x]
           t2 == [t1 EXCEPT !.path = q]
<1>1. Moves(t1, t, t.pc, t.path, x, t.ip, t.put, t.ret)
  BY SetW
<1>2. Moves(t2, t1, t1.pc, q, t1.w, t1.ip, t1.put, t1.ret)
  BY ZenonT(60), SetPath, <1>1 DEF Moves
<1>3. [t EXCEPT !.w = x, !.path = q] = t2
  OBVIOUS
<1> HIDE DEF t1, t2
<1> QED
  BY <1>1, <1>2, <1>3 DEF Moves

\* ... from where it starts, ...
LEMMA SetStart ==
  ASSUME NEW t \in ThreadType, NEW l \in PCs, NEW x \in Slots \cup {Nil}, NEW q \in Seq(Elements)
  PROVE  Moves([t EXCEPT !.pc = l, !.w = x, !.path = q], t, l, q, x, t.ip, t.put, t.ret)
<1> DEFINE t1 == [t EXCEPT !.pc = l]
           t2 == [t1 EXCEPT !.w = x]
           t3 == [t2 EXCEPT !.path = q]
<1>1. Moves(t1, t, l, t.path, t.w, t.ip, t.put, t.ret)
  BY SetPc
<1>2. Moves(t2, t1, t1.pc, t1.path, x, t1.ip, t1.put, t1.ret)
  BY ZenonT(60), SetW, <1>1 DEF Moves
<1>3. Moves(t3, t2, t2.pc, q, t2.w, t2.ip, t2.put, t2.ret)
  BY ZenonT(60), SetPath, <1>2 DEF Moves
<1>4. [t EXCEPT !.pc = l, !.w = x, !.path = q] = t3
  OBVIOUS
<1> HIDE DEF t1, t2, t3
<1> QED
  BY <1>1, <1>2, <1>3, <1>4 DEF Moves

\* ... enters the new inode, ...
LEMMA SetPcIp ==
  ASSUME NEW t \in ThreadType, NEW l \in PCs, NEW y \in Slots \cup {Nil}
  PROVE  Moves([t EXCEPT !.pc = l, !.ip = y], t, l, t.path, t.w, y, t.put, t.ret)
<1> DEFINE t1 == [t EXCEPT !.pc = l]
           t2 == [t1 EXCEPT !.ip = y]
<1>1. Moves(t1, t, l, t.path, t.w, t.ip, t.put, t.ret)
  BY SetPc
<1>2. Moves(t2, t1, t1.pc, t1.path, t1.w, y, t1.put, t1.ret)
  BY SetIp, <1>1 DEF Moves
<1>3. [t EXCEPT !.pc = l, !.ip = y] = t2
  OBVIOUS
<1> HIDE DEF t1, t2
<1> QED
  BY <1>1, <1>2, <1>3 DEF Moves

\* ... returns from iput ...
LEMMA SetBack ==
  ASSUME NEW t \in ThreadType, NEW l \in PCs
  PROVE  Moves([t EXCEPT !.pc = l, !.put = Nil, !.ret = "none"], t, l, t.path, t.w, t.ip, Nil, "none")
<1> DEFINE t1 == [t EXCEPT !.pc = l]
           t2 == [t1 EXCEPT !.put = Nil]
           t3 == [t2 EXCEPT !.ret = "none"]
<1>1. Moves(t1, t, l, t.path, t.w, t.ip, t.put, t.ret)
  BY SetPc
<1>2. Moves(t2, t1, t1.pc, t1.path, t1.w, t1.ip, Nil, t1.ret)
  BY SetPut, <1>1 DEF Moves
<1>3. Moves(t3, t2, t2.pc, t2.path, t2.w, t2.ip, t2.put, "none")
  BY ZenonT(60), SetRet, <1>2, Labels DEF Moves
<1>4. [t EXCEPT !.pc = l, !.put = Nil, !.ret = "none"] = t3
  OBVIOUS
<1> HIDE DEF t1, t2, t3
<1> QED
  BY <1>1, <1>2, <1>3, <1>4 DEF Moves

\* ... or calls it.
LEMMA PutIs ==
  ASSUME NEW t \in ThreadType, NEW x \in Slots \cup {Nil}, NEW l \in PCs
  PROVE  Moves(Put(t, x, l), t, "iput", t.path, t.w, t.ip, x, l)
<1> DEFINE t1 == [t EXCEPT !.pc = "iput"]
           t2 == [t1 EXCEPT !.put = x]
           t3 == [t2 EXCEPT !.ret = l]
<1>1. Moves(t1, t, "iput", t.path, t.w, t.ip, t.put, t.ret)
  BY SetPc, Labels
<1>2. Moves(t2, t1, t1.pc, t1.path, t1.w, t1.ip, x, t1.ret)
  BY SetPut, <1>1 DEF Moves
<1>3. Moves(t3, t2, t2.pc, t2.path, t2.w, t2.ip, t2.put, l)
  BY ZenonT(60), SetRet, <1>2 DEF Moves
<1>4. Put(t, x, l) = t3
  BY DEF Put
<1> HIDE DEF t1, t2, t3
<1> QED
  BY <1>1, <1>2, <1>3, <1>4 DEF Moves

\* A thread outside a call.
LEMMA IdleIs ==
  /\ Idle \in ThreadType /\ LocalOk(Idle)
  /\ Idle.w = Nil /\ Idle.ip = Nil /\ Idle.put = Nil /\ Idle.pc = "idle"
<1>1. <<>> \in Seq(Elements)
  OBVIOUS
<1>2. Idle \in ThreadType
  BY <1>1, Labels DEF Idle, ThreadType
<1>3. LocalOk(Idle)
  BY DEF Idle, LocalOk, RefsOk, LookOk, PathOk, Where, Putting, WithW, WithIp, Looking, Parents, Leaves, Nil
<1> QED
  BY <1>2, <1>3 DEF Idle

\* One thread changes.
LEMMA ThreadSet ==
  ASSUME TypeOK, NEW p \in Procs, NEW u \in ThreadType, th' = [th EXCEPT ![p] = u],
         UNCHANGED <<cwd, ofile>>
  PROVE  Only(p) /\ th'[p] = u /\ cwd'[p] = cwd[p] /\ ofile'[p] = ofile[p]
BY DEF TypeOK, Only

-----------------------------------------------------------------------------
(***************************************************************************)
(* What each step does to the call and to the references of its process.   *)
(***************************************************************************)
FileOk(p) ==
  /\ ofile[p].ip = Nil => ~ofile[p].writable
  /\ th[p].pc = "write" => ofile[p].ip # Nil

Keeps(p) == Only(p) /\ LocalOk(th'[p]) /\ FileOk(p)' /\ \A s \in Slots : Mine(p, s)' = Mine(p, s)
Adds(p, z) == Only(p) /\ LocalOk(th'[p]) /\ FileOk(p)' /\ \A s \in Slots : Mine(p, s)' = Mine(p, s) + B(z, s)

\* Null is no entry.
LEMMA NilSlot == Nil \notin Slots /\ Nil \notin Inums /\ Nil \notin Blocks
BY InodeAssumption DEF Nil, Slots, Inums, Blocks

\* The thread of a process at a step, and what it may rely on.
LEMMA ThreadIs ==
  ASSUME IInv, NEW p \in Procs
  PROVE  /\ th[p] \in ThreadType /\ LocalOk(th[p]) /\ FileOk(p)
         /\ th[p].w \in Slots \cup {Nil} /\ th[p].ip \in Slots \cup {Nil} /\ th[p].put \in Slots \cup {Nil}
         /\ th[p].path \in Seq(Elements) /\ th[p].new \in Seq(Elements) /\ cwd[p] \in Slots
         /\ th[p].ok \in PCs /\ th[p].no \in PCs /\ th[p].ret \in PCs /\ ofile[p].ip \in Slots \cup {Nil}
BY DEF IInv, TypeOK, LocalInv, FileInv, LocalOk, FileOk, ThreadType

\* Nothing but the thread of p changes, and its references only change roles.
LEMMA KeepsThread ==
  ASSUME IInv, NEW p \in Procs, NEW u \in ThreadType, th' = [th EXCEPT ![p] = u], UNCHANGED <<cwd, ofile>>,
         LocalOk(u), u.pc # "write",
         \A s \in Slots : B(u.w, s) + B(u.ip, s) + B(u.put, s) = B(th[p].w, s) + B(th[p].ip, s) + B(th[p].put, s)
  PROVE  Keeps(p)
<1>1. Only(p) /\ th'[p] = u /\ cwd'[p] = cwd[p] /\ ofile'[p] = ofile[p]
  BY ThreadSet DEF IInv
<1>2. FileOk(p)'
  BY <1>1, ThreadIs DEF FileOk
<1>3. ASSUME NEW s \in Slots PROVE Mine(p, s)' = Mine(p, s)
  BY <1>1 DEF Mine, B
<1> QED
  BY <1>1, <1>2, <1>3 DEF Keeps

\* ... or it has one to z more.
LEMMA AddsThread ==
  ASSUME IInv, NEW p \in Procs, NEW z \in Slots, NEW u \in ThreadType, th' = [th EXCEPT ![p] = u],
         UNCHANGED <<cwd, ofile>>, LocalOk(u), u.pc # "write",
         \A s \in Slots : B(u.w, s) + B(u.ip, s) + B(u.put, s) = B(th[p].w, s) + B(th[p].ip, s) + B(th[p].put, s) + B(z, s)
  PROVE  Adds(p, z)
<1>1. Only(p) /\ th'[p] = u /\ cwd'[p] = cwd[p] /\ ofile'[p] = ofile[p]
  BY ThreadSet DEF IInv
<1>2. FileOk(p)'
  BY <1>1, ThreadIs DEF FileOk
<1>3. ASSUME NEW s \in Slots PROVE Mine(p, s)' = Mine(p, s) + B(z, s)
  BY <1>1 DEF Mine, B
<1> QED
  BY <1>1, <1>2, <1>3 DEF Adds

\* The directory is put, and the call goes on without it, ...
LEMMA PutsW ==
  ASSUME IInv, NEW p \in Procs, NEW l \in {"end", "link_bad", "opened", "unlink_drop", "link_done"},
         th[p].put = Nil, th[p].w # Nil, th[p].ip # Nil <=> l # "end",
         th' = [th EXCEPT ![p] = Put([th[p] EXCEPT !.w = Nil], th[p].w, l)], UNCHANGED <<cwd, ofile>>
  PROVE  Keeps(p)
<1> DEFINE t == th[p]
           t1 == [t EXCEPT !.w = Nil]
           u == Put(t1, t.w, l)
<1>1. t \in ThreadType /\ LocalOk(t) /\ t.w \in Slots /\ l \in PCs
  BY ThreadIs, Labels DEF PCs
<1>2. Moves(t1, t, t.pc, t.path, Nil, t.ip, t.put, t.ret)
  BY <1>1, SetW
<1>3. Moves(u, t1, "iput", t1.path, t1.w, t1.ip, t.w, l)
  <2>1. t1 \in ThreadType
    BY <1>2 DEF Moves
  <2> QED
    BY <1>1, <2>1, PutIs
<1> HIDE DEF t1, u
<1>4. Moves(u, t, "iput", t.path, Nil, t.ip, t.w, l)
  BY <1>2, <1>3 DEF Moves
<1>5. LocalOk(u)
  BY <1>1, <1>4, NilSlot DEF Moves, LocalOk, RefsOk, LookOk, PathOk, Where, Putting, WithW, WithIp, Looking,
       Parents, Leaves
<1>6. \A s \in Slots : B(u.w, s) + B(u.ip, s) + B(u.put, s) = B(t.w, s) + B(t.ip, s) + B(t.put, s)
  BY <1>4, NilSlot DEF Moves, B
<1>7. th' = [th EXCEPT ![p] = u] /\ u \in ThreadType /\ u.pc # "write"
  BY <1>4 DEF Moves, u, t1
<1> QED
  BY <1>5, <1>6, <1>7, KeepsThread

\* ... or the inode.
LEMMA PutsIp ==
  ASSUME IInv, NEW p \in Procs, NEW l \in {"end", "unlock_w"},
         th[p].put = Nil, th[p].ip # Nil,
         IF l = "end" THEN th[p].w = Nil ELSE th[p].pc = "unlink_ip",
         th' = [th EXCEPT ![p] = Put([th[p] EXCEPT !.ip = Nil], th[p].ip, l)], UNCHANGED <<cwd, ofile>>
  PROVE  Keeps(p)
<1> DEFINE t == th[p]
           t1 == [t EXCEPT !.ip = Nil]
           u == Put(t1, t.ip, l)
<1>1. t \in ThreadType /\ LocalOk(t) /\ t.ip \in Slots /\ l \in PCs
  BY ThreadIs, Labels DEF PCs
<1>2. Moves(t1, t, t.pc, t.path, t.w, Nil, t.put, t.ret)
  BY <1>1, SetIp
<1>3. Moves(u, t1, "iput", t1.path, t1.w, t1.ip, t.ip, l)
  <2>1. t1 \in ThreadType
    BY <1>2 DEF Moves
  <2> QED
    BY <1>1, <2>1, PutIs
<1> HIDE DEF t1, u
<1>4. Moves(u, t, "iput", t.path, t.w, Nil, t.ip, l)
  BY <1>2, <1>3 DEF Moves
<1>5. LocalOk(u)
  BY <1>1, <1>4, NilSlot DEF Moves, LocalOk, RefsOk, LookOk, PathOk, Where, Putting, WithW, WithIp, Looking,
       Parents, Leaves
<1>6. \A s \in Slots : B(u.w, s) + B(u.ip, s) + B(u.put, s) = B(t.w, s) + B(t.ip, s) + B(t.put, s)
  BY <1>4, NilSlot DEF Moves, B
<1>7. th' = [th EXCEPT ![p] = u] /\ u \in ThreadType /\ u.pc # "write"
  BY <1>4 DEF Moves, u, t1
<1> QED
  BY <1>5, <1>6, <1>7, KeepsThread

\* A step within iput.
LEMMA PutStep ==
  ASSUME IInv, NEW p \in Procs, NEW l \in {"ifree", "unref"}, th[p].pc \in Putting,
         th' = [th EXCEPT ![p].pc = l], UNCHANGED <<cwd, ofile>>
  PROVE  Keeps(p)
<1> DEFINE t == th[p]
           u == [t EXCEPT !.pc = l]
<1>1. t \in ThreadType /\ LocalOk(t) /\ l \in PCs
  BY ThreadIs, Labels
<1>2. Moves(u, t, l, t.path, t.w, t.ip, t.put, t.ret)
  BY <1>1, SetPc
<1> HIDE DEF u
<1>3. LocalOk(u)
  BY <1>1, <1>2 DEF Moves, LocalOk, RefsOk, LookOk, PathOk, Where, Putting, WithW, WithIp, Looking, Parents, Leaves
<1>4. th' = [th EXCEPT ![p] = u] /\ u \in ThreadType /\ u.pc # "write"
  BY <1>2 DEF Moves, u
<1> QED
  BY <1>2, <1>3, <1>4, KeepsThread DEF Moves

\* namex has what it was asked for.
LEMMA FoundStep ==
  ASSUME IInv, NEW p \in Procs, th[p].pc = "namex", th[p].par => th[p].path # <<>>,
         th' = [th EXCEPT ![p].pc = th[p].ok], UNCHANGED <<cwd, ofile>>
  PROVE  Keeps(p)
<1> DEFINE t == th[p]
           u == [t EXCEPT !.pc = t.ok]
<1>1. t \in ThreadType /\ LocalOk(t) /\ t.ok \in PCs
  BY ThreadIs
<1>2. Moves(u, t, t.ok, t.path, t.w, t.ip, t.put, t.ret)
  BY <1>1, SetPc
<1> HIDE DEF u
<1>3. t.put = Nil /\ t.ok \in Parents \cup Leaves
  BY <1>1 DEF LocalOk, RefsOk, LookOk, PathOk, Where, Putting, WithW, WithIp, Looking, Parents, Leaves
<1>4. LocalOk(u)
  BY <1>1, <1>2, <1>3 DEF Moves, LocalOk, RefsOk, LookOk, PathOk, Where, Putting, WithW, WithIp, Looking,
       Parents, Leaves
<1>5. th' = [th EXCEPT ![p] = u] /\ u \in ThreadType /\ u.pc # "write"
  BY <1>2, <1>3 DEF Moves, u, Parents, Leaves
<1> QED
  BY <1>2, <1>4, <1>5, KeepsThread DEF Moves

\* A call that has inode s opens it, or puts it and ends.
LEMMA OpenedStep ==
  ASSUME IInv, NEW p \in Procs, NEW s \in Slots, th[p].put = Nil,
         (th[p].w = s /\ th[p].ip = Nil) \/ (th[p].w = Nil /\ th[p].ip = s),
         Opened(p, th[p], s), UNCHANGED cwd
  PROVE  Keeps(p)
<1> DEFINE t == th[p]
<1>0. t \in ThreadType /\ LocalOk(t) /\ FileOk(p) /\ TypeOK /\ "end" \in PCs
  BY ThreadIs, Labels DEF IInv
<1>1. CASE t.op # "mkdir" /\ ofile[p] = NoFile
  <2>1. ofile' = [ofile EXCEPT ![p] = [ip |-> s, writable |-> t.wr]] /\ th' = [th EXCEPT ![p] = Idle]
    BY <1>1 DEF Opened
  <2>2. t.wr \in BOOLEAN
    BY <1>0 DEF ThreadType
  <2>3. Only(p) /\ th'[p] = Idle /\ ofile'[p].ip = s /\ cwd'[p] = cwd[p]
    BY <1>0, <2>1, <2>2, IdleIs DEF Only, TypeOK
  <2>4. ofile[p].ip = Nil
    BY <1>1 DEF NoFile
  <2>5. ASSUME NEW r \in Slots PROVE Mine(p, r)' = Mine(p, r)
    BY <2>3, <2>4, IdleIs, NilSlot DEF Mine, B
  <2>6. FileOk(p)'
    BY <2>3, IdleIs, NilSlot DEF FileOk
  <2> QED
    BY <2>3, <2>5, <2>6, IdleIs DEF Keeps
<1>2. CASE ~(t.op # "mkdir" /\ ofile[p] = NoFile)
  <2> DEFINE t1 == [t EXCEPT !.w = Nil, !.ip = Nil]
             u == Put(t1, s, "end")
  <2>1. th' = [th EXCEPT ![p] = u] /\ UNCHANGED ofile
    BY <1>2 DEF Opened
  <2>2. Moves(t1, t, t.pc, t.path, Nil, Nil, t.put, t.ret)
    BY <1>0, SetWIp
  <2>3. Moves(u, t1, "iput", t1.path, t1.w, t1.ip, s, "end")
    <3>1. t1 \in ThreadType
      BY <2>2 DEF Moves
    <3> QED
      BY <1>0, <3>1, PutIs
  <2> HIDE DEF t1, u
  <2>4. Moves(u, t, "iput", t.path, Nil, Nil, s, "end")
    BY <2>2, <2>3 DEF Moves
  <2>5. LocalOk(u)
    BY <1>0, <2>4, NilSlot DEF Moves, LocalOk, RefsOk, LookOk, PathOk, Where, Putting, WithW, WithIp, Looking,
         Parents, Leaves
  <2>6. \A r \in Slots : B(u.w, r) + B(u.ip, r) + B(u.put, r) = B(t.w, r) + B(t.ip, r) + B(t.put, r)
    BY <2>4, NilSlot DEF Moves, B
  <2>7. u \in ThreadType /\ u.pc # "write"
    BY <2>4 DEF Moves
  <2> QED
    BY <2>1, <2>5, <2>6, <2>7, KeepsThread
<1> QED
  BY <1>1, <1>2

\* A lookup is for a directory or for an inode.
LEMMA SetPar ==
  ASSUME NEW t \in ThreadType, NEW b
  PROVE  [t EXCEPT !.par = b] =
           [pc |-> t.pc, op |-> t.op, path |-> t.path, par |-> b, new |-> t.new, wr |-> t.wr, w |-> t.w,
            ip |-> t.ip, put |-> t.put, ret |-> t.ret, ok |-> t.ok, no |-> t.no]
BY SMTT(60) DEF ThreadType

\* A lookup begins.
LEMMA LookupIs ==
  ASSUME NEW t \in ThreadType, NEW q \in Seq(Elements), NEW par \in BOOLEAN, NEW ok \in PCs, NEW no \in PCs
  PROVE  LET u == Lookup(t, q, par, ok, no) IN
         /\ u \in ThreadType /\ u.pc = "start" /\ u.path = q /\ u.par = par /\ u.ok = ok /\ u.no = no
         /\ u.op = t.op /\ u.new = t.new /\ u.wr = t.wr /\ u.w = t.w /\ u.ip = t.ip /\ u.put = t.put /\ u.ret = t.ret
<1> DEFINE t1 == [t EXCEPT !.pc = "start"]
           t2 == [t1 EXCEPT !.path = q]
           t3 == [t2 EXCEPT !.par = par]
           t4 == [t3 EXCEPT !.ok = ok]
           t5 == [t4 EXCEPT !.no = no]
<1>1. Lookup(t, q, par, ok, no) = t5
  BY DEF Lookup
<1>2. Moves(t1, t, "start", t.path, t.w, t.ip, t.put, t.ret)
  BY SetPc, Labels
<1>3. Moves(t2, t1, t1.pc, q, t1.w, t1.ip, t1.put, t1.ret)
  BY <1>2, SetPath DEF Moves
<1>4. t2 \in ThreadType
  BY <1>3 DEF Moves
<1> HIDE DEF t1, t2
<1>5. t3 = [pc |-> t2.pc, op |-> t2.op, path |-> t2.path, par |-> par, new |-> t2.new, wr |-> t2.wr, w |-> t2.w,
            ip |-> t2.ip, put |-> t2.put, ret |-> t2.ret, ok |-> t2.ok, no |-> t2.no]
  BY <1>4, SetPar
<1>6. t3 \in ThreadType
  BY <1>4, <1>5 DEF ThreadType
<1> HIDE DEF t3
<1>7. t4 = [pc |-> t3.pc, op |-> t3.op, path |-> t3.path, par |-> t3.par, new |-> t3.new, wr |-> t3.wr, w |-> t3.w,
            ip |-> t3.ip, put |-> t3.put, ret |-> t3.ret, ok |-> ok, no |-> t3.no]
  BY SMTT(60), <1>6 DEF ThreadType
<1>8. t4 \in ThreadType
  BY <1>6, <1>7 DEF ThreadType
<1> HIDE DEF t4
<1>9. t5 = [pc |-> t4.pc, op |-> t4.op, path |-> t4.path, par |-> t4.par, new |-> t4.new, wr |-> t4.wr, w |-> t4.w,
            ip |-> t4.ip, put |-> t4.put, ret |-> t4.ret, ok |-> t4.ok, no |-> no]
  BY SMTT(60), <1>8 DEF ThreadType
<1>10. t5 \in ThreadType
  BY <1>8, <1>9 DEF ThreadType
<1> HIDE DEF t5
<1> QED
  BY <1>1, <1>2, <1>3, <1>5, <1>7, <1>9, <1>10 DEF Moves

\* sys_link goes on to the directory of the new name.
LEMMA LinkStep ==
  ASSUME IInv, NEW p \in Procs, th[p].pc = "link",
         th' = [th EXCEPT ![p] = Lookup([th[p] EXCEPT !.w = Nil, !.ip = th[p].w], th[p].new, TRUE, "dirlink", "link_bad")],
         UNCHANGED <<cwd, ofile>>
  PROVE  Keeps(p)
<1> DEFINE t == th[p]
           t1 == [t EXCEPT !.w = Nil, !.ip = t.w]
           u == Lookup(t1, t.new, TRUE, "dirlink", "link_bad")
<1>1. t \in ThreadType /\ LocalOk(t) /\ t.w \in Slots \cup {Nil} /\ t.new \in Seq(Elements)
      /\ "dirlink" \in PCs /\ "link_bad" \in PCs
  BY ThreadIs DEF PCs
<1>2. Moves(t1, t, t.pc, t.path, Nil, t.w, t.put, t.ret)
  BY <1>1, SetWIp
<1>3. /\ u \in ThreadType /\ u.pc = "start" /\ u.path = t.new /\ u.par = TRUE /\ u.ok = "dirlink" /\ u.no = "link_bad"
      /\ u.op = t1.op /\ u.new = t1.new /\ u.w = t1.w /\ u.ip = t1.ip /\ u.put = t1.put /\ u.ret = t1.ret
  <2>1. t1 \in ThreadType
    BY <1>2 DEF Moves
  <2> HIDE DEF t1
  <2>2. ASSUME NEW b \in BOOLEAN
        PROVE  LET v == Lookup(t1, t.new, b, "dirlink", "link_bad") IN
               /\ v \in ThreadType /\ v.pc = "start" /\ v.path = t.new /\ v.par = b /\ v.ok = "dirlink" /\ v.no = "link_bad"
               /\ v.op = t1.op /\ v.new = t1.new /\ v.w = t1.w /\ v.ip = t1.ip /\ v.put = t1.put /\ v.ret = t1.ret
    BY <1>1, <2>1, LookupIs
  <2> QED
    BY <2>2
<1> HIDE DEF t1, u
<1>4. t.put = Nil /\ t.w # Nil /\ t.ip = Nil /\ t.op = "link" /\ IsPath(t.new)
  BY <1>1 DEF LocalOk, RefsOk, LookOk, PathOk, Where, Putting, WithW, WithIp, Looking, Parents, Leaves
<1>5. LocalOk(u)
  BY <1>2, <1>3, <1>4 DEF Moves, LocalOk, RefsOk, LookOk, PathOk, Where, Putting, WithW, WithIp, Looking,
       Parents, Leaves
<1>6. \A s \in Slots : B(u.w, s) + B(u.ip, s) + B(u.put, s) = B(t.w, s) + B(t.ip, s) + B(t.put, s)
  BY <1>2, <1>3, <1>4, NilSlot DEF Moves, B
<1>7. th' = [th EXCEPT ![p] = u] /\ u \in ThreadType /\ u.pc # "write"
  BY <1>3 DEF u, t1
<1> QED
  BY <1>5, <1>6, <1>7, KeepsThread

\* chdir puts the old directory and keeps the new one.
LEMMA ChdirStep ==
  ASSUME IInv, NEW p \in Procs, th[p].pc = "chdir",
         th' = [th EXCEPT ![p] = Put([th[p] EXCEPT !.w = Nil], cwd[p], "end")],
         cwd' = [cwd EXCEPT ![p] = th[p].w], UNCHANGED ofile
  PROVE  Keeps(p)
<1> DEFINE t == th[p]
           t1 == [t EXCEPT !.w = Nil]
           u == Put(t1, cwd[p], "end")
<1>1. t \in ThreadType /\ LocalOk(t) /\ FileOk(p) /\ t.w \in Slots \cup {Nil} /\ cwd[p] \in Slots /\ "end" \in PCs /\ TypeOK
  BY ThreadIs, Labels DEF IInv
<1>2. Moves(t1, t, t.pc, t.path, Nil, t.ip, t.put, t.ret)
  BY <1>1, SetW
<1>3. Moves(u, t1, "iput", t1.path, t1.w, t1.ip, cwd[p], "end")
  <2>1. t1 \in ThreadType
    BY <1>2 DEF Moves
  <2> HIDE DEF t1
  <2> QED
    BY <1>1, <2>1, PutIs
<1> HIDE DEF t1, u
<1>4. Moves(u, t, "iput", t.path, Nil, t.ip, cwd[p], "end")
  BY <1>2, <1>3 DEF Moves
<1>5. t.put = Nil /\ t.w \in Slots /\ t.ip = Nil
  BY <1>1 DEF LocalOk, RefsOk, LookOk, PathOk, Where, Putting, WithW, WithIp, Looking, Parents, Leaves
<1>6. LocalOk(u)
  BY <1>1, <1>4, <1>5, NilSlot DEF Moves, LocalOk, RefsOk, LookOk, PathOk, Where, Putting, WithW, WithIp,
       Looking, Parents, Leaves
<1>7. Only(p) /\ th'[p] = u /\ cwd'[p] = t.w /\ ofile'[p] = ofile[p]
  BY <1>1, <1>4, <1>5 DEF Only, TypeOK, Moves, u, t1
<1>8. FileOk(p)'
  BY <1>1, <1>4, <1>7 DEF FileOk, Moves
<1>9. ASSUME NEW s \in Slots PROVE Mine(p, s)' = Mine(p, s)
  BY <1>4, <1>5, <1>7, NilSlot DEF Mine, B, Moves
<1> QED
  BY <1>6, <1>7, <1>8, <1>9 DEF Keeps

\* A write ends.
LEMMA WriteStep ==
  ASSUME IInv, NEW p \in Procs, th[p].pc = "write", th' = [th EXCEPT ![p] = Idle], UNCHANGED <<cwd, ofile>>
  PROVE  Keeps(p)
<1>1. th[p].put = Nil /\ th[p].w = Nil /\ th[p].ip = Nil
  BY ThreadIs DEF LocalOk, RefsOk, LookOk, PathOk, Where, Putting, WithW, WithIp, Looking, Parents, Leaves
<1> QED
  BY <1>1, IdleIs, KeepsThread

\* Thread record u is t with the arguments of a call.
Called(u, t, op, new, wr) ==
  /\ u \in ThreadType /\ u.op = op /\ u.new = new /\ u.wr = wr
  /\ u.pc = t.pc /\ u.path = t.path /\ u.par = t.par /\ u.w = t.w /\ u.ip = t.ip /\ u.put = t.put
  /\ u.ret = t.ret /\ u.ok = t.ok /\ u.no = t.no

\* A call has a name, ...
LEMMA SetOp ==
  ASSUME NEW t \in ThreadType, NEW o \in Ops
  PROVE  Called([t EXCEPT !.op = o], t, o, t.new, t.wr)
<1>1. [t EXCEPT !.op = o] =
        [pc |-> t.pc, op |-> o, path |-> t.path, par |-> t.par, new |-> t.new, wr |-> t.wr,
         w |-> t.w, ip |-> t.ip, put |-> t.put, ret |-> t.ret, ok |-> t.ok, no |-> t.no]
  <2>1. ASSUME NEW z PROVE [t EXCEPT !.op = z] =
          [pc |-> t.pc, op |-> z, path |-> t.path, par |-> t.par, new |-> t.new, wr |-> t.wr,
           w |-> t.w, ip |-> t.ip, put |-> t.put, ret |-> t.ret, ok |-> t.ok, no |-> t.no]
    BY DEF ThreadType
  <2> QED BY <2>1
<1> QED
  BY <1>1 DEF Called, ThreadType

\* ... a second path, ...
LEMMA SetNew ==
  ASSUME NEW t \in ThreadType, NEW q \in Seq(Elements)
  PROVE  Called([t EXCEPT !.new = q], t, t.op, q, t.wr)
<1>1. [t EXCEPT !.new = q] =
        [pc |-> t.pc, op |-> t.op, path |-> t.path, par |-> t.par, new |-> q, wr |-> t.wr,
         w |-> t.w, ip |-> t.ip, put |-> t.put, ret |-> t.ret, ok |-> t.ok, no |-> t.no]
  <2>1. ASSUME NEW z PROVE [t EXCEPT !.new = z] =
          [pc |-> t.pc, op |-> t.op, path |-> t.path, par |-> t.par, new |-> z, wr |-> t.wr,
           w |-> t.w, ip |-> t.ip, put |-> t.put, ret |-> t.ret, ok |-> t.ok, no |-> t.no]
    BY DEF ThreadType
  <2> QED BY <2>1
<1> QED
  BY <1>1 DEF Called, ThreadType

\* ... and a mode.
LEMMA SetWr ==
  ASSUME NEW t \in ThreadType, NEW m \in BOOLEAN
  PROVE  Called([t EXCEPT !.wr = m], t, t.op, t.new, m)
<1>1. [t EXCEPT !.wr = m] =
        [pc |-> t.pc, op |-> t.op, path |-> t.path, par |-> t.par, new |-> t.new, wr |-> m,
         w |-> t.w, ip |-> t.ip, put |-> t.put, ret |-> t.ret, ok |-> t.ok, no |-> t.no]
  <2>1. ASSUME NEW z PROVE [t EXCEPT !.wr = z] =
          [pc |-> t.pc, op |-> t.op, path |-> t.path, par |-> t.par, new |-> t.new, wr |-> z,
           w |-> t.w, ip |-> t.ip, put |-> t.put, ret |-> t.ret, ok |-> t.ok, no |-> t.no]
    BY DEF ThreadType
  <2> QED BY <2>1
<1> QED
  BY <1>1 DEF Called, ThreadType

\* A call begins.
LEMMA BeginStep ==
  ASSUME IInv, NEW p \in Procs, NEW c \in Calls, begin(p, c)
  PROVE  Keeps(p)
<1> DEFINE t == [Idle EXCEPT !.op = c.op, !.new = c.new, !.wr = c.wr]
<1>1. /\ c.op \in Ops /\ c.path \in Seq(Elements) /\ c.new \in Seq(Elements) /\ c.wr \in BOOLEAN
      /\ c.op \in {"write", "close"} \/ IsPath(c.path)
      /\ c.op = "link" => IsPath(c.new)
  BY InodeAssumption DEF CallType
<1>2. LET a == [Idle EXCEPT !.op = c.op]
          b == [a EXCEPT !.new = c.new] IN t = [b EXCEPT !.wr = c.wr]
  OBVIOUS
<1>3. /\ t \in ThreadType /\ t.w = Idle.w /\ t.ip = Idle.ip /\ t.put = Idle.put /\ t.op = c.op /\ t.new = c.new
      /\ t.path = Idle.path /\ t.ok = Idle.ok /\ t.ret = Idle.ret
  <2> DEFINE a == [Idle EXCEPT !.op = c.op]
             b == [a EXCEPT !.new = c.new]
  <2>1. Called(a, Idle, c.op, Idle.new, Idle.wr)
    BY <1>1, IdleIs, SetOp
  <2>2. Called(b, a, a.op, c.new, a.wr)
    <3> HIDE DEF a
    <3> QED BY <1>1, <2>1, SetNew DEF Called
  <2>3. Called(t, b, b.op, b.new, c.wr)
    <3>1. t = [b EXCEPT !.wr = c.wr]
      BY <1>2
    <3> HIDE DEF b, t
    <3> QED BY <1>1, <2>2, <3>1, SetWr DEF Called
  <2> HIDE DEF a, b, t
  <2> QED
    BY <2>1, <2>2, <2>3 DEF Called
<1>4. /\ t.w = Nil /\ t.ip = Nil /\ t.put = Nil /\ t.op = c.op /\ t.new = c.new /\ t.path = <<>> /\ t.ok = "none" /\ t.ret = "none"
  <2> HIDE DEF t
  <2> QED BY <1>3 DEF Idle
<1>5. th[p].pc = "idle" /\ UNCHANGED cwd
  BY DEF begin, At
<1>6. th[p].w = Nil /\ th[p].ip = Nil /\ th[p].put = Nil
  BY <1>5, ThreadIs DEF LocalOk, RefsOk, LookOk, PathOk, Where, Putting, WithW, WithIp, Looking, Parents, Leaves
<1>7. TypeOK /\ FileOk(p) /\ cwd[p] \in Slots /\ ofile[p].ip \in Slots \cup {Nil} /\ "end" \in PCs
  BY ThreadIs, Labels DEF IInv
<1>8. CASE c.op = "close"
  <2> DEFINE u == Put(t, ofile[p].ip, "end")
  <2>1. th' = [th EXCEPT ![p] = u] /\ ofile' = [ofile EXCEPT ![p] = NoFile] /\ ofile[p] # NoFile
    BY <1>8 DEF begin
  <2> HIDE DEF t
  <2>2. Moves(u, t, "iput", t.path, t.w, t.ip, ofile[p].ip, "end")
    BY <1>3, <1>7, PutIs
  <2> HIDE DEF u
  <2>3. ofile[p] = [ip |-> ofile[p].ip, writable |-> ofile[p].writable] /\ ofile[p].writable \in BOOLEAN
    BY <1>7 DEF TypeOK
  <2>4. ofile[p].ip # Nil
    BY <1>7, <2>1, <2>3 DEF FileOk, NoFile
  <2>5. LocalOk(u)
    BY <1>1, <1>4, <1>8, <2>2, <2>4 DEF Moves, LocalOk, RefsOk, LookOk, PathOk, Where, Putting, WithW, WithIp,
         Looking, Parents, Leaves
  <2>6. NoFile \in [ip : Slots \cup {Nil}, writable : BOOLEAN] /\ NoFile.ip = Nil /\ ~NoFile.writable
    BY DEF NoFile
  <2>7. Only(p) /\ th'[p] = u /\ cwd'[p] = cwd[p] /\ ofile'[p] = NoFile
    BY <1>5, <1>7, <2>1, <2>2, <2>6 DEF Only, TypeOK, Moves
  <2>8. FileOk(p)'
    BY <2>2, <2>6, <2>7 DEF FileOk, Moves
  <2>9. ASSUME NEW s \in Slots PROVE Mine(p, s)' = Mine(p, s)
    BY <1>4, <1>6, <2>2, <2>6, <2>7, NilSlot DEF Mine, B, Moves
  <2> QED
    BY <2>5, <2>7, <2>8, <2>9 DEF Keeps
<1>9. CASE c.op = "write"
  <2> DEFINE u == [t EXCEPT !.pc = "write"]
  <2>1. th' = [th EXCEPT ![p] = u] /\ ofile' = ofile /\ ofile[p].writable
    BY <1>9 DEF begin
  <2> HIDE DEF t
  <2>2. Moves(u, t, "write", t.path, t.w, t.ip, t.put, t.ret)
    BY <1>3, SetPc, Labels
  <2> HIDE DEF u
  <2>3. LocalOk(u)
    BY <1>1, <1>4, <1>9, <2>2 DEF Moves, LocalOk, RefsOk, LookOk, PathOk, Where, Putting, WithW, WithIp,
         Looking, Parents, Leaves
  <2>4. Only(p) /\ th'[p] = u /\ cwd'[p] = cwd[p] /\ ofile'[p] = ofile[p]
    BY <1>5, <1>7, <2>1, <2>2, ThreadSet DEF Moves
  <2>5. FileOk(p)'
    BY <1>7, <2>1, <2>4 DEF FileOk
  <2>6. ASSUME NEW s \in Slots PROVE Mine(p, s)' = Mine(p, s)
    BY <1>4, <1>6, <2>2, <2>4 DEF Mine, B, Moves
  <2> QED
    BY <2>3, <2>4, <2>5, <2>6 DEF Keeps
<1>10. ASSUME NEW par \in BOOLEAN, NEW ok \in {"create", "unlink", "open", "chdir", "link"},
              c.op \notin {"write", "close"}, par <=> ok \in Parents, c.op = "link" <=> ok = "link",
              th' = [th EXCEPT ![p] = Lookup(t, c.path, par, ok, "end")]
       PROVE  Keeps(p)
  <2> DEFINE u == Lookup(t, c.path, par, ok, "end")
  <2>1. th' = [th EXCEPT ![p] = u] /\ ofile' = ofile
    BY <1>10 DEF begin
  <2> HIDE DEF t
  <2>2. ok \in PCs
    BY DEF PCs
  <2>3. /\ u \in ThreadType /\ u.pc = "start" /\ u.path = c.path /\ u.par = par /\ u.ok = ok /\ u.no = "end"
        /\ u.op = t.op /\ u.new = t.new /\ u.w = t.w /\ u.ip = t.ip /\ u.put = t.put
    BY <1>1, <1>3, <1>7, <2>2, LookupIs
  <2> HIDE DEF u
  <2>4. LocalOk(u)
    BY <1>1, <1>4, <1>10, <2>3 DEF LocalOk, RefsOk, LookOk, PathOk, Where, Putting, WithW, WithIp, Looking,
         Parents, Leaves
  <2>5. \A s \in Slots : B(u.w, s) + B(u.ip, s) + B(u.put, s) = B(th[p].w, s) + B(th[p].ip, s) + B(th[p].put, s)
    BY <1>4, <1>6, <2>3
  <2> QED
    BY <1>5, <2>1, <2>3, <2>4, <2>5, KeepsThread
<1>11. CASE c.op \in {"create", "mkdir"}
  <2>1. th' = [th EXCEPT ![p] = Lookup(t, c.path, TRUE, "create", "end")]
    BY <1>11 DEF begin
  <2> QED
    BY <1>10, <1>11, <2>1 DEF Parents
<1>12. CASE c.op = "unlink"
  <2>1. th' = [th EXCEPT ![p] = Lookup(t, c.path, TRUE, "unlink", "end")]
    BY <1>12 DEF begin
  <2> QED
    BY <1>10, <1>12, <2>1 DEF Parents
<1>13. CASE c.op = "open"
  <2>1. th' = [th EXCEPT ![p] = Lookup(t, c.path, FALSE, "open", "end")]
    BY <1>13 DEF begin
  <2> QED
    BY <1>10, <1>13, <2>1 DEF Parents
<1>14. CASE c.op = "chdir"
  <2>1. th' = [th EXCEPT ![p] = Lookup(t, c.path, FALSE, "chdir", "end")]
    BY <1>14 DEF begin
  <2> QED
    BY <1>10, <1>14, <2>1 DEF Parents
<1>15. CASE c.op = "link"
  <2>1. th' = [th EXCEPT ![p] = Lookup(t, c.path, FALSE, "link", "end")]
    BY <1>15 DEF begin
  <2> QED
    BY <1>10, <1>15, <2>1 DEF Parents
<1> QED
  BY <1>1, <1>8, <1>9, <1>11, <1>12, <1>13, <1>14, <1>15 DEF Ops

\* What is left of a path after "/".
LEMMA PathIs ==
  ASSUME NEW q \in Seq(Elements), IsPath(q)
  PROVE  IF Head(q) = "/" THEN Tail(q) \in Seq(Entries) ELSE q \in Seq(Entries)
<1>1. Len(q) \in Nat \ {0} /\ DOMAIN q = 1..Len(q) /\ Head(q) = q[1]
  BY DEF IsPath
<1>2. \A k \in 1..Len(q) : q[k] \in Elements /\ (k # 1 => q[k] \in Entries)
  BY DEF IsPath, Elements
<1>3. CASE Head(q) = "/"
  <2>1. /\ Tail(q) \in Seq(Elements) /\ Len(Tail(q)) = Len(q) - 1
        /\ \A k \in 1..(Len(q) - 1) : Tail(q)[k] = q[k + 1]
    BY <1>1
  <2>2. \A k \in 1..Len(Tail(q)) : Tail(q)[k] \in Entries
    BY <1>1, <1>2, <2>1
  <2> DEFINE r == Tail(q)
  <2>3. r \in Seq(Elements) /\ \A k \in 1..Len(r) : r[k] \in Entries
    BY <2>1, <2>2
  <2> HIDE DEF r
  <2>4. r \in Seq(Entries)
    BY <2>3
  <2> QED
    BY <1>3, <2>4 DEF r
<1>4. CASE Head(q) # "/"
  <2>1. \A k \in 1..Len(q) : q[k] \in Entries
    BY <1>1, <1>2, <1>4 DEF Elements
  <2> QED
    BY <1>4, <2>1
<1> QED
  BY <1>3, <1>4

\* namex starts in the directory of entry z.
LEMMA StartStep ==
  ASSUME IInv, NEW p \in Procs, NEW z \in Slots, th[p].pc = "start",
         th' = [th EXCEPT ![p] = [th[p] EXCEPT !.pc = "namex", !.w = z,
                                               !.path = IF Head(th[p].path) = "/" THEN Tail(@) ELSE @]],
         UNCHANGED <<cwd, ofile>>
  PROVE  Adds(p, z)
<1> DEFINE t == th[p]
           q == IF Head(t.path) = "/" THEN Tail(t.path) ELSE t.path
           u == [t EXCEPT !.pc = "namex", !.w = z, !.path = q]
<1>1. t \in ThreadType /\ LocalOk(t) /\ t.path \in Seq(Elements) /\ "namex" \in PCs
  BY ThreadIs DEF PCs
<1>2. t.put = Nil /\ t.w = Nil /\ IsPath(t.path)
  BY <1>1 DEF LocalOk, RefsOk, LookOk, PathOk, Where, Putting, WithW, WithIp, Looking, Parents, Leaves
<1>3. q \in Seq(Entries)
  BY <1>1, <1>2, PathIs
<1>4. q \in Seq(Elements)
  BY <1>3 DEF Elements
<1>5. th' = [th EXCEPT ![p] = u]
  OBVIOUS
<1> HIDE DEF q
<1>6. Moves(u, t, "namex", q, z, t.ip, t.put, t.ret)
  BY <1>1, <1>4, SetStart
<1> HIDE DEF u
<1>7. LocalOk(u)
  BY <1>1, <1>2, <1>3, <1>6, NilSlot DEF Moves, LocalOk, RefsOk, LookOk, PathOk, Where, Putting, WithW, WithIp,
       Looking, Parents, Leaves
<1>8. \A s \in Slots : B(u.w, s) + B(u.ip, s) + B(u.put, s) = B(t.w, s) + B(t.ip, s) + B(t.put, s) + B(z, s)
  BY <1>2, <1>6, NilSlot DEF Moves, B
<1>9. u \in ThreadType /\ u.pc # "write"
  BY <1>6 DEF Moves
<1> QED
  BY <1>5, <1>7, <1>8, <1>9, AddsThread

\* namex walks on to entry z.
LEMMA WalkStep ==
  ASSUME IInv, NEW p \in Procs, NEW z \in Slots, th[p].pc = "namex", th[p].path # <<>>,
         ~(th[p].par /\ Len(th[p].path) = 1),
         th' = [th EXCEPT ![p] = Put([th[p] EXCEPT !.w = z, !.path = Tail(th[p].path)], th[p].w,
                                     IF Len(th[p].path) = 1 THEN th[p].ok ELSE "namex")],
         UNCHANGED <<cwd, ofile>>
  PROVE  Adds(p, z)
<1> DEFINE t == th[p]
           q == Tail(t.path)
           l == IF Len(t.path) = 1 THEN t.ok ELSE "namex"
           t1 == [t EXCEPT !.w = z, !.path = q]
           u == Put(t1, t.w, l)
<1>1. t \in ThreadType /\ LocalOk(t) /\ t.w \in Slots \cup {Nil} /\ "namex" \in PCs /\ t.ok \in PCs
  BY ThreadIs DEF PCs
<1>2. /\ t.put = Nil /\ t.w # Nil /\ t.path \in Seq(Entries) /\ t.ok \in Parents \cup Leaves
      /\ t.par <=> t.ok \in Parents
  BY <1>1 DEF LocalOk, RefsOk, LookOk, PathOk, Where, Putting, WithW, WithIp, Looking, Parents, Leaves
<1>3. q \in Seq(Entries)
  BY <1>2
<1>4. q \in Seq(Elements)
  BY <1>3 DEF Elements
<1>5. l \in PCs /\ (l = "namex" \/ (l = t.ok /\ l \in Leaves))
  BY <1>1, <1>2
<1>6. th' = [th EXCEPT ![p] = u]
  OBVIOUS
<1> HIDE DEF q, l
<1>7. Moves(t1, t, t.pc, q, z, t.ip, t.put, t.ret)
  BY <1>1, <1>4, SetWPath
<1>8. Moves(u, t1, "iput", t1.path, t1.w, t1.ip, t.w, l)
  <2>1. t1 \in ThreadType
    BY <1>7 DEF Moves
  <2> HIDE DEF t1
  <2> QED
    BY <1>1, <1>5, <2>1, PutIs
<1> HIDE DEF t1, u
<1>9. Moves(u, t, "iput", q, z, t.ip, t.w, l)
  BY <1>7, <1>8 DEF Moves
<1>10. LocalOk(u)
  BY <1>1, <1>2, <1>3, <1>5, <1>9, NilSlot DEF Moves, LocalOk, RefsOk, LookOk, PathOk, Where, Putting, WithW,
       WithIp, Looking, Parents, Leaves
<1>11. \A s \in Slots : B(u.w, s) + B(u.ip, s) + B(u.put, s) = B(t.w, s) + B(t.ip, s) + B(t.put, s) + B(z, s)
  BY <1>2, <1>9, NilSlot DEF Moves, B
<1>12. u \in ThreadType /\ u.pc # "write"
  BY <1>9 DEF Moves
<1> QED
  BY <1>6, <1>10, <1>11, <1>12, AddsThread

\* create has found the name, which is entry z.
LEMMA CreateFoundStep ==
  ASSUME IInv, NEW p \in Procs, NEW z \in Slots, th[p].pc = "create",
         th' = [th EXCEPT ![p] = Put([th[p] EXCEPT !.w = Nil, !.ip = z], th[p].w, "create_lock")],
         UNCHANGED <<cwd, ofile>>
  PROVE  Adds(p, z)
<1> DEFINE t == th[p]
           t1 == [t EXCEPT !.w = Nil, !.ip = z]
           u == Put(t1, t.w, "create_lock")
<1>1. t \in ThreadType /\ LocalOk(t) /\ t.w \in Slots \cup {Nil} /\ "create_lock" \in PCs
  BY ThreadIs DEF PCs
<1>2. t.put = Nil /\ t.w # Nil /\ t.ip = Nil
  BY <1>1 DEF LocalOk, RefsOk, LookOk, PathOk, Where, Putting, WithW, WithIp, Looking, Parents, Leaves
<1>3. Moves(t1, t, t.pc, t.path, Nil, z, t.put, t.ret)
  BY <1>1, SetWIp
<1>4. Moves(u, t1, "iput", t1.path, t1.w, t1.ip, t.w, "create_lock")
  <2>1. t1 \in ThreadType
    BY <1>3 DEF Moves
  <2> HIDE DEF t1
  <2> QED
    BY <1>1, <2>1, PutIs
<1> HIDE DEF t1, u
<1>5. Moves(u, t, "iput", t.path, Nil, z, t.w, "create_lock")
  BY <1>3, <1>4 DEF Moves
<1>6. LocalOk(u)
  BY <1>1, <1>2, <1>5, NilSlot DEF Moves, LocalOk, RefsOk, LookOk, PathOk, Where, Putting, WithW, WithIp,
       Looking, Parents, Leaves
<1>7. \A s \in Slots : B(u.w, s) + B(u.ip, s) + B(u.put, s) = B(t.w, s) + B(t.ip, s) + B(t.put, s) + B(z, s)
  BY <1>2, <1>5, NilSlot DEF Moves, B
<1>8. th' = [th EXCEPT ![p] = u] /\ u \in ThreadType /\ u.pc # "write"
  BY <1>5 DEF Moves, u, t1
<1> QED
  BY <1>6, <1>7, <1>8, AddsThread

\* create has a new inode, or unlink the one to remove, in entry z.
LEMMA HasIpStep ==
  ASSUME IInv, NEW p \in Procs, NEW z \in Slots, NEW l \in {"create_fill", "unlink_ip"},
         th[p].pc = IF l = "create_fill" THEN "create" ELSE "unlink",
         th' = [th EXCEPT ![p] = [th[p] EXCEPT !.pc = l, !.ip = z]], UNCHANGED <<cwd, ofile>>
  PROVE  Adds(p, z)
<1> DEFINE t == th[p]
           u == [t EXCEPT !.pc = l, !.ip = z]
<1>1. t \in ThreadType /\ LocalOk(t) /\ l \in PCs
  BY ThreadIs DEF PCs
<1>2. t.put = Nil /\ t.w # Nil /\ t.ip = Nil
  BY <1>1 DEF LocalOk, RefsOk, LookOk, PathOk, Where, Putting, WithW, WithIp, Looking, Parents, Leaves
<1>3. Moves(u, t, l, t.path, t.w, z, t.put, t.ret)
  BY <1>1, SetPcIp
<1> HIDE DEF u
<1>4. LocalOk(u)
  BY <1>1, <1>2, <1>3, NilSlot DEF Moves, LocalOk, RefsOk, LookOk, PathOk, Where, Putting, WithW, WithIp,
       Looking, Parents, Leaves
<1>5. \A s \in Slots : B(u.w, s) + B(u.ip, s) + B(u.put, s) = B(t.w, s) + B(t.ip, s) + B(t.put, s) + B(z, s)
  BY <1>2, <1>3, NilSlot DEF Moves, B
<1>6. th' = [th EXCEPT ![p] = u] /\ u \in ThreadType /\ u.pc # "write"
  BY <1>3 DEF Moves, u
<1> QED
  BY <1>4, <1>5, <1>6, AddsThread

\* dirlink has found the name, which is entry z.
LEMMA TakenStep ==
  ASSUME IInv, NEW p \in Procs, NEW z \in Slots, th[p].pc = "dirlink",
         th' = [th EXCEPT ![p] = Put(th[p], z, "unlock_w")], UNCHANGED <<cwd, ofile>>
  PROVE  Adds(p, z)
<1> DEFINE t == th[p]
           u == Put(t, z, "unlock_w")
<1>1. t \in ThreadType /\ LocalOk(t) /\ "unlock_w" \in PCs
  BY ThreadIs DEF PCs
<1>2. t.put = Nil /\ t.w # Nil
  BY <1>1 DEF LocalOk, RefsOk, LookOk, PathOk, Where, Putting, WithW, WithIp, Looking, Parents, Leaves
<1>3. Moves(u, t, "iput", t.path, t.w, t.ip, z, "unlock_w")
  BY <1>1, PutIs
<1> HIDE DEF u
<1>4. LocalOk(u)
  BY <1>1, <1>2, <1>3, NilSlot DEF Moves, LocalOk, RefsOk, LookOk, PathOk, Where, Putting, WithW, WithIp,
       Looking, Parents, Leaves
<1>5. \A s \in Slots : B(u.w, s) + B(u.ip, s) + B(u.put, s) = B(t.w, s) + B(t.ip, s) + B(t.put, s) + B(z, s)
  BY <1>2, <1>3, NilSlot DEF Moves, B
<1>6. th' = [th EXCEPT ![p] = u] /\ u \in ThreadType /\ u.pc # "write"
  BY <1>3 DEF Moves, u
<1> QED
  BY <1>4, <1>5, <1>6, AddsThread

\* iput returns without the reference it was given.
LEMMA BackStep ==
  ASSUME IInv, NEW p \in Procs, th[p].pc = "unref",
         th' = [th EXCEPT ![p] = IF @.ret = "end" THEN Idle
                                   ELSE [@ EXCEPT !.pc = th[p].ret, !.put = Nil, !.ret = "none"]],
         UNCHANGED <<cwd, ofile>>
  PROVE  /\ Only(p) /\ LocalOk(th'[p]) /\ FileOk(p)' /\ th[p].put \in Slots
         /\ \A s \in Slots : Mine(p, s) = Mine(p, s)' + B(th[p].put, s)
<1> DEFINE t == th[p]
           u == IF t.ret = "end" THEN Idle ELSE [t EXCEPT !.pc = t.ret, !.put = Nil, !.ret = "none"]
<1>1. t \in ThreadType /\ LocalOk(t) /\ t.put \in Slots \cup {Nil} /\ t.ret \in PCs /\ TypeOK /\ FileOk(p)
  BY ThreadIs DEF IInv
<1>2. t.put \in Slots /\ t.put # Nil
  BY <1>1, NilSlot DEF LocalOk, RefsOk, LookOk, PathOk, Where, Putting, WithW, WithIp, Looking, Parents, Leaves
<1>3. th' = [th EXCEPT ![p] = u]
  OBVIOUS
<1>4. CASE t.ret = "end"
  <2>1. u = Idle /\ t.w = Nil /\ t.ip = Nil
    BY <1>1, <1>2, <1>4 DEF LocalOk, RefsOk, LookOk, PathOk, Where, Putting, WithW, WithIp, Looking, Parents, Leaves
  <2> HIDE DEF u
  <2>2. Only(p) /\ th'[p] = Idle /\ cwd'[p] = cwd[p] /\ ofile'[p] = ofile[p]
    BY <1>1, <1>3, <2>1, IdleIs, ThreadSet
  <2>3. FileOk(p)'
    BY <1>1, <2>2, IdleIs DEF FileOk
  <2>4. ASSUME NEW s \in Slots PROVE Mine(p, s) = Mine(p, s)' + B(t.put, s)
    BY <2>1, <2>2, IdleIs, NilSlot DEF Mine, B
  <2> QED
    BY <1>2, <2>2, <2>3, <2>4, IdleIs
<1>5. CASE t.ret # "end"
  <2> DEFINE v == [t EXCEPT !.pc = t.ret, !.put = Nil, !.ret = "none"]
  <2>1. Moves(v, t, t.ret, t.path, t.w, t.ip, Nil, "none")
    BY <1>1, SetBack
  <2>2. th' = [th EXCEPT ![p] = v]
    BY <1>5
  <2> HIDE DEF u, v
  <2>3. LocalOk(v) /\ v.pc # "write"
    BY <1>1, <1>2, <1>5, <2>1 DEF Moves, LocalOk, RefsOk, LookOk, PathOk, Where, Putting, WithW, WithIp,
         Looking, Parents, Leaves
  <2>4. Only(p) /\ th'[p] = v /\ cwd'[p] = cwd[p] /\ ofile'[p] = ofile[p]
    BY <1>1, <2>1, <2>2, ThreadSet DEF Moves
  <2>5. FileOk(p)'
    BY <1>1, <2>3, <2>4 DEF FileOk
  <2>6. ASSUME NEW s \in Slots PROVE Mine(p, s) = Mine(p, s)' + B(t.put, s)
    BY <2>1, <2>4, NilSlot DEF Mine, B, Moves
  <2> QED
    BY <1>2, <2>3, <2>4, <2>5, <2>6
<1> QED
  BY <1>4, <1>5

-----------------------------------------------------------------------------
(***************************************************************************)
(* What each step does to the cache and to the disk.                       *)
(***************************************************************************)
DiskType == [inode : [Inums -> InodeType], bitmap : SUBSET Blocks]

\* The attributes that an inode and its cache entry share.
SameAttr(x, y) == x.type = y.type /\ x.nlink = y.nlink /\ x.addr = y.addr

Known(d, x) == d.type # "free" /\ SameAttr(x, d)

\* Entry e is entry x of the cache after its process has looked at the inode.
Follows(e, x) == e \in EntryType /\ e.ref = x.ref /\ e.inum = x.inum

Data == disk' \in DiskType /\ icache' \in [Slots -> EntryType] /\ lock' \in [Slots -> Procs \cup {Nobody}]

\* An entry that is referred to.
LEMMA EntryIs ==
  ASSUME IInv, NEW s \in Slots, icache[s].ref > 0
  PROVE  /\ icache[s] \in EntryType /\ icache[s].inum \in Inums /\ icache[s].inum # Nil
         /\ disk.inode[icache[s].inum] \in InodeType
         /\ icache[s].valid => Known(disk.inode[icache[s].inum], icache[s])
<1>1. icache[s] \in EntryType /\ icache[s].inum \in Inums /\ icache[s].inum # Nil
  BY DEF IInv, TypeOK, EntryType, EntryInv
<1>2. disk.inode[icache[s].inum] \in InodeType
  BY <1>1 DEF IInv, TypeOK
<1>3. icache[s].valid => Known(disk.inode[icache[s].inum], icache[s])
  BY DEF IInv, CopyInv, Copy, Known, SameAttr
<1> QED
  BY <1>1, <1>2, <1>3

\* ilock returns with an entry that says what the disk says.
LEMMA LoadedIs ==
  ASSUME IInv, NEW s \in Slots, icache[s].ref > 0, Lockable(s)
  PROVE  /\ Follows(Loaded(s), icache[s]) /\ Loaded(s).valid
         /\ Known(disk.inode[icache[s].inum], Loaded(s))
<1> DEFINE e == icache[s]
           d == disk.inode[e.inum]
<1>1. e \in EntryType /\ d \in InodeType /\ (e.valid => Known(d, e))
  BY EntryIs
<1>2. CASE e.valid
  BY <1>1, <1>2 DEF Loaded, Follows
<1>3. CASE ~e.valid
  <2>1. d.type # "free"
    BY <1>3 DEF Lockable, NoType
  <2>2. Loaded(s) = [e EXCEPT !.valid = TRUE, !.type = d.type, !.nlink = d.nlink, !.addr = d.addr]
    BY <1>3 DEF Loaded
  <2>3. d.type \in Types /\ d.nlink \in Int /\ d.addr \in Blocks \cup {Nil}
    BY <1>1 DEF InodeType
  <2> HIDE DEF e, d
  <2>4. Loaded(s) = [inum |-> e.inum, ref |-> e.ref, valid |-> TRUE, type |-> d.type, nlink |-> d.nlink, addr |-> d.addr]
    BY <1>1, <2>2 DEF EntryType
  <2>5. Loaded(s) \in EntryType
    BY <1>1, <2>3, <2>4 DEF EntryType
  <2> QED
    BY <1>1, <2>1, <2>4, <2>5 DEF Follows, Known, SameAttr, e, d
<1> QED
  BY <1>2, <1>3

\* Entry s of the cache changes, on disk only its inode does.
LEMMA EntryStep ==
  ASSUME IInv, NEW s \in Slots, icache[s].ref > 0, NEW e, Follows(e, icache[s]),
         icache' = [icache EXCEPT ![s] = e], disk' \in DiskType,
         e.valid => Known(disk'.inode[e.inum], e),
         \A j \in Inums \ {e.inum} : SameAttr(disk'.inode[j], disk.inode[j])
  PROVE  SameRefs /\ icache' \in [Slots -> EntryType] /\ CopyInv'
<1>1. icache \in [Slots -> EntryType] /\ e \in EntryType /\ e.ref = icache[s].ref /\ e.inum = icache[s].inum
  BY DEF IInv, TypeOK, Follows
<1>2. icache' \in [Slots -> EntryType] /\ icache'[s] = e /\ \A r \in Slots \ {s} : icache'[r] = icache[r]
  BY <1>1
<1>3. SameRefs
  BY <1>1, <1>2 DEF SameRefs
<1>4. ASSUME NEW r \in Slots, icache'[r].ref > 0, icache'[r].valid PROVE Copy(r)'
  <2>1. CASE r = s
    BY <1>2, <1>4, <2>1 DEF Copy, Known, SameAttr
  <2>2. CASE r # s
    <3>1. icache'[r] = icache[r] /\ icache[r].ref > 0 /\ icache[r].inum \in Inums \ {e.inum}
      BY <1>1, <1>2, <1>4, <2>2, EntryIs DEF IInv, OneEntryPerInode
    <3> QED
      BY <1>4, <3>1, EntryIs DEF Copy, Known, SameAttr
  <2> QED
    BY <2>1, <2>2
<1> QED
  BY <1>2, <1>3, <1>4 DEF CopyInv

\* A process takes a lock and reads the inode.
LEMMA LoadStep ==
  ASSUME IInv, NEW s \in Slots, icache[s].ref > 0, Lockable(s),
         icache' = [icache EXCEPT ![s] = Loaded(s)], disk' = disk
  PROVE  SameRefs /\ icache' \in [Slots -> EntryType] /\ CopyInv'
<1>1. Follows(Loaded(s), icache[s]) /\ Known(disk.inode[icache[s].inum], Loaded(s))
  BY LoadedIs
<1>2. disk \in DiskType /\ Loaded(s).inum = icache[s].inum
  BY <1>1 DEF IInv, TypeOK, DiskType, Follows
<1> QED
  BY <1>1, <1>2, EntryStep DEF SameAttr

\* An entry that nobody refers to, ...
LEMMA NoEntryIs == NoEntry \in EntryType /\ NoEntry.ref = 0 /\ ~NoEntry.valid
<1>1. NoEntry \in EntryType
  BY DEF NoEntry, EntryType, Types
<1> QED
  BY <1>1 DEF NoEntry

\* ... and what iget makes of it.
LEMMA FreshIs ==
  ASSUME NEW e \in EntryType, NEW i \in Inums, NEW f, f = [e EXCEPT !.inum = i, !.ref = 1]
  PROVE  f \in EntryType /\ f.inum = i /\ f.ref = 1 /\ f.valid = e.valid
<1> DEFINE g == [e EXCEPT !.inum = i]
<1>1. f = [g EXCEPT !.ref = 1]
  OBVIOUS
<1>2. g = [inum |-> i, ref |-> e.ref, valid |-> e.valid, type |-> e.type, nlink |-> e.nlink, addr |-> e.addr]
  BY DEF EntryType
<1>3. g \in EntryType
  BY <1>2 DEF EntryType
<1> HIDE DEF g
<1>4. [g EXCEPT !.ref = 1] = [inum |-> i, ref |-> 1, valid |-> e.valid, type |-> e.type, nlink |-> e.nlink, addr |-> e.addr]
  BY <1>2, <1>3 DEF EntryType
<1> QED
  BY <1>1, <1>4 DEF EntryType

\* iget takes one reference more.
LEMMA GetIs ==
  ASSUME IInv, NEW i \in Inums, ~Full(i)
  PROVE  LET z == SlotOf(i) IN
         /\ z \in Slots /\ iget(i) \in [Slots -> EntryType]
         /\ iget(i)[z].ref = icache[z].ref + 1 /\ iget(i)[z].inum = i
         /\ IF icache[z].ref > 0
              THEN /\ icache[z].inum = i /\ iget(i)[z].valid = icache[z].valid
                   /\ SameAttr(iget(i)[z], icache[z])
              ELSE Cached(i) = {} /\ ~iget(i)[z].valid
         /\ \A s \in Slots \ {z} : iget(i)[s] = icache[s]
<1> DEFINE z == SlotOf(i)
           e == icache[z]
<1>1. z \in Slots /\ IF Cached(i) # {} THEN z \in Cached(i) ELSE z \in EmptySlots
  BY SlotIs
<1>2. icache \in [Slots -> EntryType] /\ e \in EntryType /\ e.ref \in Nat
  BY <1>1 DEF IInv, TypeOK, EntryType
<1>3. IF e.ref > 0 THEN e.inum = i ELSE Cached(i) = {} /\ e.ref = 0
  BY <1>1, <1>2 DEF Cached, EmptySlots
<1>5. CASE e.ref > 0
  <2> DEFINE f == [e EXCEPT !.ref = @ + 1]
  <2>1. iget(i) = [icache EXCEPT ![z] = f]
    BY <1>5 DEF iget, idup
  <2> HIDE DEF e, z
  <2>2. f = [inum |-> e.inum, ref |-> e.ref + 1, valid |-> e.valid, type |-> e.type, nlink |-> e.nlink, addr |-> e.addr]
    BY <1>2 DEF EntryType
  <2>3. f \in EntryType
    BY <1>2, <2>2 DEF EntryType
  <2> HIDE DEF f
  <2>4. iget(i) \in [Slots -> EntryType] /\ iget(i)[z] = f /\ \A s \in Slots \ {z} : iget(i)[s] = icache[s]
    BY <1>1, <1>2, <2>1, <2>3 DEF z
  <2> QED
    BY <1>1, <1>3, <1>5, <2>2, <2>4 DEF SameAttr, e, z
<1>6. CASE ~(e.ref > 0)
  <2> DEFINE f == [NoEntry EXCEPT !.inum = i, !.ref = 1]
  <2>1. iget(i) = [icache EXCEPT ![z] = f]
    BY <1>6 DEF iget
  <2> HIDE DEF z
  <2>2. f \in EntryType /\ f.inum = i /\ f.ref = 1 /\ ~f.valid
    <3> DEFINE n == NoEntry
    <3>1. n \in EntryType /\ ~n.valid
      BY NoEntryIs
    <3> HIDE DEF n
    <3>2. \A g : g = [n EXCEPT !.inum = i, !.ref = 1] => g \in EntryType /\ g.inum = i /\ g.ref = 1 /\ g.valid = n.valid
      BY <3>1, FreshIs
    <3>3. f = [n EXCEPT !.inum = i, !.ref = 1]
      BY DEF n
    <3> HIDE DEF f
    <3> QED
      BY <3>1, <3>2, <3>3
  <2> HIDE DEF f
  <2>4. iget(i) \in [Slots -> EntryType] /\ iget(i)[z] = f /\ \A s \in Slots \ {z} : iget(i)[s] = icache[s]
    BY <1>1, <1>2, <2>1, <2>2 DEF z
  <2> QED
    BY <1>1, <1>2, <1>3, <1>6, <2>2, <2>4 DEF z
<1> QED
  BY <1>5, <1>6

\* A reference more to an entry that has one.
LEMMA DupStep ==
  ASSUME IInv, NEW s \in Slots, icache[s].ref > 0, icache' = idup(s), disk' = disk
  PROVE  Gets(s, icache[s].inum) /\ icache' \in [Slots -> EntryType] /\ CopyInv'
<1> DEFINE e == icache[s]
           f == [e EXCEPT !.ref = e.ref + 1]
<1>1. icache \in [Slots -> EntryType] /\ e \in EntryType /\ e.inum \in Inums /\ e.ref \in Nat /\ e.ref > 0
  BY EntryIs DEF IInv, TypeOK, EntryType
<1>2. f = [inum |-> e.inum, ref |-> e.ref + 1, valid |-> e.valid, type |-> e.type, nlink |-> e.nlink, addr |-> e.addr]
  <2> HIDE DEF e
  <2> QED BY <1>1 DEF EntryType
<1>3. f \in EntryType
  <2> HIDE DEF e, f
  <2> QED BY <1>1, <1>2 DEF EntryType
<1>4. icache' = [icache EXCEPT ![s] = f]
  BY DEF idup
<1> HIDE DEF e, f
<1>5. icache' \in [Slots -> EntryType] /\ icache'[s] = f /\ \A r \in Slots \ {s} : icache'[r] = icache[r]
  BY <1>1, <1>3, <1>4
<1>6. Gets(s, icache[s].inum)
  BY <1>1, <1>2, <1>5 DEF Gets, e
<1>7. ASSUME NEW r \in Slots, icache'[r].ref > 0, icache'[r].valid PROVE Copy(r)'
  <2>1. icache[r].ref > 0 /\ icache[r].valid /\ icache'[r].inum = icache[r].inum /\ SameAttr(icache'[r], icache[r])
    BY <1>2, <1>5, <1>7 DEF e, SameAttr
  <2> QED
    BY <2>1, EntryIs DEF Copy, Known, SameAttr
<1> QED
  BY <1>5, <1>6, <1>7 DEF CopyInv

\* iget alone, at the start of namex.
LEMMA GetStep ==
  ASSUME IInv, NEW i \in Inums, ~Full(i), icache' = iget(i), disk' = disk
  PROVE  SlotOf(i) \in Slots /\ Gets(SlotOf(i), i) /\ icache' \in [Slots -> EntryType] /\ CopyInv'
<1> DEFINE z == SlotOf(i)
<1>1. /\ z \in Slots /\ icache' \in [Slots -> EntryType]
      /\ icache'[z].ref = icache[z].ref + 1 /\ icache'[z].inum = i
      /\ IF icache[z].ref > 0
           THEN icache[z].inum = i /\ icache'[z].valid = icache[z].valid /\ SameAttr(icache'[z], icache[z])
           ELSE Cached(i) = {} /\ ~icache'[z].valid
      /\ \A s \in Slots \ {z} : icache'[s] = icache[s]
  BY GetIs
<1> HIDE DEF z
<1>2. Gets(z, i)
  BY <1>1 DEF Gets
<1>3. ASSUME NEW r \in Slots, icache'[r].ref > 0, icache'[r].valid PROVE Copy(r)'
  <2>1. icache[r].ref > 0 /\ icache[r].valid /\ icache'[r].inum = icache[r].inum /\ SameAttr(icache'[r], icache[r])
    BY <1>1, <1>3 DEF SameAttr
  <2> QED
    BY <2>1, EntryIs DEF Copy, Known, SameAttr
<1> QED
  BY <1>1, <1>2, <1>3 DEF CopyInv, z

\* ilock(dp), and iget of what dp names or of an inode that was free.
LEMMA LoadGetStep ==
  ASSUME IInv, NEW w \in Slots, icache[w].ref > 0, Lockable(w), NEW i \in Inums, ~Full(i),
         icache' = [iget(i) EXCEPT ![w] = [Loaded(w) EXCEPT !.ref = iget(i)[w].ref]],
         \A j \in Inums : SameAttr(disk'.inode[j], disk.inode[j]) \/ (j = i /\ disk.inode[j].type = "free")
  PROVE  SlotOf(i) \in Slots /\ Gets(SlotOf(i), i) /\ icache' \in [Slots -> EntryType] /\ CopyInv'
<1> DEFINE z == SlotOf(i)
           g == iget(i)
           l == Loaded(w)
           f == [l EXCEPT !.ref = g[w].ref]
<1>1. /\ z \in Slots /\ g \in [Slots -> EntryType]
      /\ g[z].ref = icache[z].ref + 1 /\ g[z].inum = i
      /\ IF icache[z].ref > 0
           THEN icache[z].inum = i /\ g[z].valid = icache[z].valid /\ SameAttr(g[z], icache[z])
           ELSE Cached(i) = {} /\ ~g[z].valid
      /\ \A s \in Slots \ {z} : g[s] = icache[s]
  BY GetIs
<1>2. l \in EntryType /\ l.inum = icache[w].inum /\ Known(disk.inode[icache[w].inum], l)
  BY LoadedIs DEF Follows
<1>3. g[w].ref \in Nat
  <2> HIDE DEF g
  <2> QED BY <1>1 DEF EntryType
<1> HIDE DEF z, g, l
<1>4. f = [inum |-> l.inum, ref |-> g[w].ref, valid |-> l.valid, type |-> l.type, nlink |-> l.nlink, addr |-> l.addr]
  BY <1>2, <1>3 DEF EntryType
<1>5. f \in EntryType
  BY <1>2, <1>3, <1>4 DEF EntryType
<1>6. icache' = [g EXCEPT ![w] = f]
  BY DEF g, l
<1>7. /\ f \in EntryType /\ f.ref = g[w].ref /\ f.inum = icache[w].inum /\ SameAttr(f, l)
  BY <1>2, <1>4, <1>5 DEF SameAttr
<1> HIDE DEF f
<1>8. icache' \in [Slots -> EntryType] /\ icache'[w] = f /\ \A r \in Slots \ {w} : icache'[r] = g[r]
  BY ZenonT(60), <1>1, <1>6, <1>7
<1>9. \A r \in Slots : icache'[r].ref = g[r].ref /\ icache'[r].inum = g[r].inum
  BY ZenonT(60), <1>1, <1>7, <1>8
<1>10. Gets(z, i)
  BY <1>1, <1>9 DEF Gets
<1>11. ASSUME NEW r \in Slots, icache'[r].ref > 0, icache'[r].valid PROVE Copy(r)'
  <2>1. /\ icache[r].ref > 0 /\ icache'[r].inum = icache[r].inum
        /\ Known(disk.inode[icache[r].inum], icache'[r])
    <3>1. CASE r = w
      BY <1>2, <1>7, <1>8, <3>1 DEF Known, SameAttr
    <3>2. CASE r # w
      <4>1. icache[r].ref > 0 /\ icache[r].valid /\ icache'[r].inum = icache[r].inum /\ SameAttr(icache'[r], icache[r])
        BY <1>1, <1>8, <1>11, <3>2 DEF SameAttr
      <4> QED
        BY <4>1, EntryIs DEF Known, SameAttr
    <3> QED
      BY <3>1, <3>2
  <2>2. icache[r].inum \in Inums
    BY <2>1, EntryIs
  <2>3. SameAttr(disk'.inode[icache[r].inum], disk.inode[icache[r].inum])
    BY <2>1, <2>2 DEF Known
  <2> QED
    BY <2>1, <2>3 DEF Copy, Known, SameAttr
<1> QED
  BY <1>1, <1>8, <1>10, <1>11 DEF CopyInv, z

\* iput gives one reference back.
LEMMA DropStep ==
  ASSUME IInv, NEW s \in Slots, icache[s].ref > 0, disk' = disk,
         icache' = IF icache[s].ref = 1 THEN [icache EXCEPT ![s] = NoEntry] ELSE [icache EXCEPT ![s].ref = @ - 1]
  PROVE  Drops(s) /\ icache' \in [Slots -> EntryType] /\ CopyInv'
<1> DEFINE e == icache[s]
           f == IF e.ref = 1 THEN NoEntry ELSE [e EXCEPT !.ref = e.ref - 1]
<1>1. icache \in [Slots -> EntryType] /\ e \in EntryType /\ e.inum \in Inums /\ e.ref \in Nat /\ e.ref > 0
  BY EntryIs DEF IInv, TypeOK, EntryType
<1>2. icache' = [icache EXCEPT ![s] = f]
  BY <1>1
<1>3. CASE e.ref = 1
  <2>1. f = NoEntry
    BY <1>3
  <2> HIDE DEF f
  <2>2. icache' \in [Slots -> EntryType] /\ icache'[s] = NoEntry /\ \A r \in Slots \ {s} : icache'[r] = icache[r]
    BY <1>1, <1>2, <2>1, NoEntryIs
  <2>3. Drops(s)
    BY <1>1, <1>3, <2>2, NoEntryIs DEF Drops
  <2>4. ASSUME NEW r \in Slots, icache'[r].ref > 0, icache'[r].valid PROVE Copy(r)'
    <3>1. icache'[r] = icache[r]
      BY <2>2, <2>4, NoEntryIs
    <3> QED
      BY <2>4, <3>1, EntryIs DEF Copy, Known, SameAttr
  <2> QED
    BY <2>2, <2>3, <2>4 DEF CopyInv
<1>4. CASE e.ref # 1
  <2> DEFINE h == [e EXCEPT !.ref = e.ref - 1]
  <2>1. f = h
    BY <1>4
  <2>2. h = [inum |-> e.inum, ref |-> e.ref - 1, valid |-> e.valid, type |-> e.type, nlink |-> e.nlink, addr |-> e.addr]
    <3> HIDE DEF e
    <3> QED BY <1>1 DEF EntryType
  <2>3. h \in EntryType
    <3> HIDE DEF e, h
    <3>1. e.ref - 1 \in Nat
      BY <1>1, <1>4
    <3> QED BY <1>1, <2>2, <3>1 DEF EntryType
  <2> HIDE DEF f, h
  <2>4. icache' \in [Slots -> EntryType] /\ icache'[s] = h /\ \A r \in Slots \ {s} : icache'[r] = icache[r]
    BY <1>1, <1>2, <2>1, <2>3
  <2>5. Drops(s)
    BY <1>1, <1>4, <2>2, <2>4 DEF Drops
  <2>6. ASSUME NEW r \in Slots, icache'[r].ref > 0, icache'[r].valid PROVE Copy(r)'
    <3>1. icache[r].ref > 0 /\ icache[r].valid /\ icache'[r].inum = icache[r].inum /\ SameAttr(icache'[r], icache[r])
      BY <2>2, <2>4, <2>6 DEF SameAttr
    <3> QED
      BY <3>1, EntryIs DEF Copy, Known, SameAttr
  <2> QED
    BY <2>4, <2>5, <2>6 DEF CopyInv
<1> QED
  BY <1>3, <1>4

\* iupdate writes the attributes of its entry and nothing else.
LEMMA UpdateIs ==
  ASSUME NEW d \in DiskType, NEW e \in EntryType, e.inum \in Inums
  PROVE  /\ iupdate(d, e) \in DiskType /\ iupdate(d, e).bitmap = d.bitmap
         /\ SameAttr(iupdate(d, e).inode[e.inum], e)
         /\ iupdate(d, e).inode[e.inum].ents = d.inode[e.inum].ents
         /\ \A j \in Inums \ {e.inum} : iupdate(d, e).inode[j] = d.inode[j]
<1> DEFINE x == d.inode[e.inum]
           a == [x EXCEPT !.type = e.type]
           b == [a EXCEPT !.nlink = e.nlink]
           y == [b EXCEPT !.addr = e.addr]
<1>1. d.inode \in [Inums -> InodeType] /\ x \in InodeType /\ d.bitmap \in SUBSET Blocks
  BY DEF DiskType
<1>2. e.type \in Types /\ e.nlink \in Int /\ e.addr \in Blocks \cup {Nil}
  BY DEF EntryType
<1>3. iupdate(d, e) = [d EXCEPT !.inode = [d.inode EXCEPT ![e.inum] = y]]
  BY DEF iupdate
<1>4. d = [inode |-> d.inode, bitmap |-> d.bitmap]
  BY DEF DiskType
<1>5. iupdate(d, e) = [inode |-> [d.inode EXCEPT ![e.inum] = y], bitmap |-> d.bitmap]
  <2> HIDE DEF y
  <2> QED BY <1>3, <1>4
<1> HIDE DEF x
<1>6. a = [type |-> e.type, nlink |-> x.nlink, addr |-> x.addr, ents |-> x.ents] /\ a \in InodeType
  BY <1>1, <1>2 DEF InodeType
<1> HIDE DEF a
<1>7. b = [type |-> e.type, nlink |-> e.nlink, addr |-> x.addr, ents |-> x.ents] /\ b \in InodeType
  BY <1>2, <1>6 DEF InodeType
<1> HIDE DEF b
<1>8. y = [type |-> e.type, nlink |-> e.nlink, addr |-> e.addr, ents |-> x.ents] /\ y \in InodeType
  BY <1>2, <1>7 DEF InodeType
<1> HIDE DEF y
<1> QED
  BY <1>1, <1>5, <1>8 DEF DiskType, SameAttr, x

\* Names in a directory are none of the attributes.
LEMMA EntsIs ==
  ASSUME NEW d \in DiskType, NEW k \in Inums, NEW f \in [Entries -> Inums \cup {Nil}]
  PROVE  /\ [d EXCEPT !.inode[k].ents = f] \in DiskType
         /\ \A j \in Inums : SameAttr([d EXCEPT !.inode[k].ents = f].inode[j], d.inode[j])
<1> DEFINE x == d.inode[k]
           y == [x EXCEPT !.ents = f]
<1>1. d.inode \in [Inums -> InodeType] /\ x \in InodeType /\ d.bitmap \in SUBSET Blocks
  BY DEF DiskType
<1>2. d = [inode |-> d.inode, bitmap |-> d.bitmap]
  BY DEF DiskType
<1>3. [d EXCEPT !.inode[k].ents = f] = [d EXCEPT !.inode = [d.inode EXCEPT ![k] = y]]
  OBVIOUS
<1>4. [d EXCEPT !.inode[k].ents = f] = [inode |-> [d.inode EXCEPT ![k] = y], bitmap |-> d.bitmap]
  <2> HIDE DEF y
  <2> QED BY <1>2, <1>3
<1> HIDE DEF x
<1>5. y = [type |-> x.type, nlink |-> x.nlink, addr |-> x.addr, ents |-> f] /\ y \in InodeType
  BY <1>1 DEF InodeType
<1> HIDE DEF y
<1> QED
  BY <1>1, <1>4, <1>5 DEF DiskType, SameAttr, x

-----------------------------------------------------------------------------
(***************************************************************************)
(* The invariant follows from what a step does to its call, to the         *)
(* references and to the copies.                                           *)
(***************************************************************************)
\* The parts that are about one process or one entry.
LEMMA Together ==
  ASSUME IInv, NEW p \in Procs, Only(p), LocalOk(th'[p]), FileOk(p)', Data, panicked' \in Panics,
         EntryInv', OneEntryPerInode', RefsCounted', CopyInv'
  PROVE  IInv'
<1>1. TypeOK'
  BY DEF TypeOK, Only, Data, DiskType
<1>2. LocalInv'
  BY DEF IInv, LocalInv, LocalOk, Only
<1>3. FileInv'
  <2>1. ASSUME NEW q \in Procs PROVE FileOk(q)'
    <3>1. CASE q = p
      BY <3>1
    <3>2. CASE q # p
      BY <3>2 DEF IInv, FileInv, FileOk, Only
    <3> QED
      BY <3>1, <3>2
  <2> QED
    BY <2>1 DEF FileInv, FileOk
<1> QED
  BY <1>1, <1>2, <1>3 DEF IInv

\* A step that takes and gives back no reference.
LEMMA SameStep ==
  ASSUME IInv, NEW p \in Procs, Keeps(p), SameRefs, Data, panicked' \in Panics, CopyInv'
  PROVE  IInv'
<1>1. EntryInv' /\ OneEntryPerInode'
  BY DEF IInv, EntryInv, OneEntryPerInode, SameRefs
<1>2. RefsCounted'
  <2>1. \A s \in Slots : icache'[s].ref \in Nat /\ icache'[s].ref + Mine(p, s) = icache[s].ref + Mine(p, s)'
    BY DEF Keeps, SameRefs, IInv, TypeOK, EntryType
  <2> QED
    BY <2>1, RefsMove DEF IInv, Keeps
<1> QED
  BY <1>1, <1>2, Together DEF Keeps

\* A step that takes a reference.
LEMMA GetsStep ==
  ASSUME IInv, NEW p \in Procs, NEW z, NEW i, Adds(p, z), Gets(z, i), Data, panicked' \in Panics, CopyInv'
  PROVE  IInv'
<1>1. \A s \in Slots : icache[s].ref \in Nat /\ Mine(p, s) \in Nat
  BY DEF IInv, TypeOK, EntryType, Mine, B
<1>2. EntryInv'
  BY <1>1, NilSlot DEF IInv, EntryInv, Gets
<1>3. OneEntryPerInode'
  <2> SUFFICES ASSUME NEW s \in Slots, NEW t \in Slots, icache'[s].ref > 0, icache'[t].ref > 0,
                      icache'[s].inum = icache'[t].inum
               PROVE  s = t
    BY DEF OneEntryPerInode
  <2>1. CASE s # z /\ t # z
    BY <2>1 DEF Gets, IInv, OneEntryPerInode
  <2>2. ASSUME NEW r \in Slots, r # z, icache'[r].ref > 0, icache'[r].inum = i PROVE FALSE
    <3>1. icache[r].ref > 0 /\ icache[r].inum = i
      BY <2>2 DEF Gets
    <3>2. r \in Cached(i)
      BY <3>1 DEF Cached
    <3>3. icache[z].ref > 0 /\ icache[z].inum = i /\ z \in Slots
      BY <3>2 DEF Gets
    <3> QED
      BY <2>2, <3>1, <3>3 DEF IInv, OneEntryPerInode
  <2> QED
    BY <2>1, <2>2 DEF Gets
<1>4. RefsCounted'
  <2>1. ASSUME NEW s \in Slots
        PROVE  icache'[s].ref \in Nat /\ icache'[s].ref + Mine(p, s) = icache[s].ref + Mine(p, s)'
    <3>1. Mine(p, s)' = Mine(p, s) + B(z, s)
      BY DEF Adds
    <3>2. icache'[s].ref = icache[s].ref + B(z, s) /\ B(z, s) \in Nat
      BY <1>1 DEF Gets, B
    <3> QED
      BY <1>1, <3>1, <3>2
  <2> QED
    BY <2>1, RefsMove DEF IInv, Adds
<1> QED
  BY <1>2, <1>3, <1>4, Together DEF Adds

\* A step that gives one back.
LEMMA DropsStep ==
  ASSUME IInv, NEW p \in Procs, NEW z, Only(p), LocalOk(th'[p]), FileOk(p)',
         \A s \in Slots : Mine(p, s) = Mine(p, s)' + B(z, s),
         Drops(z), Data, panicked' \in Panics, CopyInv'
  PROVE  IInv'
<1>1. \A s \in Slots : icache[s].ref \in Nat /\ Mine(p, s)' \in Nat
  <2>1. \A s \in Slots : icache[s].ref \in Nat
    BY DEF IInv, TypeOK, EntryType
  <2> QED
    BY <2>1 DEF Mine, B
<1>2. EntryInv' /\ OneEntryPerInode'
  BY <1>1 DEF IInv, EntryInv, OneEntryPerInode, Drops
<1>3. RefsCounted'
  <2>1. ASSUME NEW s \in Slots
        PROVE  icache'[s].ref \in Nat /\ icache'[s].ref + Mine(p, s) = icache[s].ref + Mine(p, s)'
    <3>1. icache[s].ref = icache'[s].ref + B(z, s) /\ B(z, s) \in Nat /\ icache'[s].ref \in Nat
      BY <1>1 DEF Drops, B
    <3> QED
      BY <1>1, <3>1
  <2> QED
    BY <2>1, RefsMove DEF IInv
<1> QED
  BY <1>2, <1>3, Together

-----------------------------------------------------------------------------
(***************************************************************************)
(* The steps, one by one.                                                  *)
(***************************************************************************)
\* The references a process has where it is: to its directory, ...
LEMMA HasW ==
  ASSUME IInv, NEW p \in Procs, th[p].pc \in WithW
  PROVE  th[p].put = Nil /\ th[p].w \in Slots /\ icache[th[p].w].ref > 0 /\ icache[th[p].w].inum \in Inums
<1>1. th[p].put = Nil /\ th[p].w \in Slots
  BY ThreadIs DEF LocalOk, RefsOk, LookOk, PathOk, Where, Putting, WithW, WithIp, Looking, Parents, Leaves
<1> QED
  BY <1>1, Referenced DEF IInv

\* ... to its inode, ...
LEMMA HasIp ==
  ASSUME IInv, NEW p \in Procs, th[p].pc \in WithIp \cup {"dirlink"}
  PROVE  th[p].put = Nil /\ th[p].ip \in Slots /\ icache[th[p].ip].ref > 0 /\ icache[th[p].ip].inum \in Inums
<1>1. th[p].put = Nil /\ th[p].ip \in Slots
  BY ThreadIs DEF LocalOk, RefsOk, LookOk, PathOk, Where, Putting, WithW, WithIp, Looking, Parents, Leaves
<1> QED
  BY <1>1, Referenced DEF IInv

\* ... and to what it puts; ...
LEMMA HasPut ==
  ASSUME IInv, NEW p \in Procs, th[p].pc \in Putting
  PROVE  th[p].put \in Slots /\ icache[th[p].put].ref > 0 /\ icache[th[p].put].inum \in Inums
<1>1. th[p].put \in Slots
  BY ThreadIs DEF LocalOk, RefsOk, LookOk, PathOk, Where, Putting, WithW, WithIp, Looking, Parents, Leaves
<1> QED
  BY <1>1, Referenced DEF IInv

\* ... and where it has none.
LEMMA HasNot ==
  ASSUME IInv, NEW p \in Procs
  PROVE  /\ th[p].pc \in {"create_lock", "opened", "unlink_drop", "link_done", "link_bad"} => th[p].w = Nil
         /\ th[p].pc \in {"create", "unlink", "open", "link", "chdir"} => th[p].ip = Nil
         /\ th[p].pc = "namex" => th[p].no \in {"end", "link_bad"} /\ (th[p].ip # Nil <=> th[p].no # "end")
         /\ th[p].pc = "unlock_w" => (th[p].ip # Nil <=> th[p].op = "link")
BY SMTT(60), ThreadIs DEF LocalOk, RefsOk, LookOk, PathOk, Where, Putting, WithW, WithIp, Looking, Parents, Leaves

\* A directory names inodes.
LEMMA NamesInode ==
  ASSUME IInv, NEW p \in Procs, th[p].pc \in Parents \cup {"namex"}, th[p].path # <<>>
  PROVE  dirlookup(th[p].w, Head(th[p].path)) \in Inums \cup {Nil}
<1>1. th[p].w \in Slots /\ icache[th[p].w].inum \in Inums
  BY HasW DEF WithW
<1>2. th[p].path \in Seq(Entries)
  BY ThreadIs DEF LocalOk, RefsOk, LookOk, PathOk, Where, Putting, WithW, WithIp, Looking, Parents, Leaves
<1>3. Head(th[p].path) \in Entries
  BY <1>2
<1>4. disk.inode[icache[th[p].w].inum].ents \in [Entries -> Inums \cup {Nil}]
  BY <1>1 DEF IInv, TypeOK, InodeType
<1> QED
  BY <1>3, <1>4 DEF dirlookup

\* create, unlink and dirlink have a name left.
LEMMA HasName == ASSUME IInv, NEW p \in Procs, th[p].pc \in Parents PROVE th[p].path # <<>>
BY ThreadIs DEF LocalOk, RefsOk, LookOk, PathOk, Where, Putting, WithW, WithIp, Looking, Parents, Leaves

\* The types of the variables that a step does not assign.
LEMMA TypesAre ==
  ASSUME IInv
  PROVE  /\ disk \in DiskType /\ icache \in [Slots -> EntryType] /\ panicked \in Panics
         /\ lock \in [Slots -> Procs \cup {Nobody}]
         /\ \A s \in Slots, q \in Procs \cup {Nobody} : [lock EXCEPT ![s] = q] \in [Slots -> Procs \cup {Nobody}]
BY DEF IInv, TypeOK, DiskType

\* The cache and the disk stay as they are.
LEMMA StillIs ==
  ASSUME IInv, disk' = disk, icache' = icache, lock' \in [Slots -> Procs \cup {Nobody}]
  PROVE  SameRefs /\ Data /\ CopyInv'
<1>1. SameRefs /\ Data
  BY TypesAre DEF SameRefs, Data
<1> QED
  BY <1>1 DEF IInv, CopyInv, Copy

\* begin_op and the arguments of a call: close moves the reference of the open file to iput.
LEMMA BeginInv == ASSUME IInv, NEW p \in Procs, NEW c \in Calls, begin(p, c) PROVE IInv'
<1>1. Keeps(p)
  BY BeginStep
<1>2. disk' = disk /\ icache' = icache /\ lock' = lock /\ panicked' = panicked
  BY DEF begin
<1> QED
  BY <1>1, <1>2, StillIs, TypesAre, SameStep

\* namex: iget(ROOTDEV, ROOTINO) or idup(myproc()->cwd) is the reference the walk begins with.
LEMMA StartInv == ASSUME IInv, NEW p \in Procs, start(p) PROVE IInv'
<1> DEFINE t == th[p]
           z == IF Head(t.path) = "/" THEN SlotOf(ROOTINO) ELSE cwd[p]
<1>1. /\ t.pc = "start" /\ disk' = disk /\ lock' = lock /\ cwd' = cwd /\ ofile' = ofile /\ panicked' = panicked
      /\ th' = [th EXCEPT ![p] = [t EXCEPT !.pc = "namex", !.w = z, !.path = IF Head(t.path) = "/" THEN Tail(@) ELSE @]]
  BY DEF start, At
<1>2. CASE Head(t.path) = "/"
  <2>1. ~Full(ROOTINO) /\ icache' = iget(ROOTINO) /\ z = SlotOf(ROOTINO)
    BY <1>2 DEF start
  <2>2. ROOTINO \in Inums
    BY InodeAssumption DEF ROOTINO, Inums
  <2> HIDE DEF z
  <2>3. z \in Slots /\ Gets(z, ROOTINO) /\ icache' \in [Slots -> EntryType] /\ CopyInv'
    BY <1>1, <2>1, <2>2, GetStep
  <2>4. Adds(p, z)
    BY <1>1, <2>3, StartStep
  <2> QED
    BY <1>1, <2>3, <2>4, TypesAre, GetsStep DEF Data
<1>3. CASE Head(t.path) # "/"
  <2>1. icache' = idup(cwd[p]) /\ z = cwd[p]
    BY <1>3 DEF start
  <2> HIDE DEF z
  <2>2. z \in Slots /\ icache[z].ref > 0
    BY <2>1, ThreadIs, Referenced DEF IInv
  <2>3. Gets(z, icache[z].inum) /\ icache' \in [Slots -> EntryType] /\ CopyInv'
    BY <1>1, <2>1, <2>2, DupStep
  <2>4. Adds(p, z)
    BY <1>1, <2>2, StartStep
  <2> QED
    BY <1>1, <2>3, <2>4, TypesAre, GetsStep DEF Data
<1> QED
  BY <1>2, <1>3

\* namex at the end of the path: the reference is the result, or is put.
LEMMA NamexEndInv == ASSUME IInv, NEW p \in Procs, namex_end(p) PROVE IInv'
<1> DEFINE t == th[p]
<1>1. /\ t.pc = "namex" /\ t.path = <<>> /\ disk' = disk /\ icache' = icache /\ lock' = lock
      /\ cwd' = cwd /\ ofile' = ofile /\ panicked' = panicked
  BY DEF namex_end, At
<1>2. t.put = Nil /\ t.w # Nil
  BY <1>1, HasW, NilSlot DEF WithW
<1>3. Keeps(p)
  <2>1. CASE t.par
    <3>1. th' = [th EXCEPT ![p] = Put([t EXCEPT !.w = Nil], t.w, t.no)]
      BY <2>1 DEF namex_end
    <3> QED
      BY <1>1, <1>2, <3>1, HasNot, PutsW
  <2>2. CASE ~t.par
    <3>1. th' = [th EXCEPT ![p].pc = t.ok]
      BY <2>2 DEF namex_end
    <3> QED
      BY <1>1, <2>2, <3>1, FoundStep
  <2> QED
    BY <2>1, <2>2
<1> QED
  BY <1>1, <1>3, StillIs, TypesAre, SameStep

\* A step that only reads an inode.
LEMMA LoadInv ==
  ASSUME IInv, NEW p \in Procs, Keeps(p), NEW s \in Slots, icache[s].ref > 0, Lockable(s),
         icache' = [icache EXCEPT ![s] = Loaded(s)], disk' = disk, lock' = lock, panicked' = panicked
  PROVE  IInv'
<1>1. SameRefs /\ icache' \in [Slots -> EntryType] /\ CopyInv'
  BY LoadStep
<1> QED
  BY <1>1, TypesAre, SameStep DEF Data

\* A step that changes an inode.
LEMMA ChangeInv ==
  ASSUME IInv, NEW p \in Procs, Keeps(p), NEW s \in Slots, icache[s].ref > 0, NEW e, Follows(e, icache[s]),
         icache' = [icache EXCEPT ![s] = e], disk' \in DiskType,
         e.valid => Known(disk'.inode[e.inum], e),
         \A j \in Inums \ {e.inum} : SameAttr(disk'.inode[j], disk.inode[j]),
         lock' \in [Slots -> Procs \cup {Nobody}], panicked' \in Panics
  PROVE  IInv'
<1>1. SameRefs /\ icache' \in [Slots -> EntryType] /\ CopyInv'
  BY EntryStep
<1> QED
  BY <1>1, SameStep DEF Data

\* A step that reads a directory and takes a reference.
LEMMA LoadGetInv ==
  ASSUME IInv, NEW p \in Procs, NEW w \in Slots, icache[w].ref > 0, Lockable(w), NEW i \in Inums, ~Full(i),
         icache' = [iget(i) EXCEPT ![w] = [Loaded(w) EXCEPT !.ref = iget(i)[w].ref]],
         disk' \in DiskType,
         \A j \in Inums : SameAttr(disk'.inode[j], disk.inode[j]) \/ (j = i /\ disk.inode[j].type = "free"),
         lock' \in [Slots -> Procs \cup {Nobody}], panicked' = panicked,
         SlotOf(i) \in Slots => Adds(p, SlotOf(i))
  PROVE  IInv'
<1>1. SlotOf(i) \in Slots /\ Gets(SlotOf(i), i) /\ icache' \in [Slots -> EntryType] /\ CopyInv'
  BY LoadGetStep
<1> QED
  BY <1>1, TypesAre, GetsStep DEF Data

\* namex: dirlookup references next before iunlockput(ip) puts ip.
LEMMA NamexStepInv == ASSUME IInv, NEW p \in Procs, namex_step(p) PROVE IInv'
<1> DEFINE t == th[p]
           i == dirlookup(t.w, Head(t.path))
<1>1. /\ t.pc = "namex" /\ t.path # <<>> /\ Lockable(t.w) /\ ~(t.par /\ Len(t.path) = 1) /\ i # Nil /\ ~Full(i)
      /\ icache' = [iget(i) EXCEPT ![t.w] = [Loaded(t.w) EXCEPT !.ref = iget(i)[t.w].ref]]
      /\ th' = [th EXCEPT ![p] = Put([t EXCEPT !.w = SlotOf(i), !.path = Tail(t.path)], t.w,
                                      IF Len(t.path) = 1 THEN t.ok ELSE "namex")]
      /\ disk' = disk /\ lock' = lock /\ cwd' = cwd /\ ofile' = ofile /\ panicked' = panicked
  BY DEF namex_step, At
<1>2. i \in Inums /\ t.w \in Slots /\ icache[t.w].ref > 0
  BY <1>1, NamesInode, HasW DEF WithW
<1> HIDE DEF i
<1>3. SlotOf(i) \in Slots => Adds(p, SlotOf(i))
  BY <1>1, WalkStep
<1> QED
  BY <1>1, <1>2, <1>3, TypesAre, LoadGetInv DEF SameAttr

\* nameiparent stops one level early and keeps the directory.
LEMMA NamexParentInv == ASSUME IInv, NEW p \in Procs, namex_parent(p) PROVE IInv'
<1> DEFINE t == th[p]
<1>1. /\ t.pc = "namex" /\ Len(t.path) = 1 /\ t.par /\ Lockable(t.w)
      /\ icache' = [icache EXCEPT ![t.w] = Loaded(t.w)] /\ th' = [th EXCEPT ![p].pc = t.ok]
      /\ disk' = disk /\ lock' = lock /\ cwd' = cwd /\ ofile' = ofile /\ panicked' = panicked
  BY DEF namex_parent, At
<1>2. t.w \in Slots /\ icache[t.w].ref > 0
  BY <1>1, HasW DEF WithW
<1>3. t.path # <<>>
  BY <1>1
<1>4. Keeps(p)
  BY <1>1, <1>3, FoundStep
<1> QED
  BY <1>1, <1>2, <1>4, LoadInv

\* namex at something that is no directory, or a name that is not there: iunlockput(ip).
LEMMA NamexFailInv == ASSUME IInv, NEW p \in Procs, namex_fail(p) PROVE IInv'
<1> DEFINE t == th[p]
<1>1. /\ t.pc = "namex" /\ Lockable(t.w) /\ icache' = [icache EXCEPT ![t.w] = Loaded(t.w)]
      /\ th' = [th EXCEPT ![p] = Put([t EXCEPT !.w = Nil], t.w, t.no)]
      /\ disk' = disk /\ lock' = lock /\ cwd' = cwd /\ ofile' = ofile /\ panicked' = panicked
  BY DEF namex_fail, At
<1>2. t.w \in Slots /\ icache[t.w].ref > 0 /\ t.put = Nil
  BY <1>1, HasW DEF WithW
<1>3. Keeps(p)
  BY <1>1, <1>2, HasNot, NilSlot, PutsW
<1> QED
  BY <1>1, <1>2, <1>3, LoadInv

\* iput before the inode is freed: the reference is still held.
LEMMA IputInv == ASSUME IInv, NEW p \in Procs, iput(p) PROVE IInv'
<1> DEFINE s == th[p].put
<1>1. /\ th[p].pc = "iput" /\ disk' = disk /\ icache' = icache /\ cwd' = cwd /\ ofile' = ofile /\ panicked' = panicked
      /\ lock' = [lock EXCEPT ![s] = p] \/ lock' = lock
      /\ th' = [th EXCEPT ![p].pc = "ifree"] \/ th' = [th EXCEPT ![p].pc = "unref"]
  BY DEF iput, At
<1>2. s \in Slots
  BY <1>1, HasPut DEF Putting
<1>3. Keeps(p)
  BY <1>1, PutStep DEF Putting
<1>4. lock' \in [Slots -> Procs \cup {Nobody}]
  BY <1>1, <1>2, TypesAre
<1> QED
  BY <1>1, <1>3, <1>4, StillIs, TypesAre, SameStep

\* iput frees the inode: the entry is no longer valid, so it claims nothing of the disk.
LEMMA IfreeInv == ASSUME IInv, NEW p \in Procs, ifree(p) PROVE IInv'
<1> DEFINE s == th[p].put
           x == icache[s]
           a == x.addr
           b == bfree(disk, a)
           e1 == [x EXCEPT !.valid = FALSE]
           e2 == [e1 EXCEPT !.addr = Nil]
           e == [e2 EXCEPT !.type = "free"]
<1>1. /\ th[p].pc = "ifree" /\ th' = [th EXCEPT ![p].pc = "unref"] /\ cwd' = cwd /\ ofile' = ofile
      /\ lock' = [lock EXCEPT ![s] = Nobody]
      /\ panicked' \in {"freeing free block", "no"}
      /\ disk' = [b EXCEPT !.inode[x.inum] = Free]
  BY DEF ifree, At
<1>2. s \in Slots /\ x.ref > 0 /\ x.inum \in Inums
  BY <1>1, HasPut DEF Putting
<1>3. disk \in DiskType /\ x \in EntryType /\ lock' \in [Slots -> Procs \cup {Nobody}]
  BY ZenonT(60), <1>1, <1>2, TypesAre
<1>4. icache' = [icache EXCEPT ![s] = e]
  BY <1>2, TypesAre DEF ifree
<1>5. Follows(e, x) /\ ~e.valid
  <2> HIDE DEF x
  <2>1. ASSUME NEW v
        PROVE  [x EXCEPT !.valid = v] =
                 [inum |-> x.inum, ref |-> x.ref, valid |-> v, type |-> x.type, nlink |-> x.nlink, addr |-> x.addr]
    BY <1>3 DEF EntryType
  <2>2. e1 = [inum |-> x.inum, ref |-> x.ref, valid |-> FALSE, type |-> x.type, nlink |-> x.nlink, addr |-> x.addr]
    BY <2>1
  <2>3. e1 \in EntryType /\ ~e1.valid /\ e1.inum = x.inum /\ e1.ref = x.ref
    <3> HIDE DEF e1
    <3> QED BY <1>3, <2>2 DEF EntryType
  <2> HIDE DEF e1
  <2>4. e2 = [inum |-> e1.inum, ref |-> e1.ref, valid |-> e1.valid, type |-> e1.type, nlink |-> e1.nlink, addr |-> Nil]
    BY <2>3 DEF EntryType
  <2>5. e2 \in EntryType
    <3> HIDE DEF e2
    <3> QED BY <2>3, <2>4 DEF EntryType
  <2> HIDE DEF e2
  <2>6. e = [inum |-> e2.inum, ref |-> e2.ref, valid |-> e2.valid, type |-> "free", nlink |-> e2.nlink, addr |-> e2.addr]
    BY <2>5 DEF EntryType
  <2>7. e \in EntryType
    <3> HIDE DEF e
    <3> QED BY <2>5, <2>6 DEF EntryType, Types
  <2> HIDE DEF e
  <2> QED
    BY <2>3, <2>4, <2>6, <2>7 DEF Follows
<1>6. b = [inode |-> disk.inode, bitmap |-> disk.bitmap \ {a}] /\ disk.inode \in [Inums -> InodeType] /\ disk.bitmap \in SUBSET Blocks
  BY <1>3 DEF bfree, DiskType
<1>7. Free \in InodeType
  BY DEF Free, InodeType, Types, NoEnts
<1> HIDE DEF e, b, x
<1>8. disk' \in DiskType /\ \A j \in Inums \ {x.inum} : disk'.inode[j] = disk.inode[j]
  BY <1>1, <1>2, <1>6, <1>7 DEF DiskType
<1>9. Keeps(p)
  BY <1>1, PutStep DEF Putting
<1>10. e.inum = x.inum
  BY <1>5 DEF Follows
<1>12. panicked' \in Panics
  BY <1>1 DEF Panics
<1>11. Follows(e, icache[s]) /\ icache[s].ref > 0
  BY <1>2, <1>5 DEF x
<1> QED
  BY <1>2, <1>3, <1>4, <1>5, <1>8, <1>9, <1>10, <1>11, <1>12, ChangeInv DEF SameAttr

\* iput: ip->ref-- gives back the reference that the call handed to it.
LEMMA UnrefInv == ASSUME IInv, NEW p \in Procs, unref(p) PROVE IInv'
<1> DEFINE s == th[p].put
<1>1. /\ th[p].pc = "unref" /\ disk' = disk /\ lock' = lock /\ cwd' = cwd /\ ofile' = ofile /\ panicked' = panicked
      /\ icache' = IF icache[s].ref = 1 THEN [icache EXCEPT ![s] = NoEntry] ELSE [icache EXCEPT ![s].ref = @ - 1]
      /\ th' = [th EXCEPT ![p] = IF @.ret = "end" THEN Idle
                                   ELSE [@ EXCEPT !.pc = th[p].ret, !.put = Nil, !.ret = "none"]]
  BY DEF unref, At
<1>2. s \in Slots /\ icache[s].ref > 0
  BY <1>1, HasPut DEF Putting
<1>3. Drops(s) /\ icache' \in [Slots -> EntryType] /\ CopyInv'
  BY <1>1, <1>2, DropStep
<1>4. Only(p) /\ LocalOk(th'[p]) /\ FileOk(p)' /\ \A r \in Slots : Mine(p, r) = Mine(p, r)' + B(s, r)
  BY <1>1, BackStep
<1>5. Data /\ panicked' \in Panics
  BY <1>1, <1>3, TypesAre DEF Data
<1> QED
  BY <1>3, <1>4, <1>5, DropsStep

\* One name in a directory.
LEMMA EntIs ==
  ASSUME NEW d \in DiskType, NEW k \in Inums, NEW n, NEW v \in Inums \cup {Nil}
  PROVE  /\ [d EXCEPT !.inode[k].ents[n] = v] \in DiskType
         /\ \A j \in Inums : SameAttr([d EXCEPT !.inode[k].ents[n] = v].inode[j], d.inode[j])
<1> DEFINE f == [d.inode[k].ents EXCEPT ![n] = v]
<1>1. d.inode[k].ents \in [Entries -> Inums \cup {Nil}]
  BY DEF DiskType, InodeType
<1>2. f \in [Entries -> Inums \cup {Nil}]
  BY <1>1
<1>3. [d EXCEPT !.inode[k].ents[n] = v] = [d EXCEPT !.inode[k].ents = f]
  OBVIOUS
<1> HIDE DEF f
<1>4. /\ [d EXCEPT !.inode[k].ents = f] \in DiskType
      /\ \A j \in Inums : SameAttr([d EXCEPT !.inode[k].ents = f].inode[j], d.inode[j])
  BY <1>2, EntsIs
<1> QED
  BY <1>3, <1>4, Zenon

\* A link count changes.
LEMMA NlinkIs ==
  ASSUME NEW e \in EntryType, NEW n \in Int
  PROVE  LET f == [e EXCEPT !.nlink = n] IN
         Follows(f, e) /\ f.valid = e.valid /\ f.type = e.type /\ f.addr = e.addr /\ f.nlink = n
<1>1. [e EXCEPT !.nlink = n] = [inum |-> e.inum, ref |-> e.ref, valid |-> e.valid, type |-> e.type, nlink |-> n, addr |-> e.addr]
  BY DEF EntryType
<1> QED
  BY <1>1 DEF EntryType, Follows

\* A step that changes an inode and writes it to the disk.
LEMMA UpdateInv ==
  ASSUME IInv, NEW p \in Procs, Keeps(p), NEW s \in Slots, icache[s].ref > 0, NEW e, Follows(e, icache[s]),
         e.valid => e.type # "free", icache' = [icache EXCEPT ![s] = e], disk' = iupdate(disk, e),
         lock' \in [Slots -> Procs \cup {Nobody}], panicked' = panicked
  PROVE  IInv'
<1>1. e \in EntryType /\ e.inum \in Inums /\ disk \in DiskType
  BY EntryIs, TypesAre DEF Follows
<1>2. /\ disk' \in DiskType /\ SameAttr(disk'.inode[e.inum], e)
      /\ \A j \in Inums \ {e.inum} : disk'.inode[j] = disk.inode[j]
  BY <1>1, UpdateIs
<1>3. e.valid => Known(disk'.inode[e.inum], e)
  BY <1>2 DEF Known, SameAttr
<1>4. \A j \in Inums \ {e.inum} : SameAttr(disk'.inode[j], disk.inode[j])
  BY <1>2 DEF SameAttr
<1> QED
  BY <1>2, <1>3, <1>4, TypesAre, ChangeInv

\* A step that changes a directory and an inode in it.
LEMMA PairInv ==
  ASSUME IInv, NEW p \in Procs, Keeps(p), NEW s \in Slots, icache[s].ref > 0, NEW e, Follows(e, icache[s]),
         NEW w \in Slots, icache[w].ref > 0, NEW f, Follows(f, icache[w]),
         icache' = [icache EXCEPT ![s] = e, ![w] = f], disk' \in DiskType,
         f.valid => Known(disk'.inode[f.inum], f),
         s # w => Known(disk'.inode[e.inum], e),
         \A j \in Inums \ {e.inum, f.inum} : SameAttr(disk'.inode[j], disk.inode[j]),
         lock' \in [Slots -> Procs \cup {Nobody}], panicked' = panicked
  PROVE  IInv'
<1>1. /\ icache \in [Slots -> EntryType] /\ e \in EntryType /\ e.ref = icache[s].ref /\ e.inum = icache[s].inum
      /\ f \in EntryType /\ f.ref = icache[w].ref /\ f.inum = icache[w].inum
  BY TypesAre DEF Follows
<1>2. /\ icache' \in [Slots -> EntryType] /\ icache'[w] = f /\ (s # w => icache'[s] = e)
      /\ \A r \in Slots \ {s, w} : icache'[r] = icache[r]
  BY <1>1
<1>3. SameRefs
  BY <1>1, <1>2 DEF SameRefs
<1>4. ASSUME NEW r \in Slots, icache'[r].ref > 0, icache'[r].valid PROVE Copy(r)'
  <2>1. CASE r = w
    BY <1>2, <1>4, <2>1 DEF Copy, Known, SameAttr
  <2>2. CASE r = s /\ s # w
    BY <1>2, <1>4, <2>2 DEF Copy, Known, SameAttr
  <2>3. CASE r # s /\ r # w
    <3>1. icache'[r] = icache[r] /\ icache[r].ref > 0 /\ icache[r].inum \in Inums \ {e.inum, f.inum}
      BY <1>1, <1>2, <1>4, <2>3, EntryIs DEF IInv, OneEntryPerInode
    <3> QED
      BY SMTT(60), <1>4, <3>1, EntryIs DEF Copy, Known, SameAttr
  <2> QED
    BY <2>1, <2>2, <2>3
<1>5. Data /\ CopyInv' /\ panicked' \in Panics
  BY <1>2, <1>4, TypesAre DEF Data, CopyInv
<1> QED
  BY <1>3, <1>5, SameStep

\* create finds the name: the reference to dp is put, that to ip stays.
LEMMA CreateFoundInv == ASSUME IInv, NEW p \in Procs, create_found(p) PROVE IInv'
<1> DEFINE t == th[p]
           i == dirlookup(t.w, Name(t))
<1>1. /\ t.pc = "create" /\ Lockable(t.w) /\ i # Nil /\ ~Full(i)
      /\ icache' = [iget(i) EXCEPT ![t.w] = [Loaded(t.w) EXCEPT !.ref = iget(i)[t.w].ref]]
      /\ th' = [th EXCEPT ![p] = Put([t EXCEPT !.w = Nil, !.ip = SlotOf(i)], t.w, "create_lock")]
      /\ disk' = disk /\ lock' = lock /\ cwd' = cwd /\ ofile' = ofile /\ panicked' = panicked
  BY DEF create_found, At
<1>2. i \in Inums /\ t.w \in Slots /\ icache[t.w].ref > 0
  BY <1>1, HasName, NamesInode, HasW DEF WithW, Name, Parents
<1> HIDE DEF i
<1>3. SlotOf(i) \in Slots => Adds(p, SlotOf(i))
  BY <1>1, CreateFoundStep
<1> QED
  BY <1>1, <1>2, <1>3, TypesAre, LoadGetInv DEF SameAttr

\* create returns an existing file, which is opened, or puts it.
LEMMA CreateLockInv == ASSUME IInv, NEW p \in Procs, create_lock(p) PROVE IInv'
<1> DEFINE t == th[p]
<1>1. /\ t.pc = "create_lock" /\ Lockable(t.ip) /\ icache' = [icache EXCEPT ![t.ip] = Loaded(t.ip)]
      /\ disk' = disk /\ lock' = lock /\ cwd' = cwd /\ panicked' = panicked
  BY DEF create_lock, At
<1>2. t.put = Nil /\ t.w = Nil /\ t.ip \in Slots /\ icache[t.ip].ref > 0 /\ t.ip # Nil
  BY <1>1, HasIp, HasNot, NilSlot DEF WithIp
<1>3. Keeps(p)
  <2>1. CASE t.op = "create" /\ Loaded(t.ip).type = "file"
    <3>1. Opened(p, t, t.ip)
      BY <2>1 DEF create_lock
    <3> QED
      BY <1>1, <1>2, <3>1, OpenedStep
  <2>2. CASE ~(t.op = "create" /\ Loaded(t.ip).type = "file")
    <3>1. th' = [th EXCEPT ![p] = Put([t EXCEPT !.ip = Nil], t.ip, "end")] /\ ofile' = ofile
      BY <2>2 DEF create_lock
    <3> QED
      BY <1>1, <1>2, <3>1, PutsIp
  <2> QED
    BY <2>1, <2>2
<1> QED
  BY <1>1, <1>2, <1>3, LoadInv

\* ialloc: no valid entry is of an inode that was free, so its new type contradicts none.
LEMMA IallocInv == ASSUME IInv, NEW p \in Procs, ialloc(p) PROVE IInv'
<1> DEFINE t == th[p]
<1>1. /\ t.pc = "create" /\ Lockable(t.w) /\ lock' = [lock EXCEPT ![t.w] = p]
      /\ cwd' = cwd /\ ofile' = ofile /\ panicked' = panicked
  BY DEF ialloc, At
<1>2. PICK i \in Inums :
        /\ disk.inode[i].type = "free" /\ ~Full(i)
        /\ disk' = [disk EXCEPT !.inode[i] = [Free EXCEPT !.type = TypeMade(t.op)]]
        /\ icache' = [iget(i) EXCEPT ![t.w] = [Loaded(t.w) EXCEPT !.ref = iget(i)[t.w].ref]]
        /\ th' = [th EXCEPT ![p].pc = "create_fill", ![p].ip = SlotOf(i)]
  BY DEF ialloc
<1>3. t.w \in Slots /\ icache[t.w].ref > 0
  BY <1>1, HasW DEF WithW, Parents
<1>4. th' = [th EXCEPT ![p] = [t EXCEPT !.pc = "create_fill", !.ip = SlotOf(i)]]
  BY <1>2 DEF IInv, TypeOK
<1>5. SlotOf(i) \in Slots => Adds(p, SlotOf(i))
  BY <1>1, <1>4, HasIpStep
<1> DEFINE n == [Free EXCEPT !.type = TypeMade(t.op)]
<1>6. n \in InodeType
  BY DEF Free, TypeMade, InodeType, Types, NoEnts
<1> HIDE DEF n
<1>7. disk' = [disk EXCEPT !.inode[i] = n]
  BY <1>2 DEF n
<1>8. disk' \in DiskType /\ \A j \in Inums \ {i} : disk'.inode[j] = disk.inode[j]
  BY <1>6, <1>7, TypesAre DEF DiskType
<1>9. \A j \in Inums : SameAttr(disk'.inode[j], disk.inode[j]) \/ (j = i /\ disk.inode[j].type = "free")
  BY <1>2, <1>8 DEF SameAttr
<1>10. lock' \in [Slots -> Procs \cup {Nobody}]
  BY <1>1, <1>3, TypesAre
<1> QED
  BY <1>1, <1>2, <1>3, <1>5, <1>8, <1>9, <1>10, LoadGetInv

\* sys_open and sys_mkdir with the new inode: the reference becomes the open file, or is put.
LEMMA OpenedInv == ASSUME IInv, NEW p \in Procs, opened(p) PROVE IInv'
<1> DEFINE t == th[p]
<1>1. /\ t.pc = "opened" /\ lock' = [lock EXCEPT ![t.ip] = Nobody] /\ Opened(p, t, t.ip)
      /\ disk' = disk /\ icache' = icache /\ cwd' = cwd /\ panicked' = panicked
  BY DEF opened, At
<1>2. t.put = Nil /\ t.w = Nil /\ t.ip \in Slots
  BY <1>1, HasIp, HasNot DEF WithIp
<1>3. Keeps(p)
  BY <1>1, <1>2, OpenedStep
<1>4. lock' \in [Slots -> Procs \cup {Nobody}]
  BY <1>1, <1>2, TypesAre
<1> QED
  BY <1>1, <1>3, <1>4, StillIs, TypesAre, SameStep

\* sys_open with an inode that was there.
LEMMA OpenInv == ASSUME IInv, NEW p \in Procs, sys_open(p) PROVE IInv'
<1> DEFINE t == th[p]
<1>1. /\ t.pc = "open" /\ Lockable(t.w) /\ icache' = [icache EXCEPT ![t.w] = Loaded(t.w)]
      /\ disk' = disk /\ lock' = lock /\ cwd' = cwd /\ panicked' = panicked
  BY DEF sys_open, At
<1>2. t.put = Nil /\ t.ip = Nil /\ t.w \in Slots /\ icache[t.w].ref > 0 /\ t.w # Nil
  BY <1>1, HasW, HasNot, NilSlot DEF WithW, Leaves
<1>3. Keeps(p)
  <2>1. CASE Loaded(t.w).type = "dir" /\ t.wr
    <3>1. th' = [th EXCEPT ![p] = Put([t EXCEPT !.w = Nil], t.w, "end")] /\ ofile' = ofile
      BY <2>1 DEF sys_open
    <3> QED
      BY <1>1, <1>2, <3>1, PutsW
  <2>2. CASE ~(Loaded(t.w).type = "dir" /\ t.wr)
    <3>1. Opened(p, t, t.w)
      BY <2>2 DEF sys_open
    <3> QED
      BY <1>1, <1>2, <3>1, OpenedStep
  <2> QED
    BY <2>1, <2>2
<1> QED
  BY <1>1, <1>2, <1>3, LoadInv

\* create writes the new inode and its directory; both copies agree with what iupdate wrote.
LEMMA CreateFillInv == ASSUME IInv, NEW p \in Procs, create_fill(p) PROVE IInv'
<1> DEFINE t == th[p]
           l == Loaded(t.ip)
           x == icache[t.w]
           e == [l EXCEPT !.nlink = 1]
           f == IF t.op = "mkdir" THEN [x EXCEPT !.nlink = x.nlink + 1] ELSE x
           a == iupdate(disk, e)
           b == iupdate(a, f)
           g == IF t.op = "mkdir" THEN [b.inode[e.inum].ents EXCEPT !["."] = e.inum, ![".."] = f.inum]
                                  ELSE b.inode[e.inum].ents
           d == [b EXCEPT !.inode[e.inum].ents = g]
<1>1. /\ t.pc = "create_fill" /\ Lockable(t.ip) /\ icache' = [icache EXCEPT ![t.ip] = e, ![t.w] = f]
      /\ lock' = [lock EXCEPT ![t.ip] = p, ![t.w] = Nobody]
      /\ th' = [th EXCEPT ![p] = Put([t EXCEPT !.w = Nil], t.w, "opened")]
      /\ cwd' = cwd /\ ofile' = ofile /\ panicked' = panicked
  BY ZenonT(60) DEF create_fill, At
<1>2. disk' = [d EXCEPT !.inode[f.inum].ents[Name(t)] = e.inum]
  BY ZenonT(60) DEF create_fill
<1>3. /\ t.put = Nil /\ t.w \in Slots /\ icache[t.w].ref > 0 /\ t.w # Nil
      /\ t.ip \in Slots /\ icache[t.ip].ref > 0 /\ t.ip # Nil
  BY <1>1, HasW, HasIp, NilSlot DEF WithW, WithIp
<1>4. Keeps(p)
  BY <1>1, <1>3, PutsW
<1>5. /\ l \in EntryType /\ l.inum = icache[t.ip].inum /\ l.ref = icache[t.ip].ref
      /\ l.type # "free" /\ l.inum \in Inums
  BY <1>1, <1>3, LoadedIs, EntryIs DEF Follows, Known, SameAttr
<1>6. x \in EntryType /\ x.inum \in Inums /\ x.nlink \in Int /\ (x.valid => x.type # "free")
  <2>1. x \in EntryType /\ x.inum \in Inums /\ (x.valid => x.type # "free")
    BY <1>3, EntryIs DEF Known, SameAttr
  <2> QED
    BY <2>1 DEF EntryType
<1> HIDE DEF l, x
<1>7. Follows(e, l) /\ e.type = l.type
  BY <1>5, NlinkIs
<1>8. Follows(f, x) /\ f.valid = x.valid /\ f.type = x.type
  <2>1. CASE t.op = "mkdir"
    <3>1. x.nlink + 1 \in Int
      BY <1>6
    <3> QED
      BY <1>6, <2>1, <3>1, NlinkIs
  <2>2. CASE t.op # "mkdir"
    BY <1>6, <2>2 DEF Follows
  <2> QED
    BY <2>1, <2>2
<1> HIDE DEF e, f
<1>9. e \in EntryType /\ e.inum \in Inums /\ f \in EntryType /\ f.inum \in Inums /\ disk \in DiskType
  BY <1>5, <1>6, <1>7, <1>8, TypesAre DEF Follows
<1>10. /\ a \in DiskType /\ SameAttr(a.inode[e.inum], e)
       /\ \A j \in Inums \ {e.inum} : a.inode[j] = disk.inode[j]
  BY <1>9, UpdateIs
<1> HIDE DEF a
<1>11. /\ b \in DiskType /\ SameAttr(b.inode[f.inum], f)
       /\ \A j \in Inums \ {f.inum} : b.inode[j] = a.inode[j]
  BY <1>9, <1>10, UpdateIs
<1> HIDE DEF b
<1>12. g \in [Entries -> Inums \cup {Nil}]
  <2>1. b.inode[e.inum].ents \in [Entries -> Inums \cup {Nil}]
    BY <1>9, <1>11 DEF DiskType, InodeType
  <2> QED
    BY <1>9, <2>1
<1> HIDE DEF g
<1>13. d \in DiskType /\ \A j \in Inums : SameAttr(d.inode[j], b.inode[j])
  BY <1>9, <1>11, <1>12, EntsIs
<1> HIDE DEF d
<1>14. disk' \in DiskType /\ \A j \in Inums : SameAttr(disk'.inode[j], d.inode[j])
  BY <1>2, <1>9, <1>13, EntIs
<1>15. \A j \in Inums : SameAttr(disk'.inode[j], b.inode[j])
  BY <1>13, <1>14 DEF SameAttr
<1>16. \A j \in Inums \ {e.inum, f.inum} : SameAttr(disk'.inode[j], disk.inode[j])
  BY <1>10, <1>11, <1>15 DEF SameAttr
<1>17. f.valid => Known(disk'.inode[f.inum], f)
  BY <1>6, <1>8, <1>9, <1>11, <1>15 DEF Known, SameAttr
<1>18. t.ip # t.w => Known(disk'.inode[e.inum], e)
  <2>1. SUFFICES ASSUME t.ip # t.w PROVE Known(disk'.inode[e.inum], e)
    OBVIOUS
  <2>2. e.inum # f.inum
    BY <1>3, <1>5, <1>7, <1>8, <2>1 DEF Follows, x, IInv, OneEntryPerInode
  <2>3. SameAttr(disk'.inode[e.inum], e)
    BY <1>9, <1>10, <1>11, <1>15, <2>2 DEF SameAttr
  <2> QED
    BY <1>5, <1>7, <2>3 DEF Known, SameAttr
<1>19. Follows(e, icache[t.ip]) /\ Follows(f, icache[t.w])
  BY <1>5, <1>7, <1>8 DEF Follows, x
<1>20. lock' \in [Slots -> Procs \cup {Nobody}]
  BY <1>1, <1>3, TypesAre
<1> QED
  BY ZenonT(60), <1>1, <1>3, <1>4, <1>14, <1>16, <1>17, <1>18, <1>19, <1>20, PairInv

\* sys_unlink of ".", ".." or a name that is not there: iunlockput(dp).
LEMMA UnlinkFailInv == ASSUME IInv, NEW p \in Procs, unlink_fail(p) PROVE IInv'
<1> DEFINE t == th[p]
<1>1. /\ t.pc = "unlink" /\ Lockable(t.w) /\ icache' = [icache EXCEPT ![t.w] = Loaded(t.w)]
      /\ th' = [th EXCEPT ![p] = Put([t EXCEPT !.w = Nil], t.w, "end")]
      /\ disk' = disk /\ lock' = lock /\ cwd' = cwd /\ ofile' = ofile /\ panicked' = panicked
  BY DEF unlink_fail, At
<1>2. t.put = Nil /\ t.ip = Nil /\ t.w \in Slots /\ icache[t.w].ref > 0 /\ t.w # Nil
  BY <1>1, HasW, HasNot, NilSlot DEF WithW, Parents
<1>3. Keeps(p)
  BY <1>1, <1>2, PutsW
<1> QED
  BY <1>1, <1>2, <1>3, LoadInv

\* sys_unlink has dp locked and references ip.
LEMMA UnlinkFoundInv == ASSUME IInv, NEW p \in Procs, unlink_found(p) PROVE IInv'
<1> DEFINE t == th[p]
           i == dirlookup(t.w, Name(t))
<1>1. /\ t.pc = "unlink" /\ Lockable(t.w) /\ i # Nil /\ ~Full(i)
      /\ icache' = [iget(i) EXCEPT ![t.w] = [Loaded(t.w) EXCEPT !.ref = iget(i)[t.w].ref]]
      /\ lock' = [lock EXCEPT ![t.w] = p]
      /\ th' = [th EXCEPT ![p] = [t EXCEPT !.pc = "unlink_ip", !.ip = SlotOf(i)]]
      /\ disk' = disk /\ cwd' = cwd /\ ofile' = ofile /\ panicked' = panicked
  BY DEF unlink_found, At
<1>2. i \in Inums /\ t.w \in Slots /\ icache[t.w].ref > 0
  BY <1>1, HasName, NamesInode, HasW DEF WithW, Name, Parents
<1> HIDE DEF i
<1>3. SlotOf(i) \in Slots => Adds(p, SlotOf(i))
  BY <1>1, HasIpStep
<1>4. lock' \in [Slots -> Procs \cup {Nobody}]
  BY <1>1, <1>2, TypesAre
<1> QED
  BY <1>1, <1>2, <1>3, <1>4, TypesAre, LoadGetInv DEF SameAttr

\* sys_unlink of a directory that is not empty: iunlockput(ip).
LEMMA UnlinkBusyInv == ASSUME IInv, NEW p \in Procs, unlink_busy(p) PROVE IInv'
<1> DEFINE t == th[p]
<1>1. /\ t.pc = "unlink_ip" /\ Lockable(t.ip) /\ icache' = [icache EXCEPT ![t.ip] = Loaded(t.ip)]
      /\ th' = [th EXCEPT ![p] = Put([t EXCEPT !.ip = Nil], t.ip, "unlock_w")]
      /\ disk' = disk /\ lock' = lock /\ cwd' = cwd /\ ofile' = ofile /\ panicked' = panicked
  BY DEF unlink_busy, At
<1>2. t.put = Nil /\ t.ip \in Slots /\ icache[t.ip].ref > 0 /\ t.ip # Nil
  BY <1>1, HasIp, NilSlot DEF WithIp
<1>3. Keeps(p)
  BY <1>1, <1>2, PutsIp
<1> QED
  BY <1>1, <1>2, <1>3, LoadInv

\* sys_unlink erases the entry and writes the link count of dp.
LEMMA UnlinkEraseInv == ASSUME IInv, NEW p \in Procs, unlink_erase(p) PROVE IInv'
<1> DEFINE t == th[p]
           e == Loaded(t.ip)
           x == icache[t.w]
           f == IF e.type = "dir" THEN [x EXCEPT !.nlink = x.nlink - 1] ELSE x
           b == iupdate(disk, f)
<1>1. /\ t.pc = "unlink_ip" /\ Lockable(t.ip) /\ icache' = [icache EXCEPT ![t.ip] = e, ![t.w] = f]
      /\ lock' = [lock EXCEPT ![t.ip] = p, ![t.w] = Nobody]
      /\ th' = [th EXCEPT ![p] = Put([t EXCEPT !.w = Nil], t.w, "unlink_drop")]
      /\ cwd' = cwd /\ ofile' = ofile /\ panicked' = panicked
      /\ disk' = [b EXCEPT !.inode[f.inum].ents[Name(t)] = Nil]
  BY ZenonT(60) DEF unlink_erase, At
<1>2. /\ t.put = Nil /\ t.w \in Slots /\ icache[t.w].ref > 0 /\ t.w # Nil
      /\ t.ip \in Slots /\ icache[t.ip].ref > 0 /\ t.ip # Nil
  BY ZenonT(60), <1>1, HasW, HasIp, NilSlot DEF WithW, WithIp
<1>3. Keeps(p)
  BY ZenonT(60), <1>1, <1>2, PutsW
<1>4. Follows(e, icache[t.ip]) /\ e.inum \in Inums /\ Known(disk.inode[e.inum], e)
  BY ZenonT(60), <1>1, <1>2, LoadedIs, EntryIs DEF Follows
<1>5. x \in EntryType /\ x.inum \in Inums /\ x.nlink \in Int /\ (x.valid => x.type # "free")
  <2>1. x \in EntryType /\ x.inum \in Inums /\ (x.valid => x.type # "free")
    BY <1>2, EntryIs DEF Known, SameAttr
  <2> QED
    BY <2>1 DEF EntryType
<1> HIDE DEF e, x
<1>6. Follows(f, x) /\ f.valid = x.valid /\ f.type = x.type
  <2>1. CASE e.type = "dir"
    <3>1. x.nlink - 1 \in Int
      BY <1>5
    <3> QED
      BY <1>5, <2>1, <3>1, NlinkIs
  <2>2. CASE e.type # "dir"
    BY <1>5, <2>2 DEF Follows
  <2> QED
    BY <2>1, <2>2
<1> HIDE DEF f
<1>7. f \in EntryType /\ f.inum \in Inums /\ disk \in DiskType
  BY <1>5, <1>6, TypesAre DEF Follows
<1>8. /\ b \in DiskType /\ SameAttr(b.inode[f.inum], f)
      /\ \A j \in Inums \ {f.inum} : b.inode[j] = disk.inode[j]
  BY <1>7, UpdateIs
<1> HIDE DEF b
<1>9. disk' \in DiskType /\ \A j \in Inums : SameAttr(disk'.inode[j], b.inode[j])
  BY <1>1, <1>7, <1>8, EntIs
<1>10. \A j \in Inums \ {f.inum} : SameAttr(disk'.inode[j], disk.inode[j])
  BY <1>8, <1>9 DEF SameAttr
<1>11. f.valid => Known(disk'.inode[f.inum], f)
  BY <1>5, <1>6, <1>7, <1>8, <1>9 DEF Known, SameAttr
<1>12. t.ip # t.w => Known(disk'.inode[e.inum], e)
  <2>1. SUFFICES ASSUME t.ip # t.w PROVE Known(disk'.inode[e.inum], e)
    OBVIOUS
  <2>2. e.inum # f.inum
    BY <1>2, <1>4, <1>6, <2>1 DEF Follows, x, IInv, OneEntryPerInode
  <2> QED
    BY <1>4, <1>10, <2>2 DEF Known, SameAttr
<1>13. Follows(f, icache[t.w])
  BY <1>6 DEF x
<1>14. lock' \in [Slots -> Procs \cup {Nobody}]
  BY <1>1, <1>2, TypesAre
<1> QED
  BY ZenonT(60), <1>1, <1>2, <1>3, <1>4, <1>9, <1>10, <1>11, <1>12, <1>13, <1>14, PairInv

\* sys_unlink: ip->nlink--, iupdate(ip), iunlockput(ip).
LEMMA UnlinkDropInv == ASSUME IInv, NEW p \in Procs, unlink_drop(p) PROVE IInv'
<1> DEFINE t == th[p]
           x == icache[t.ip]
           e == [x EXCEPT !.nlink = x.nlink - 1]
<1>1. /\ t.pc = "unlink_drop" /\ icache' = [icache EXCEPT ![t.ip] = e] /\ disk' = iupdate(disk, e)
      /\ lock' = [lock EXCEPT ![t.ip] = Nobody]
      /\ th' = [th EXCEPT ![p] = Put([t EXCEPT !.ip = Nil], t.ip, "end")]
      /\ cwd' = cwd /\ ofile' = ofile /\ panicked' = panicked
  BY DEF unlink_drop, At
<1>2. t.put = Nil /\ t.w = Nil /\ t.ip \in Slots /\ icache[t.ip].ref > 0 /\ t.ip # Nil
  BY <1>1, HasIp, HasNot, NilSlot DEF WithIp
<1>3. Keeps(p)
  BY <1>1, <1>2, PutsIp
<1>4. x \in EntryType /\ (x.valid => x.type # "free")
  BY <1>2, EntryIs DEF Known, SameAttr
<1>5. Follows(e, x) /\ e.valid = x.valid /\ e.type = x.type
  <2> HIDE DEF x
  <2>1. x.nlink - 1 \in Int
    BY <1>4 DEF EntryType
  <2> QED
    BY <1>4, <2>1, NlinkIs
<1>6. lock' \in [Slots -> Procs \cup {Nobody}]
  BY <1>1, <1>2, TypesAre
<1> HIDE DEF e
<1>7. e.valid => e.type # "free"
  BY <1>4, <1>5
<1> QED
  BY <1>1, <1>2, <1>3, <1>5, <1>6, <1>7, UpdateInv

\* iunlockput(dp) where unlink and link fail.
LEMMA UnlockInv == ASSUME IInv, NEW p \in Procs, unlock_w(p) PROVE IInv'
<1> DEFINE t == th[p]
           m == IF t.op = "link" THEN "link_bad" ELSE "end"
<1>1. /\ t.pc = "unlock_w" /\ lock' = [lock EXCEPT ![t.w] = Nobody]
      /\ th' = [th EXCEPT ![p] = Put([t EXCEPT !.w = Nil], t.w, m)]
      /\ disk' = disk /\ icache' = icache /\ cwd' = cwd /\ ofile' = ofile /\ panicked' = panicked
  BY DEF unlock_w, At
<1>2. t.put = Nil /\ t.w \in Slots /\ t.w # Nil
  BY <1>1, HasW, NilSlot DEF WithW
<1>3. m \in {"end", "link_bad"} /\ (t.ip # Nil <=> m # "end")
  BY <1>1, HasNot
<1> HIDE DEF m
<1>4. Keeps(p)
  BY <1>1, <1>2, <1>3, PutsW
<1>5. lock' \in [Slots -> Procs \cup {Nobody}]
  BY <1>1, <1>2, TypesAre
<1> QED
  BY <1>1, <1>4, <1>5, StillIs, TypesAre, SameStep

\* sys_link: ip->nlink++ is written and the reference kept for the second lookup.
LEMMA LinkInv == ASSUME IInv, NEW p \in Procs, sys_link(p) PROVE IInv'
<1> DEFINE t == th[p]
           l == Loaded(t.w)
           e == [l EXCEPT !.nlink = l.nlink + 1]
<1>1. /\ t.pc = "link" /\ Lockable(t.w) /\ lock' = lock /\ cwd' = cwd /\ ofile' = ofile /\ panicked' = panicked
  BY DEF sys_link, At
<1>2. t.put = Nil /\ t.ip = Nil /\ t.w \in Slots /\ icache[t.w].ref > 0 /\ t.w # Nil
  BY <1>1, HasW, HasNot, NilSlot DEF WithW, Leaves
<1>3. CASE e.type = "dir"
  <2>1. /\ icache' = [icache EXCEPT ![t.w] = l] /\ disk' = disk
        /\ th' = [th EXCEPT ![p] = Put([t EXCEPT !.w = Nil], t.w, "end")]
    BY <1>3 DEF sys_link
  <2>2. Keeps(p)
    BY <1>1, <1>2, <2>1, PutsW
  <2> QED
    BY <1>1, <1>2, <2>1, <2>2, LoadInv
<1>4. CASE e.type # "dir"
  <2>1. /\ icache' = [icache EXCEPT ![t.w] = e] /\ disk' = iupdate(disk, e)
        /\ th' = [th EXCEPT ![p] = Lookup([t EXCEPT !.w = Nil, !.ip = t.w], t.new, TRUE, "dirlink", "link_bad")]
    BY <1>4 DEF sys_link
  <2>2. Keeps(p)
    BY <1>1, <2>1, LinkStep
  <2>3. Follows(l, icache[t.w]) /\ l.type # "free" /\ l \in EntryType
    BY <1>1, <1>2, LoadedIs DEF Follows, Known, SameAttr
  <2> HIDE DEF l
  <2>4. Follows(e, l) /\ e.type = l.type
    <3>1. l.nlink + 1 \in Int
      BY <2>3 DEF EntryType
    <3> QED
      BY <2>3, <3>1, NlinkIs
  <2> HIDE DEF e
  <2>5. Follows(e, icache[t.w]) /\ (e.valid => e.type # "free")
    BY <2>3, <2>4 DEF Follows
  <2>6. lock' \in [Slots -> Procs \cup {Nobody}]
    BY <1>1, TypesAre
  <2> QED
    BY <1>1, <1>2, <2>1, <2>2, <2>5, <2>6, UpdateInv
<1> QED
  BY <1>3, <1>4

\* dirlink finds the name taken: the reference of dirlookup is put, those of link stay.
LEMMA DirlinkTakenInv == ASSUME IInv, NEW p \in Procs, dirlink_taken(p) PROVE IInv'
<1> DEFINE t == th[p]
           i == dirlookup(t.w, Name(t))
<1>1. /\ t.pc = "dirlink" /\ Lockable(t.w) /\ i # Nil /\ ~Full(i)
      /\ icache' = [iget(i) EXCEPT ![t.w] = [Loaded(t.w) EXCEPT !.ref = iget(i)[t.w].ref]]
      /\ lock' = [lock EXCEPT ![t.w] = p]
      /\ th' = [th EXCEPT ![p] = Put(t, SlotOf(i), "unlock_w")]
      /\ disk' = disk /\ cwd' = cwd /\ ofile' = ofile /\ panicked' = panicked
  BY DEF dirlink_taken, At
<1>2. i \in Inums /\ t.w \in Slots /\ icache[t.w].ref > 0
  BY <1>1, HasName, NamesInode, HasW DEF WithW, Name, Parents
<1> HIDE DEF i
<1>3. SlotOf(i) \in Slots => Adds(p, SlotOf(i))
  BY ZenonT(60), <1>1, TakenStep
<1>4. lock' \in [Slots -> Procs \cup {Nobody}]
  BY <1>1, <1>2, TypesAre
<1> QED
  BY <1>1, <1>2, <1>3, <1>4, TypesAre, LoadGetInv DEF SameAttr

\* dirlink writes a name, which is none of the attributes that a copy has.
LEMMA DirlinkInv == ASSUME IInv, NEW p \in Procs, dirlink(p) PROVE IInv'
<1> DEFINE t == th[p]
           e == Loaded(t.w)
<1>1. /\ t.pc = "dirlink" /\ Lockable(t.w) /\ icache' = [icache EXCEPT ![t.w] = e]
      /\ disk' = [disk EXCEPT !.inode[icache[t.w].inum].ents[Name(t)] = icache[t.ip].inum]
      /\ th' = [th EXCEPT ![p] = Put([t EXCEPT !.w = Nil], t.w, "link_done")]
      /\ lock' = lock /\ cwd' = cwd /\ ofile' = ofile /\ panicked' = panicked
  BY Zenon DEF dirlink, At
<1>2. /\ t.put = Nil /\ t.w \in Slots /\ icache[t.w].ref > 0 /\ icache[t.w].inum \in Inums /\ t.w # Nil
      /\ icache[t.ip].inum \in Inums /\ t.ip # Nil
  BY ZenonT(60), <1>1, HasW, HasIp, NilSlot DEF WithW, Parents
<1>3. Keeps(p)
  BY ZenonT(60), <1>1, <1>2, PutsW
<1>4. Follows(e, icache[t.w]) /\ Known(disk.inode[icache[t.w].inum], e) /\ e.inum = icache[t.w].inum
  BY ZenonT(60), <1>1, <1>2, LoadedIs DEF Follows
<1> HIDE DEF e
<1>5. disk' \in DiskType /\ \A j \in Inums : SameAttr(disk'.inode[j], disk.inode[j])
  BY ZenonT(60), <1>1, <1>2, TypesAre, EntIs
<1>6. Known(disk'.inode[e.inum], e)
  BY <1>2, <1>4, <1>5 DEF Known, SameAttr
<1> QED
  BY ZenonT(60), <1>1, <1>2, <1>3, <1>4, <1>5, <1>6, TypesAre, ChangeInv

\* sys_link ends: iput(ip).
LEMMA LinkDoneInv == ASSUME IInv, NEW p \in Procs, link_done(p) PROVE IInv'
<1> DEFINE t == th[p]
<1>1. /\ t.pc = "link_done" /\ th' = [th EXCEPT ![p] = Put([t EXCEPT !.ip = Nil], t.ip, "end")]
      /\ disk' = disk /\ icache' = icache /\ lock' = lock /\ cwd' = cwd /\ ofile' = ofile /\ panicked' = panicked
  BY DEF link_done, At
<1>2. t.put = Nil /\ t.w = Nil /\ t.ip # Nil
  BY <1>1, HasIp, HasNot, NilSlot DEF WithIp
<1>3. Keeps(p)
  BY <1>1, <1>2, PutsIp
<1> QED
  BY <1>1, <1>3, StillIs, TypesAre, SameStep

\* sys_link fails: ip->nlink-- is written, iunlockput(ip).
LEMMA LinkBadInv == ASSUME IInv, NEW p \in Procs, link_bad(p) PROVE IInv'
<1> DEFINE t == th[p]
           l == Loaded(t.ip)
           e == [l EXCEPT !.nlink = l.nlink - 1]
<1>1. /\ t.pc = "link_bad" /\ Lockable(t.ip) /\ icache' = [icache EXCEPT ![t.ip] = e] /\ disk' = iupdate(disk, e)
      /\ th' = [th EXCEPT ![p] = Put([t EXCEPT !.ip = Nil], t.ip, "end")]
      /\ lock' = lock /\ cwd' = cwd /\ ofile' = ofile /\ panicked' = panicked
  BY DEF link_bad, At
<1>2. t.put = Nil /\ t.w = Nil /\ t.ip \in Slots /\ icache[t.ip].ref > 0 /\ t.ip # Nil
  BY <1>1, HasIp, HasNot, NilSlot DEF WithIp
<1>3. Keeps(p)
  BY <1>1, <1>2, PutsIp
<1>4. Follows(l, icache[t.ip]) /\ l.type # "free" /\ l \in EntryType
  BY <1>1, <1>2, LoadedIs DEF Follows, Known, SameAttr
<1> HIDE DEF l
<1>5. Follows(e, l) /\ e.type = l.type
  <2>1. l.nlink - 1 \in Int
    BY <1>4 DEF EntryType
  <2> QED
    BY <1>4, <2>1, NlinkIs
<1> HIDE DEF e
<1>6. Follows(e, icache[t.ip]) /\ (e.valid => e.type # "free")
  BY <1>4, <1>5 DEF Follows
<1> QED
  BY <1>1, <1>2, <1>3, <1>6, TypesAre, UpdateInv

\* sys_chdir: the old directory is put, the new one kept.
LEMMA ChdirInv == ASSUME IInv, NEW p \in Procs, sys_chdir(p) PROVE IInv'
<1> DEFINE t == th[p]
<1>1. /\ t.pc = "chdir" /\ Lockable(t.w) /\ icache' = [icache EXCEPT ![t.w] = Loaded(t.w)]
      /\ disk' = disk /\ lock' = lock /\ ofile' = ofile /\ panicked' = panicked
  BY DEF sys_chdir, At
<1>2. t.put = Nil /\ t.ip = Nil /\ t.w \in Slots /\ icache[t.w].ref > 0 /\ t.w # Nil
  BY <1>1, HasW, HasNot, NilSlot DEF WithW, Leaves
<1>3. Keeps(p)
  <2>1. CASE Loaded(t.w).type # "dir"
    <3>1. th' = [th EXCEPT ![p] = Put([t EXCEPT !.w = Nil], t.w, "end")] /\ cwd' = cwd
      BY <2>1 DEF sys_chdir
    <3> QED
      BY <1>1, <1>2, <3>1, PutsW
  <2>2. CASE Loaded(t.w).type = "dir"
    <3>1. th' = [th EXCEPT ![p] = Put([t EXCEPT !.w = Nil], cwd[p], "end")] /\ cwd' = [cwd EXCEPT ![p] = t.w]
      BY <2>2 DEF sys_chdir
    <3> QED
      BY <1>1, <3>1, ChdirStep
  <2> QED
    BY <2>1, <2>2
<1> QED
  BY <1>1, <1>2, <1>3, LoadInv

\* A write gives a file without a block a free one.
LEMMA FilewriteInv == ASSUME IInv, NEW p \in Procs, filewrite(p) PROVE IInv'
<1> DEFINE s == ofile[p].ip
           l == Loaded(s)
           e == bmap(l)
           b == iupdate(disk, e)
<1>1. /\ th[p].pc = "write" /\ Lockable(s) /\ (l.addr = Nil => Blocks \ disk.bitmap # {})
      /\ icache' = [icache EXCEPT ![s] = e] /\ disk' = [b EXCEPT !.bitmap = @ \cup {e.addr}]
      /\ th' = [th EXCEPT ![p] = Idle]
      /\ lock' = lock /\ cwd' = cwd /\ ofile' = ofile /\ panicked' = panicked
  BY DEF filewrite, At
<1>2. s \in Slots /\ icache[s].ref > 0 /\ icache[s].inum \in Inums
  <2>1. s \in Slots
    BY <1>1, ThreadIs DEF FileOk
  <2> QED
    BY <2>1, Referenced DEF IInv
<1>3. Keeps(p)
  BY <1>1, WriteStep
<1>4. Follows(l, icache[s]) /\ l.type # "free" /\ l \in EntryType
  BY <1>1, <1>2, LoadedIs DEF Follows, Known, SameAttr
<1>5. l.addr = Nil => balloc \in Blocks
  <2>1. SUFFICES ASSUME l.addr = Nil PROVE balloc \in Blocks
    OBVIOUS
  <2>2. Blocks \ disk.bitmap \in SUBSET Nat /\ Blocks \ disk.bitmap # {}
    BY <1>1, <2>1 DEF Blocks
  <2>3. balloc \in Blocks \ disk.bitmap
    BY <2>2, FirstIs DEF balloc
  <2> QED
    BY <2>3
<1> HIDE DEF l
<1>6. Follows(e, l) /\ e.type = l.type /\ e.addr \in Blocks
  <2>1. CASE l.addr = Nil
    <3> DEFINE f == [l EXCEPT !.addr = balloc]
    <3>1. f = [inum |-> l.inum, ref |-> l.ref, valid |-> l.valid, type |-> l.type, nlink |-> l.nlink, addr |-> balloc]
      BY <1>4 DEF EntryType
    <3>2. e = f
      BY <2>1 DEF bmap
    <3> HIDE DEF f, e
    <3>3. f \in EntryType
      BY <1>4, <1>5, <2>1, <3>1 DEF EntryType
    <3> QED
      BY <1>5, <2>1, <3>1, <3>2, <3>3 DEF Follows
  <2>2. CASE l.addr # Nil
    <3>1. e = l
      BY <2>2 DEF bmap
    <3> HIDE DEF e
    <3> QED
      BY <1>4, <2>2, <3>1 DEF Follows, EntryType
  <2> QED
    BY <2>1, <2>2
<1> HIDE DEF e
<1>7. e \in EntryType /\ e.inum = icache[s].inum /\ e.type # "free" /\ Follows(e, icache[s])
  BY <1>4, <1>6 DEF Follows
<1>8. /\ b \in DiskType /\ SameAttr(b.inode[e.inum], e)
      /\ \A j \in Inums \ {e.inum} : b.inode[j] = disk.inode[j]
  BY <1>2, <1>7, TypesAre, UpdateIs
<1> HIDE DEF b
<1>9. disk' = [inode |-> b.inode, bitmap |-> b.bitmap \cup {e.addr}]
  BY <1>1, <1>8 DEF DiskType
<1>10. disk' \in DiskType /\ disk'.inode = b.inode
  BY SMTT(60), <1>6, <1>8, <1>9 DEF DiskType
<1>11. Known(disk'.inode[e.inum], e) /\ \A j \in Inums \ {e.inum} : SameAttr(disk'.inode[j], disk.inode[j])
  BY <1>7, <1>8, <1>10 DEF Known, SameAttr
<1> QED
  BY <1>1, <1>2, <1>3, <1>7, <1>10, <1>11, TypesAre, ChangeInv

\* A panic changes nothing.
LEMMA PanicInv == ASSUME IInv, NEW p \in Procs, panic(p) PROVE IInv'
<1>1. disk' = disk /\ icache' = icache /\ lock' = lock /\ cwd' = cwd /\ ofile' = ofile /\ th' = th
  BY DEF panic
<1>2. panicked' \in Panics
  BY DEF panic, Panics
<1>3. Only(p) /\ LocalOk(th'[p]) /\ FileOk(p)'
  BY <1>1, ThreadIs DEF Only, IInv, TypeOK, FileOk
<1>4. \A s \in Slots : Mine(p, s)' = Mine(p, s)
  BY <1>1 DEF Mine
<1>5. Keeps(p)
  BY <1>3, <1>4 DEF Keeps
<1> QED
  BY <1>1, <1>2, <1>5, StillIs, TypesAre, SameStep

\* The cache at boot, in which every process refers to the root directory.
LEMMA BootIs ==
  /\ BootCache \in [Slots -> EntryType] /\ 1 \in Slots
  /\ \A s \in Slots : /\ BootCache[s].ref = IF s = 1 THEN Cardinality(Procs) ELSE 0
                      /\ ~BootCache[s].valid
                      /\ BootCache[s].inum = IF s = 1 THEN ROOTINO ELSE Nil
<1>1. 1 \in Slots /\ ROOTINO \in Inums /\ Cardinality(Procs) \in Nat
  BY InodeAssumption, FS_CardinalityType DEF Slots, Inums, ROOTINO
<1> DEFINE n == NoEntry
           e == [n EXCEPT !.inum = ROOTINO]
           f == [e EXCEPT !.ref = Cardinality(Procs)]
<1>2. n \in EntryType /\ n.ref = 0 /\ ~n.valid
  BY NoEntryIs
<1>3. n.inum = Nil
  BY DEF NoEntry
<1>4. BootCache = [s \in Slots |-> IF s = 1 THEN f ELSE n]
  BY DEF BootCache
<1> HIDE DEF n
<1>5. e = [inum |-> ROOTINO, ref |-> n.ref, valid |-> n.valid, type |-> n.type, nlink |-> n.nlink, addr |-> n.addr] /\ e \in EntryType
  BY <1>1, <1>2 DEF EntryType
<1> HIDE DEF e
<1>6. f = [inum |-> ROOTINO, ref |-> Cardinality(Procs), valid |-> n.valid, type |-> n.type, nlink |-> n.nlink, addr |-> n.addr]
      /\ f \in EntryType
  BY <1>1, <1>2, <1>5 DEF EntryType
<1> HIDE DEF f
<1> QED
  BY <1>1, <1>2, <1>3, <1>4, <1>6

\* Its counts are right: nobody has another reference.
LEMMA BootRefs ==
  ASSUME NEW T, \A p \in Procs : T[p].w = Nil /\ T[p].ip = Nil /\ T[p].put = Nil,
         NEW C, C = [p \in Procs |-> 1], NEW F, F = [p \in Procs |-> NoFile], NEW s \in Slots
  PROVE  BootCache[s].ref = Cardinality({p \in Procs : T[p].w = s}) + Cardinality({p \in Procs : T[p].ip = s})
                          + Cardinality({p \in Procs : T[p].put = s}) + Cardinality({p \in Procs : C[p] = s})
                          + Cardinality({p \in Procs : F[p].ip = s})
<1> DEFINE W == {p \in Procs : T[p].w = s}
           I == {p \in Procs : T[p].ip = s}
           U == {p \in Procs : T[p].put = s}
           D == {p \in Procs : C[p] = s}
           G == {p \in Procs : F[p].ip = s}
<1>1. W = {} /\ I = {} /\ U = {} /\ G = {}
  BY NilSlot DEF NoFile
<1>2. D = IF s = 1 THEN Procs ELSE {}
  OBVIOUS
<1>3. Cardinality({}) = 0 /\ Cardinality(Procs) \in Nat
  BY InodeAssumption, FS_EmptySet, FS_CardinalityType
<1>4. BootCache[s].ref = IF s = 1 THEN Cardinality(Procs) ELSE 0
  BY BootIs
<1> HIDE DEF W, I, U, D, G
<1>5. BootCache[s].ref = Cardinality(W) + Cardinality(I) + Cardinality(U) + Cardinality(D) + Cardinality(G)
  BY <1>1, <1>2, <1>3, <1>4
<1> QED
  BY <1>5 DEF W, I, U, D, G

\* After a restart every process refers to the root directory and to nothing else.
LEMMA CrashInv == ASSUME IInv, Crash PROVE IInv'
<1>1. /\ icache' = BootCache /\ cwd' = [p \in Procs |-> 1] /\ ofile' = [p \in Procs |-> NoFile]
      /\ disk' = disk /\ lock' = lock /\ th' = th /\ panicked' = panicked
      /\ \A p \in Procs : th[p].pc = "idle"
  BY DEF Crash, Quiescent
<1>2. \A p \in Procs : th[p].w = Nil /\ th[p].ip = Nil /\ th[p].put = Nil
  BY <1>1, ThreadIs DEF LocalOk, RefsOk, Where, Putting, WithW, WithIp, Looking, Parents, Leaves
<1>3. NoFile \in [ip : Slots \cup {Nil}, writable : BOOLEAN] /\ NoFile.ip = Nil /\ ~NoFile.writable
  BY DEF NoFile
<1>4. TypeOK'
  BY <1>1, <1>3, BootIs DEF IInv, TypeOK
<1>5. LocalInv'
  BY <1>1 DEF IInv, LocalInv
<1>6. FileInv'
  BY <1>1, <1>3 DEF FileInv
<1>7. EntryInv' /\ OneEntryPerInode' /\ CopyInv'
  BY <1>1, BootIs, NilSlot, InodeAssumption DEF EntryInv, OneEntryPerInode, CopyInv, ROOTINO, Nil
<1>8. RefsCounted'
  BY <1>1, <1>2, BootRefs DEF RefsCounted
<1> QED
  BY <1>4, <1>5, <1>6, <1>7, <1>8 DEF IInv

\* mkfs's tree and the first processes.
LEMMA InitInv == Init => IInv
<1> SUFFICES ASSUME Init PROVE IInv
  OBVIOUS
<1>1. /\ icache = BootCache /\ cwd = [p \in Procs |-> 1] /\ ofile = [p \in Procs |-> NoFile]
      /\ disk = [inode |-> [i \in Inums |-> IF i \in DOMAIN Tree THEN Tree[i] ELSE Free], bitmap |-> {}]
      /\ lock = [s \in Slots |-> Nobody] /\ th = [p \in Procs |-> Idle] /\ panicked = "no"
  BY DEF Init, FirstInodes
<1>2. \A p \in Procs : th[p] = Idle
  BY <1>1
<1>3. NoFile \in [ip : Slots \cup {Nil}, writable : BOOLEAN] /\ NoFile.ip = Nil /\ ~NoFile.writable
  BY DEF NoFile
<1>4. TypeOK
  <2>1. Free \in InodeType
    BY DEF Free, InodeType, Types, NoEnts
  <2>2. disk \in [inode : [Inums -> InodeType], bitmap : SUBSET Blocks]
    BY <1>1, <2>1, InodeAssumption
  <2>3. panicked \in Panics
    BY <1>1 DEF Panics
  <2> QED
    BY <1>1, <1>3, <2>2, <2>3, BootIs, IdleIs DEF TypeOK
<1>5. LocalInv
  BY <1>2, IdleIs DEF LocalInv, LocalOk
<1>6. FileInv
  BY <1>1, <1>2, <1>3, IdleIs DEF FileInv
<1>7. EntryInv /\ OneEntryPerInode /\ CopyInv
  BY <1>1, BootIs, NilSlot, InodeAssumption DEF EntryInv, OneEntryPerInode, CopyInv, ROOTINO, Nil
<1>8. RefsCounted
  <2>1. \A p \in Procs : th[p].w = Nil /\ th[p].ip = Nil /\ th[p].put = Nil
    BY <1>2, IdleIs
  <2>2. ASSUME NEW s \in Slots
        PROVE  BootCache[s].ref = Cardinality({p \in Procs : th[p].w = s}) + Cardinality({p \in Procs : th[p].ip = s})
                                + Cardinality({p \in Procs : th[p].put = s}) + Cardinality({p \in Procs : cwd[p] = s})
                                + Cardinality({p \in Procs : ofile[p].ip = s})
    <3>1. cwd = [p \in Procs |-> 1] /\ ofile = [p \in Procs |-> NoFile]
      BY <1>1
    <3> QED
      BY <2>1, <3>1, BootRefs
  <2>3. icache = BootCache
    BY <1>1
  <2> QED
    BY <2>2, <2>3, Zenon DEF RefsCounted
<1> QED
  BY <1>4, <1>5, <1>6, <1>7, <1>8 DEF IInv


\* Every step keeps the invariant.
LEMMA Inductive == IInv /\ [Next]_vars => IInv'
<1> SUFFICES ASSUME IInv, [Next]_vars PROVE IInv'
  OBVIOUS
<1>1. CASE Crash
  BY <1>1, CrashInv
<1>2. ASSUME NEW p \in Procs, Run(p) PROVE IInv'
  <2>1. CASE \E c \in Calls : begin(p, c)
    BY <2>1, BeginInv
  <2>2. CASE start(p) \/ namex_end(p) \/ namex_step(p) \/ namex_parent(p) \/ namex_fail(p)
    BY <2>2, StartInv, NamexEndInv, NamexStepInv, NamexParentInv, NamexFailInv
  <2>3. CASE iput(p) \/ ifree(p) \/ unref(p)
    BY <2>3, IputInv, IfreeInv, UnrefInv
  <2>4. CASE create_found(p) \/ create_lock(p) \/ ialloc(p) \/ create_fill(p) \/ sys_open(p) \/ opened(p)
    BY <2>4, CreateFoundInv, CreateLockInv, IallocInv, CreateFillInv, OpenInv, OpenedInv
  <2>5. CASE \/ unlink_fail(p) \/ unlink_found(p) \/ unlink_busy(p) \/ unlink_erase(p) \/ unlink_drop(p)
             \/ unlock_w(p)
    BY <2>5, UnlinkFailInv, UnlinkFoundInv, UnlinkBusyInv, UnlinkEraseInv, UnlinkDropInv, UnlockInv
  <2>6. CASE sys_link(p) \/ dirlink_taken(p) \/ dirlink(p) \/ link_done(p) \/ link_bad(p)
    BY <2>6, LinkInv, DirlinkTakenInv, DirlinkInv, LinkDoneInv, LinkBadInv
  <2>7. CASE sys_chdir(p) \/ filewrite(p) \/ panic(p)
    BY <2>7, ChdirInv, FilewriteInv, PanicInv
  <2> QED
    BY <1>2, <2>1, <2>2, <2>3, <2>4, <2>5, <2>6, <2>7, Zenon DEF Run
<1>3. CASE UNCHANGED vars
  <2>1. UNCHANGED <<disk, icache, lock, cwd, ofile, th, panicked>>
    BY <1>3 DEF vars
  <2> QED
    BY <2>1 DEF IInv, TypeOK, LocalInv, FileInv, EntryInv, OneEntryPerInode, RefsCounted, CopyInv, Copy
<1> QED
  BY <1>1, <1>2, <1>3 DEF Next

-----------------------------------------------------------------------------
\* The inductive invariant holds throughout.
THEOREM Invariant == Spec => []IInv
BY InitInv, Inductive, PTL DEF Spec

\* Every variable has its type: a process never follows a null pointer to an
\* entry that its call should have, and no call goes on at a label that is not
\* one.
THEOREM TypeCorrect == Spec => []TypeOK
<1>1. IInv => TypeOK
  BY DEF IInv
<1> QED
  BY <1>1, Invariant, PTL

\* iget under icache.lock: an inode has at most one entry in the cache, so the
\* sleep lock of the entry is the lock of the inode.
THEOREM OneEntryPerInodeHolds == Spec => []OneEntryPerInode
<1>1. IInv => OneEntryPerInode
  BY DEF IInv
<1> QED
  BY <1>1, Invariant, PTL

\* No path of create, open, link, unlink, mkdir, chdir, write and close, and no
\* crash, loses a reference to an inode or puts one twice.
THEOREM RefsCountedHolds == Spec => []RefsCounted
<1>1. IInv => RefsCounted
  BY DEF IInv
<1> QED
  BY <1>1, Invariant, PTL

\* What the cache says of an inode that nobody has locked is on the disk.
THEOREM WriteThroughHolds == Spec => []WriteThrough
<1>1. IInv => WriteThrough
  BY DEF IInv, CopyInv, Copy, WriteThrough
<1> QED
  BY <1>1, Invariant, PTL

-----------------------------------------------------------------------------
(***************************************************************************)
(* The file system on the disk.  FsInv is inductive together with IInv:    *)
(*                                                                         *)
(* TreeInv: the directories with a link are a tree.  One that unlink has   *)
(* taken the name of is no longer one of them, though its count is still 1.*)
(*                                                                         *)
(* CountInv: a link count is the number of names and of processes that owe *)
(* the inode one: link has counted a name that it has not yet written, and *)
(* unlink has erased one that it still counts.                             *)
(*                                                                         *)
(* BlockInv: a block is marked exactly when one inode has it.              *)
(*                                                                         *)
(* CallInv: what each call relies on, wherever it is: the inodes it has    *)
(* are allocated, the directory it works in stays, and what it has looked  *)
(* up under a lock is still so.                                            *)
(***************************************************************************)
Ino(s)  == icache[s].inum
Node(s) == disk.inode[icache[s].inum]

\* unlink is about to take a link away; link is about to write a name or to
\* take back the link it has added.
Dropping(t) == Where(t) = "unlink_drop"
Linking(t)  == Where(t) = "link_bad" \/ (Where(t) \in Looking /\ t.ok = "dirlink")
Owes(t)     == Dropping(t) \/ Linking(t)
Owing(i)    == {p \in Procs : Owes(th[p]) /\ Ino(th[p].ip) = i}

\* The directories that have a name, and those of them that stay.
Live == {i \in Inums : /\ disk.inode[i].type = "dir" /\ disk.inode[i].nlink > 0
                       /\ \A p \in Procs : Dropping(th[p]) => Ino(th[p].ip) # i}
Kept == KeptIn(disk.inode, Live)

TreeInv  == IsTree(disk.inode, Live)
CountInv ==
  \A i \in Inums : disk.inode[i].nlink = Cardinality(NamesOf(disk.inode, Live, i)) + Cardinality(Owing(i))
BlockInv ==
  /\ \A i, j \in Inums : i # j /\ disk.inode[i].addr # Nil => disk.inode[i].addr # disk.inode[j].addr
  /\ disk.bitmap = {disk.inode[i].addr : i \in Inums} \ {Nil}

\* The entries p has, other than one whose inode it has just freed: their
\* inodes are allocated.
Uses(p) == {th[p].w, th[p].ip, cwd[p], ofile[p].ip}
             \cup (IF th[p].pc \in {"iput", "ifree"} THEN {th[p].put} ELSE {})
UseOk(p) == \A s \in Uses(p) \ {Nil} : Node(s).type # "free"

\* The rest of a path leads through directories that stay; the last element
\* is a name where the call works in the parent.
KeptPath(q) == \A k \in 1..(Len(q) - 1) : q[k] \notin Removable
Last(q)     == q[Len(q)]
WayOk(t) ==
  /\ Where(t) \in {"start", "namex"} \cup Parents =>
       /\ KeptPath(t.path)
       /\ t.path # <<>> /\ t.ok = "chdir" => Last(t.path) \notin Removable
       /\ t.path # <<>> /\ t.ok = "unlink" => Last(t.path) \notin Names \ Removable
  /\ Where(t) \in Parents \cup {"create_fill", "unlink_ip"} => Len(t.path) = 1 /\ Head(t.path) \in Entries
  /\ t.op = "link" => KeptPath(t.new)

\* A directory p works in, goes on from or has as its current one stays.
InDir(t)   == Where(t) \in Parents \cup {"create_fill", "unlink_ip"}
Walking(t) == Where(t) \in {"namex", "chdir"} /\ (t.path # <<>> \/ t.par \/ t.ok = "chdir")
WalkOk(p) ==
  /\ Ino(cwd[p]) \in Kept
  /\ InDir(th[p]) => Ino(th[p].w) \in Kept
  /\ Walking(th[p]) /\ Node(th[p].w).type = "dir" => Ino(th[p].w) \in Kept

\* The entries whose locks p holds between steps; they are valid.
Held(t) == (IF Where(t) \in {"create_fill", "unlink_ip", "unlock_w"} THEN {t.w} ELSE {})
     \cup (IF Where(t) \in {"opened", "unlink_drop"} THEN {t.ip} ELSE {})
     \cup (IF t.pc = "ifree" THEN {t.put} ELSE {})
HoldOk(p) == \A s \in Held(th[p]) : lock[s] = p /\ icache[s].valid

\* Nobody else uses entry s.
Alone(p, s) == \A q \in Procs \ {p} : s \notin Uses(q)

\* create has a new inode that nobody else knows, and the name is still free.
FillOk(p) ==
  Where(th[p]) = "create_fill" =>
    /\ Node(th[p].w).ents[Name(th[p])] = Nil
    /\ Node(th[p].ip) = [Free EXCEPT !.type = TypeMade(th[p].op)]
    /\ Alone(p, th[p].ip)

\* unlink has what the name still stands for; a directory it takes the name
\* of has no other link; link works on a file.
EraseOk(p) ==
  Where(th[p]) = "unlink_ip" => Name(th[p]) \in Removable /\ Node(th[p].w).ents[Name(th[p])] = Ino(th[p].ip)
DropOk(p) == Dropping(th[p]) /\ Node(th[p].ip).type = "dir" => Node(th[p].ip).nlink = 1
LinkOk(p) == Linking(th[p]) => Node(th[p].ip).type = "file"

\* iput frees an inode that has no name and that nobody else has.
FreeOk(p) ==
  th[p].pc = "ifree" =>
    /\ Node(th[p].put).nlink = 0
    /\ Alone(p, th[p].put) /\ th[p].put \notin {th[p].w, th[p].ip, cwd[p], ofile[p].ip}

CallOk(p) == /\ UseOk(p) /\ WayOk(th[p]) /\ WalkOk(p) /\ HoldOk(p) /\ FillOk(p) /\ EraseOk(p) /\ DropOk(p)
             /\ LinkOk(p) /\ FreeOk(p)
CallInv == \A p \in Procs : CallOk(p)
FsInv   == TreeInv /\ CountInv /\ BlockInv /\ CallInv /\ NoPanic

-----------------------------------------------------------------------------
(***************************************************************************)
(* Counting.                                                               *)
(***************************************************************************)
\* A process with a pointer to an entry is counted in it; one that has the
\* only one is alone.
LEMMA CountOne ==
  ASSUME NEW p \in Procs, NEW W \in SUBSET Procs, NEW I \in SUBSET Procs, NEW U \in SUBSET Procs,
         NEW C \in SUBSET Procs, NEW F \in SUBSET Procs, NEW n,
         n = Cardinality(W) + Cardinality(I) + Cardinality(U) + Cardinality(C) + Cardinality(F)
  PROVE  /\ p \in W \cup I \cup U \cup C \cup F => n > 0
         /\ p \in U /\ n = 1 => W = {} /\ I = {} /\ C = {} /\ F = {} /\ U \ {p} = {}
<1>1. ASSUME NEW S \in SUBSET Procs
      PROVE  /\ Cardinality(S) \in Nat /\ (Cardinality(S) = 0 => S = {}) /\ (p \in S => Cardinality(S) > 0)
             /\ p \in S => Cardinality(S \ {p}) = Cardinality(S) - 1
  <2>1. IsFiniteSet(S)
    BY InodeAssumption, FS_Subset
  <2> QED
    BY <2>1, FS_CardinalityType, FS_EmptySet, FS_RemoveElement
<1> DEFINE w == Cardinality(W)  i == Cardinality(I)  u == Cardinality(U)  c == Cardinality(C)  f == Cardinality(F)
<1>2. /\ w \in Nat /\ (w = 0 => W = {}) /\ (p \in W => w > 0)
      /\ i \in Nat /\ (i = 0 => I = {}) /\ (p \in I => i > 0)
      /\ u \in Nat /\ (p \in U => u > 0 /\ Cardinality(U \ {p}) = u - 1)
      /\ c \in Nat /\ (c = 0 => C = {}) /\ (p \in C => c > 0)
      /\ f \in Nat /\ (f = 0 => F = {}) /\ (p \in F => f > 0)
      /\ Cardinality(U \ {p}) = 0 => U \ {p} = {}
  <2>1. U \ {p} \in SUBSET Procs
    OBVIOUS
  <2> QED
    BY <1>1, <2>1, Zenon
<1> DEFINE v == Cardinality(U \ {p})
<1>3. n = w + i + u + c + f
  OBVIOUS
<1>4. (p \in U => u > 0 /\ v = u - 1) /\ (v = 0 => U \ {p} = {})
  BY <1>2
<1> HIDE DEF w, i, u, c, f, v
<1> QED
  BY <1>2, <1>3, <1>4

\* Who is referred to after a step is in use.
LEMMA ReferencedNext ==
  ASSUME IInv', NEW p \in Procs, NEW s \in Slots, s \in {th'[p].w, th'[p].ip, th'[p].put, cwd'[p], ofile'[p].ip}
  PROVE  icache'[s].ref > 0 /\ icache'[s].inum \in Inums
<1> DEFINE W == {q \in Procs : th'[q].w = s}
           I == {q \in Procs : th'[q].ip = s}
           U == {q \in Procs : th'[q].put = s}
           C == {q \in Procs : cwd'[q] = s}
           F == {q \in Procs : ofile'[q].ip = s}
<1>1. W \in SUBSET Procs /\ I \in SUBSET Procs /\ U \in SUBSET Procs /\ C \in SUBSET Procs /\ F \in SUBSET Procs
  OBVIOUS
<1>2. icache'[s].ref = Cardinality(W) + Cardinality(I) + Cardinality(U) + Cardinality(C) + Cardinality(F)
  BY DEF IInv, RefsCounted
<1>3. p \in W \cup I \cup U \cup C \cup F
  OBVIOUS
<1> HIDE DEF W, I, U, C, F
<1>4. icache'[s].ref > 0
  BY <1>1, <1>2, <1>3, CountOne
<1>5. icache'[s].inum \in Inums \cup {Nil} /\ icache'[s].inum # Nil
  BY <1>4 DEF IInv, TypeOK, EntryType, EntryInv
<1> QED
  BY <1>4, <1>5

\* iput reads a reference count of one: nobody else has the entry.
LEMMA OnlyRef ==
  ASSUME IInv, NEW p \in Procs, NEW s \in Slots, th[p].put = s, icache[s].ref = 1
  PROVE  Alone(p, s) /\ s \notin {th[p].w, th[p].ip, cwd[p], ofile[p].ip}
<1> DEFINE W == {q \in Procs : th[q].w = s}
           I == {q \in Procs : th[q].ip = s}
           U == {q \in Procs : th[q].put = s}
           C == {q \in Procs : cwd[q] = s}
           F == {q \in Procs : ofile[q].ip = s}
<1>1. W \in SUBSET Procs /\ I \in SUBSET Procs /\ U \in SUBSET Procs /\ C \in SUBSET Procs /\ F \in SUBSET Procs /\ p \in U
  OBVIOUS
<1>2. icache[s].ref = Cardinality(W) + Cardinality(I) + Cardinality(U) + Cardinality(C) + Cardinality(F)
  BY DEF IInv, RefsCounted
<1> HIDE DEF W, I, U, C, F
<1>3. W = {} /\ I = {} /\ C = {} /\ F = {} /\ U \ {p} = {}
  BY SMTT(60), <1>1, <1>2, CountOne
<1>4. \A q \in Procs : th[q].w # s /\ th[q].ip # s /\ cwd[q] # s /\ ofile[q].ip # s /\ (q # p => th[q].put # s)
  BY <1>3 DEF W, I, U, C, F
<1> QED
  BY <1>4 DEF Alone, Uses

\* The names of an inode are finitely many.
LEMMA NamesFinite ==
  ASSUME NEW I, NEW L, NEW i
  PROVE  IsFiniteSet(NamesOf(I, L, i)) /\ Cardinality(NamesOf(I, L, i)) \in Nat
<1>1. IsFiniteSet(Inums)
  BY InodeAssumption, FS_Interval DEF Inums
<1>2. IsFiniteSet(Names \cup {".."})
  BY InodeAssumption, FS_AddElement
<1>3. IsFiniteSet((Names \cup {".."}) \cup {"."})
  BY <1>2, FS_AddElement
<1>4. IsFiniteSet(Entries \ {"."})
  <2>1. Entries \ {"."} \subseteq (Names \cup {".."}) \cup {"."}
    BY DEF Entries
  <2> QED
    BY <1>3, <2>1, FS_Subset
<1>5. IsFiniteSet(Inums \X (Entries \ {"."}))
  BY <1>1, <1>4, FS_Product
<1>6. NamesOf(I, L, i) \subseteq Inums \X (Entries \ {"."})
  BY DEF NamesOf
<1> QED
  BY <1>5, <1>6, FS_Subset, FS_CardinalityType

\* Processes that owe are finitely many.
LEMMA OwingFinite ==
  ASSUME NEW i
  PROVE  IsFiniteSet(Owing(i)) /\ Cardinality(Owing(i)) \in Nat
<1>1. Owing(i) \subseteq Procs
  BY SMTT(60) DEF Owing
<1> QED
  BY <1>1, InodeAssumption, FS_Subset, FS_CardinalityType

-----------------------------------------------------------------------------
(***************************************************************************)
(* What the directories promise to who walks through them.                 *)
(***************************************************************************)
\* The root is a directory that stays; a directory that stays has a name.
LEMMA KeptIs ==
  ASSUME IInv, TreeInv
  PROVE  /\ ROOTINO \in Kept /\ Kept \subseteq Live /\ Live \subseteq Inums
         /\ \A d \in Live : disk.inode[d].type = "dir" /\ disk.inode[d].nlink >= 1
<1>1. \A d \in Inums : disk.inode[d] \in InodeType
  BY DEF IInv, TypeOK
<1>2. \A d \in Inums : disk.inode[d].nlink \in Int
  BY <1>1 DEF InodeType
<1> QED
  BY <1>2 DEF TreeInv, IsTree, Kept, KeptIn, Live

\* What has a name is not free and has a link.
LEMMA Named ==
  ASSUME IInv, TreeInv, CountInv, NEW d \in Live, NEW n \in Entries, NEW i, i = disk.inode[d].ents[n], i # Nil
  PROVE  i \in Inums /\ disk.inode[i].nlink >= 1 /\ disk.inode[i].type # "free"
<1>1. d \in Inums /\ disk.inode[d].nlink >= 1 /\ disk.inode \in [Inums -> InodeType]
  BY KeptIs DEF IInv, TypeOK
<1>2. disk.inode[d].ents \in [Entries -> Inums \cup {Nil}]
  BY <1>1 DEF InodeType
<1>3. i \in Inums
  BY <1>2
<1>4. disk.inode[i].nlink >= 1
  <2>1. CASE n = "."
    BY <1>1, <2>1 DEF TreeInv, IsTree
  <2>2. CASE n # "."
    <3>1. <<d, n>> \in NamesOf(disk.inode, Live, i)
      BY <1>1, <2>2 DEF NamesOf
    <3>2. Cardinality(NamesOf(disk.inode, Live, i)) # 0
      BY <3>1, NamesFinite, FS_EmptySet
    <3>3. Cardinality(NamesOf(disk.inode, Live, i)) \in Nat /\ Cardinality(Owing(i)) \in Nat
      BY NamesFinite, OwingFinite
    <3>4. disk.inode[i].nlink = Cardinality(NamesOf(disk.inode, Live, i)) + Cardinality(Owing(i))
      BY <1>3 DEF CountInv
    <3> QED
      BY <3>2, <3>3, <3>4
  <2> QED
    BY <2>1, <2>2
<1>5. disk.inode[i].type # "free"
  BY <1>3, <1>4 DEF TreeInv, IsTree, Free
<1> QED
  BY <1>3, <1>4, <1>5

\* From a directory that stays a name that no call unlinks leads to another.
LEMMA KeptStep ==
  ASSUME IInv, TreeInv, NEW d \in Kept, NEW n \in Entries \ Removable, NEW i, i = disk.inode[d].ents[n], i # Nil,
         disk.inode[i].type = "dir"
  PROVE  i \in Kept
<1>1. d \in Live
  BY KeptIs
<1>2. CASE n = "."
  BY <1>1, <1>2 DEF TreeInv, IsTree
<1>3. CASE n = ".."
  BY <1>1, <1>3 DEF TreeInv, IsTree, Kept
<1>4. CASE n \in Names
  <2>1. i \in Live
    BY <1>1, <1>4 DEF TreeInv, IsTree
  <2> QED
    BY <1>1, <1>4, <2>1 DEF Kept, KeptIn
<1> QED
  BY <1>2, <1>3, <1>4 DEF Entries

\* The entries a call uses are in use, and name inodes.
LEMMA UsesIs ==
  ASSUME IInv, NEW p \in Procs, NEW s \in Uses(p) \ {Nil}
  PROVE  s \in Slots /\ icache[s].ref > 0 /\ Ino(s) \in Inums /\ Node(s) \in InodeType
<1>1. s \in Slots /\ s \in {th[p].w, th[p].ip, th[p].put, cwd[p], ofile[p].ip}
  BY ThreadIs DEF Uses
<1>2. icache[s].ref > 0
  BY <1>1, Referenced DEF IInv
<1> QED
  BY <1>1, <1>2, EntryIs DEF Ino, Node

\* So they are after a step.
LEMMA UsesNext ==
  ASSUME IInv', NEW p \in Procs, NEW s \in Uses(p)' \ {Nil}
  PROVE  s \in Slots /\ icache'[s].ref > 0 /\ icache'[s].inum \in Inums
<1>1. th'[p] \in ThreadType /\ cwd'[p] \in Slots /\ ofile'[p].ip \in Slots \cup {Nil}
  BY DEF IInv, TypeOK
<1>2. th'[p].w \in Slots \cup {Nil} /\ th'[p].ip \in Slots \cup {Nil} /\ th'[p].put \in Slots \cup {Nil}
  BY <1>1 DEF ThreadType
<1>3. s \in Slots /\ s \in {th'[p].w, th'[p].ip, th'[p].put, cwd'[p], ofile'[p].ip}
  BY <1>1, <1>2 DEF Uses
<1> QED
  BY <1>3, ReferencedNext

-----------------------------------------------------------------------------
(***************************************************************************)
(* A step of p leaves the calls of the others right.                       *)
(***************************************************************************)
\* Entries in use stay where they are, and p leaves the locks of others alone.
CacheStep(p) ==
  /\ Only(p)
  /\ \A s \in Slots : icache[s].ref > 0 /\ icache'[s].ref > 0 =>
       /\ icache'[s].inum = icache[s].inum
       /\ icache[s].valid /\ lock[s] # p => icache'[s].valid
  /\ \A s \in Slots : lock[s] \notin {p, Nobody} => lock'[s] = lock[s]

\* p writes inodes that were free and those it uses and that no other has
\* locked; none but the one it frees changes its type.
DiskStep(p) ==
  /\ \A i \in Inums : \/ disk'.inode[i] = disk.inode[i]
                      \/ disk.inode[i].type = "free"
                      \/ \E z \in Uses(p) \ {Nil} : Ino(z) = i /\ lock[z] \in {p, Nobody}
  /\ \A i \in Inums : disk.inode[i].type # "free" /\ disk'.inode[i].type # disk.inode[i].type =>
                        th[p].pc = "ifree" /\ Ino(th[p].put) = i
  /\ Kept \subseteq Kept'

\* What p takes is named or was free.
NewUses(p) ==
  \A s \in Uses(p)' \ {Nil} :
    \/ s \in Uses(p)
    \/ disk.inode[icache'[s].inum].nlink >= 1
    \/ disk.inode[icache'[s].inum].type = "free"

\* An inode is used through one entry.
LEMMA UsedOnce ==
  ASSUME IInv, NEW p \in Procs, NEW q \in Procs, NEW z \in Uses(p) \ {Nil}, NEW s \in Uses(q) \ {Nil}, Ino(z) = Ino(s)
  PROVE  z = s
BY UsesIs DEF IInv, OneEntryPerInode, Ino

\* The locks a call holds are on entries it uses.
LEMMA HeldIs ==
  ASSUME IInv, NEW q \in Procs
  PROVE  /\ Held(th[q]) \subseteq Uses(q) \ {Nil}
         /\ Where(th[q]) \in {"create_fill", "unlink_ip"} => th[q].w \in Uses(q) \ {Nil} /\ th[q].ip \in Uses(q) \ {Nil}
         /\ Owes(th[q]) => th[q].ip \in Uses(q) \ {Nil}
         /\ InDir(th[q]) \/ Walking(th[q]) => th[q].w \in Uses(q) \ {Nil}
         /\ cwd[q] \in Uses(q) \ {Nil}
<1>1. RefsOk(th[q]) /\ cwd[q] \in Slots
  BY ThreadIs DEF LocalOk
<1>2. /\ Where(th[q]) \in {"create_fill", "unlink_ip", "unlock_w", "namex", "chdir"} \cup Parents => th[q].w # Nil
      /\ Where(th[q]) \in {"opened", "unlink_drop", "create_fill", "unlink_ip", "link_bad"} => th[q].ip # Nil
      /\ Where(th[q]) \in Looking /\ th[q].ok = "dirlink" => th[q].ip # Nil
      /\ th[q].pc = "ifree" => th[q].put # Nil
  BY <1>1 DEF RefsOk, WithW, WithIp, Putting, Parents, Leaves
<1>3. Held(th[q]) \subseteq Uses(q) \ {Nil}
  BY <1>2 DEF Held, Uses
<1>4. cwd[q] \in Uses(q) \ {Nil}
  BY <1>1, NilSlot DEF Uses
<1> QED
  BY <1>2, <1>3, <1>4 DEF Uses, Owes, Dropping, Linking, InDir, Walking

\* What another call uses keeps its inode; the inode keeps its type, and
\* everything when it is locked or used by nobody else.
LEMMA OtherNode ==
  ASSUME IInv, IInv', CallInv, NEW p \in Procs, CacheStep(p), DiskStep(p), NEW q \in Procs \ {p}, NEW s \in Uses(q) \ {Nil}
  PROVE  /\ s \in Slots /\ icache[s].ref > 0 /\ icache'[s].ref > 0 /\ Ino(s) \in Inums /\ Ino(s)' = Ino(s)
         /\ Node(s)'.type = Node(s).type /\ Node(s).type # "free"
         /\ lock[s] = q \/ Alone(q, s) => Node(s)' = Node(s)
<1>1. s \in Slots /\ icache[s].ref > 0 /\ Ino(s) \in Inums
  BY UsesIs
<1>2. Uses(q)' = Uses(q)
  BY DEF CacheStep, Only, Uses
<1>3. icache'[s].ref > 0
  BY <1>2, UsesNext
<1>4. icache'[s].inum = icache[s].inum
  BY <1>1, <1>3 DEF CacheStep
<1>5. Node(s) = disk.inode[Ino(s)] /\ Node(s)' = disk'.inode[Ino(s)]
  BY <1>4 DEF Node, Ino
<1>6. Node(s).type # "free"
  BY DEF CallInv, CallOk, UseOk
<1>7. Node(s)'.type = Node(s).type
  <2> SUFFICES ASSUME disk'.inode[Ino(s)].type # disk.inode[Ino(s)].type PROVE FALSE
    BY <1>5
  <2>1. th[p].pc = "ifree" /\ Ino(th[p].put) = Ino(s)
    BY <1>1, <1>5, <1>6 DEF DiskStep
  <2>2. th[p].put \in Uses(p) \ {Nil}
    BY <2>1, HeldIs DEF Held
  <2>3. th[p].put = s
    BY <2>1, <2>2, UsedOnce
  <2> QED
    BY <2>1, <2>3 DEF CallInv, CallOk, FreeOk, Alone
<1>8. ASSUME lock[s] = q \/ Alone(q, s) PROVE Node(s)' = Node(s)
  <2> SUFFICES ASSUME disk'.inode[Ino(s)] # disk.inode[Ino(s)] PROVE FALSE
    BY <1>5
  <2>1. PICK z \in Uses(p) \ {Nil} : Ino(z) = Ino(s) /\ lock[z] \in {p, Nobody}
    BY <1>1, <1>5, <1>6 DEF DiskStep
  <2>2. z = s
    BY <2>1, UsedOnce
  <2>3. q # Nobody /\ q # p
    BY InodeAssumption
  <2> QED
    BY <1>8, <2>1, <2>2, <2>3 DEF Alone
<1> QED
  BY <1>1, <1>3, <1>4, <1>6, <1>7, <1>8 DEF Ino

\* What q has alone p does not take.
LEMMA OtherAlone ==
  ASSUME IInv, IInv', CallInv, NEW p \in Procs, CacheStep(p), DiskStep(p), NewUses(p), NEW q \in Procs \ {p},
         NEW s \in Uses(q) \ {Nil}, Alone(q, s), Node(s).nlink = 0
  PROVE  Alone(q, s)'
<1>1. Ino(s)' = Ino(s) /\ Node(s).type # "free" /\ s \in Slots
  BY OtherNode
<1>2. \A r \in Procs \ {p} : Uses(r)' = Uses(r)
  BY DEF CacheStep, Only, Uses
<1>3. s \notin Uses(p)
  BY DEF Alone
<1>4. s \notin Uses(p)'
  BY <1>1, <1>3, NilSlot DEF NewUses, Node, Ino
<1> QED
  BY <1>2, <1>4 DEF Alone

\* All that a call relies on.
LEMMA OthersOk ==
  ASSUME IInv, IInv', CallInv, NEW p \in Procs, CacheStep(p), DiskStep(p), NewUses(p), NEW q \in Procs \ {p}
  PROVE  CallOk(q)'
<1> DEFINE t == th[q]
<1>0. CallOk(q)
  BY DEF CallInv
<1>1. th'[q] = t /\ cwd'[q] = cwd[q] /\ ofile'[q] = ofile[q] /\ Uses(q)' = Uses(q)
  BY DEF CacheStep, Only, Uses
<1>2. \A s \in Uses(q) \ {Nil} : /\ s \in Slots /\ icache[s].ref > 0 /\ icache'[s].ref > 0 /\ Ino(s)' = Ino(s)
                                 /\ Node(s)'.type = Node(s).type /\ Node(s).type # "free"
                                 /\ lock[s] = q \/ Alone(q, s) => Node(s)' = Node(s)
  BY OtherNode
<1>3. \A s \in Held(t) : s \in Uses(q) \ {Nil} /\ lock[s] = q /\ icache[s].valid /\ Node(s)' = Node(s)
  BY <1>0, <1>2, HeldIs DEF CallOk, HoldOk
<1>4. UseOk(q)'
  BY <1>1, <1>2 DEF UseOk
<1>5. WayOk(t)'
  <2>1. th[q]' = t
    BY <1>1
  <2> QED
    BY <1>0, <1>1 DEF CallOk, WayOk, Where, KeptPath, Last
<1>6. WalkOk(q)'
  BY <1>0, <1>1, <1>2, HeldIs DEF CallOk, WalkOk, DiskStep, InDir, Walking, Where
<1>7. HoldOk(q)'
  <2>1. Held(th[q])' = Held(t)
    BY <1>1 DEF Held, Where
  <2>2. ASSUME NEW s \in Held(t) PROVE lock'[s] = q /\ icache'[s].valid
    <3>1. q # p /\ q # Nobody
      BY InodeAssumption
    <3>2. lock[s] = q /\ s \in Slots /\ icache[s].ref > 0 /\ icache'[s].ref > 0 /\ icache[s].valid
      BY SMTT(60), <1>2, <1>3
    <3> QED
      BY <3>1, <3>2 DEF CacheStep
  <2> QED
    BY <2>1, <2>2 DEF HoldOk
<1>8. FillOk(q)'
  <2> SUFFICES ASSUME Where(t) = "create_fill"
               PROVE  /\ Node(t.w)'.ents[Name(t)] = Nil
                      /\ Node(t.ip)' = [Free EXCEPT !.type = TypeMade(t.op)]
                      /\ Alone(q, t.ip)'
    BY <1>1 DEF FillOk, Where, Name, Node
  <2>1. t.w \in Held(t) /\ t.ip \in Uses(q) \ {Nil}
    BY HeldIs DEF Held
  <2>2. /\ Node(t.w).ents[Name(t)] = Nil
        /\ Node(t.ip) = [Free EXCEPT !.type = TypeMade(t.op)]
        /\ Alone(q, t.ip)
    BY <1>0 DEF CallOk, FillOk
  <2>3. Node(t.ip).nlink = 0
    BY <2>2 DEF Free
  <2>4. \A s : s = t.ip => Alone(q, s)'
    BY <2>1, <2>2, <2>3, OtherAlone
  <2>5. \A s : s = t.ip => Node(s)' = Node(s)
    BY <1>2, <2>1, <2>2
  <2>6. \A s : s = t.w => Node(s)' = Node(s)
    BY <1>3, <2>1
  <2> QED
    BY SMTT(60), <1>1, <2>2, <2>4, <2>5, <2>6 DEF Node, Alone
<1>9. EraseOk(q)'
  <2> SUFFICES ASSUME Where(t) = "unlink_ip"
               PROVE  Name(t) \in Removable /\ Node(t.w)'.ents[Name(t)] = Ino(t.ip)'
    BY <1>1 DEF EraseOk, Where, Name, Node, Ino
  <2>1. t.w \in Held(t) /\ t.ip \in Uses(q) \ {Nil}
    BY HeldIs DEF Held
  <2> QED
    BY ZenonT(60), <1>0, <1>1, <1>2, <1>3, <2>1 DEF CallOk, EraseOk, Node, Ino
<1>10. DropOk(q)'
  <2> SUFFICES ASSUME Dropping(t), Node(t.ip)'.type = "dir" PROVE Node(t.ip)'.nlink = 1
    BY <1>1 DEF DropOk, Dropping, Where, Node
  <2>1. t.ip \in Held(t)
    BY DEF Held, Dropping
  <2> QED
    BY <1>0, <1>1, <1>3, <2>1 DEF CallOk, DropOk, Node, Ino
<1>11. LinkOk(q)'
  <2> SUFFICES ASSUME Linking(t) PROVE Node(t.ip)'.type = "file"
    BY <1>1 DEF LinkOk, Linking, Where, Node
  <2> QED
    BY <1>0, <1>1, <1>2, HeldIs DEF CallOk, LinkOk, Owes, Node, Ino
<1>12. FreeOk(q)'
  <2> SUFFICES ASSUME t.pc = "ifree"
               PROVE  Node(t.put)'.nlink = 0 /\ Alone(q, t.put)' /\ t.put \notin {t.w, t.ip, cwd[q], ofile[q].ip}
    BY <1>1 DEF FreeOk, Node
  <2>1. t.put \in Held(t)
    BY DEF Held
  <2>2. Node(t.put).nlink = 0 /\ Alone(q, t.put) /\ t.put \notin {t.w, t.ip, cwd[q], ofile[q].ip}
    BY <1>0 DEF CallOk, FreeOk
  <2> QED
    BY <1>1, <1>3, <2>1, <2>2, OtherAlone DEF Node, Ino, Alone
<1> QED
  BY <1>1, <1>4, <1>5, <1>6, <1>7, <1>8, <1>9, <1>10, <1>11, <1>12 DEF CallOk

-----------------------------------------------------------------------------
(***************************************************************************)
(* Steps that leave the disk alone.                                        *)
(***************************************************************************)
\* The others owe what they owed.
LEMMA OwingMoves ==
  ASSUME IInv, IInv', CallInv, NEW p \in Procs, CacheStep(p), NEW q \in Procs \ {p}
  PROVE  /\ Owes(th'[q]) <=> Owes(th[q])
         /\ Dropping(th'[q]) <=> Dropping(th[q])
         /\ Owes(th[q]) => icache'[th'[q].ip].inum = Ino(th[q].ip)
<1>1. th'[q] = th[q] /\ Uses(q)' = Uses(q)
  BY DEF CacheStep, Only, Uses
<1>2. ASSUME Owes(th[q]) PROVE icache'[th[q].ip].inum = Ino(th[q].ip)
  <2>1. th[q].ip \in Uses(q) \ {Nil}
    BY <1>2, HeldIs
  <2>2. th[q].ip \in Slots /\ icache[th[q].ip].ref > 0
    BY <2>1, UsesIs
  <2>3. icache'[th[q].ip].ref > 0
    BY <1>1, <2>1, UsesNext
  <2> QED
    BY <2>2, <2>3 DEF CacheStep, Ino
<1> QED
  BY <1>1, <1>2

\* A step in which p owes what it owed.
Quiet(p) ==
  /\ CacheStep(p) /\ disk' = disk
  /\ Owes(th'[p]) <=> Owes(th[p])
  /\ Dropping(th'[p]) <=> Dropping(th[p])
  /\ Owes(th[p]) => th'[p].ip = th[p].ip

\* The inode it owes stays the same.
LEMMA DebtStays ==
  ASSUME IInv, IInv', CallInv, NEW p \in Procs, CacheStep(p), Owes(th'[p]) <=> Owes(th[p]),
         Dropping(th'[p]) <=> Dropping(th[p]), Owes(th[p]) => th'[p].ip = th[p].ip, NEW q \in Procs
  PROVE  /\ Owes(th'[q]) <=> Owes(th[q])
         /\ Dropping(th'[q]) <=> Dropping(th[q])
         /\ Owes(th[q]) => icache'[th'[q].ip].inum = Ino(th[q].ip)
<1>1. CASE q # p
  BY <1>1, OwingMoves
<1>2. CASE q = p
  <2>1. ASSUME Owes(th[p]) PROVE icache'[th'[p].ip].inum = Ino(th[p].ip)
    <3>1. th[p].ip \in Uses(p) \ {Nil} /\ th'[p].ip = th[p].ip
      BY <2>1, HeldIs
    <3>2. th[p].ip \in Slots /\ icache[th[p].ip].ref > 0
      BY <3>1, UsesIs
    <3>3. icache'[th[p].ip].ref > 0
      BY <3>1, <3>2, ReferencedNext
    <3> QED
      BY <3>1, <3>2, <3>3 DEF CacheStep, Ino
  <2> QED
    BY <1>2, <2>1
<1> QED
  BY <1>1, <1>2

\* The tree, the counts and the blocks stay right.
LEMMA QuietInv ==
  ASSUME IInv, IInv', TreeInv, CountInv, BlockInv, CallInv, NEW p \in Procs, Quiet(p)
  PROVE  Live' = Live /\ Kept' = Kept /\ TreeInv' /\ CountInv' /\ BlockInv' /\ DiskStep(p)
<1>1. \A q \in Procs : /\ Owes(th'[q]) <=> Owes(th[q])
                       /\ Dropping(th'[q]) <=> Dropping(th[q])
                       /\ Owes(th[q]) => icache'[th'[q].ip].inum = Ino(th[q].ip)
  BY DebtStays DEF Quiet
<1>2. disk' = disk
  BY DEF Quiet
<1>3. Live' = Live
  BY <1>1, <1>2 DEF Live, Ino, Owes
<1>4. ASSUME NEW i PROVE Owing(i)' = Owing(i)
  BY <1>1 DEF Owing, Ino
<1>5. Kept' = Kept
  BY <1>2, <1>3 DEF Kept
<1>6. TreeInv' /\ BlockInv'
  BY <1>2, <1>3 DEF TreeInv, BlockInv
<1>7. CountInv'
  BY <1>2, <1>3, <1>4 DEF CountInv
<1>8. DiskStep(p)
  BY <1>2, <1>5 DEF DiskStep
<1> QED
  BY <1>3, <1>5, <1>6, <1>7, <1>8

\* p takes only what has a name.
NamedUses(p) ==
  \A s \in Uses(p)' \ {Nil} : s \in Uses(p) \/ disk.inode[icache'[s].inum].nlink >= 1

\* What a step must still do for its own call.
Own(p) == WayOk(th[p]) /\ WalkOk(p) /\ HoldOk(p) /\ FillOk(p) /\ EraseOk(p) /\ FreeOk(p)

\* A step that leaves the disk alone and does its own part keeps all of it.
LEMMA QuietStep ==
  ASSUME IInv, IInv', FsInv, NEW p \in Procs, Quiet(p), NamedUses(p), panicked' = panicked, Own(p)'
  PROVE  FsInv'
<1>1. TreeInv /\ CountInv /\ BlockInv /\ CallInv
  BY DEF FsInv
<1>2. Live' = Live /\ Kept' = Kept /\ TreeInv' /\ CountInv' /\ BlockInv' /\ DiskStep(p)
  BY <1>1, QuietInv
<1>3. NewUses(p) /\ CacheStep(p) /\ disk' = disk
  BY DEF NamedUses, NewUses, Quiet
<1>4. \A q \in Procs \ {p} : CallOk(q)'
  BY <1>1, <1>2, <1>3, OthersOk
<1>5. UseOk(p)'
  <2> SUFFICES ASSUME NEW s \in Uses(p)' \ {Nil} PROVE disk.inode[icache'[s].inum].type # "free"
    BY <1>3 DEF UseOk, Node
  <2>1. s \in Slots /\ icache'[s].ref > 0 /\ icache'[s].inum \in Inums
    BY UsesNext
  <2>2. CASE s \in Uses(p)
    <3>1. s \in Slots /\ icache[s].ref > 0 /\ Node(s).type # "free"
      BY <1>1, <2>2, UsesIs DEF CallInv, CallOk, UseOk
    <3> QED
      BY <1>3, <2>1, <3>1 DEF CacheStep, Node
  <2>3. CASE disk.inode[icache'[s].inum].nlink >= 1
    BY <1>1, <2>1, <2>3 DEF TreeInv, IsTree, Free
  <2> QED
    BY <2>2, <2>3 DEF NamedUses
<1>6. DropOk(p)' /\ LinkOk(p)'
  <2>1. /\ Owes(th'[p]) <=> Owes(th[p])
        /\ Dropping(th'[p]) <=> Dropping(th[p])
        /\ Owes(th[p]) => icache'[th'[p].ip].inum = Ino(th[p].ip)
    BY <1>1, DebtStays DEF Quiet
  <2>2. Linking(th'[p]) => Linking(th[p])
    <3>1. Linking(th'[p]) => ~Dropping(th'[p])
      BY DEF Linking, Dropping, Looking, Parents, Leaves
    <3> QED
      BY <2>1, <3>1 DEF Owes
  <2>3. DropOk(p) /\ LinkOk(p)
    BY <1>1 DEF CallInv, CallOk
  <2> QED
    BY <1>3, <2>1, <2>2, <2>3 DEF DropOk, LinkOk, Node, Ino, Owes
<1>7. CallOk(p)'
  BY <1>5, <1>6 DEF CallOk, Own
<1>8. CallInv'
  BY <1>4, <1>7 DEF CallInv
<1> QED
  BY <1>2, <1>8 DEF FsInv, NoPanic

\* Where a call has no directory and no lock.
Rest == {"idle", "end", "open", "link", "create_lock", "link_done", "link_bad", "write"}

\* There a call relies on its current directory only.
LEMMA RestOwn ==
  ASSUME NEW p \in Procs, Where(th'[p]) \in Rest, th'[p].pc # "ifree", th'[p].op = "link" => KeptPath(th'[p].new),
         icache'[cwd'[p]].inum \in Kept'
  PROVE  Own(p)'
<1>1. WayOk(th[p])'
  BY DEF WayOk, Rest, Parents, Where, KeptPath
<1>2. WalkOk(p)'
  BY DEF WalkOk, Rest, Parents, Where, InDir, Walking, Ino
<1>3. HoldOk(p)'
  BY DEF HoldOk, Held, Where, Rest
<1>4. FillOk(p)' /\ EraseOk(p)' /\ FreeOk(p)'
  BY DEF FillOk, EraseOk, FreeOk, Where, Rest
<1> QED
  BY <1>1, <1>2, <1>3, <1>4 DEF Own

\* A process stays in its directory.
LEMMA CwdStays ==
  ASSUME IInv, IInv', CallInv, NEW p \in Procs, CacheStep(p), cwd'[p] = cwd[p]
  PROVE  icache'[cwd'[p]].inum = Ino(cwd[p]) /\ Ino(cwd[p]) \in Kept
<1>1. cwd[p] \in Uses(p) \ {Nil}
  BY HeldIs
<1>2. cwd[p] \in Slots /\ icache[cwd[p]].ref > 0
  BY <1>1, UsesIs
<1>3. icache'[cwd[p]].ref > 0
  BY <1>2, ReferencedNext
<1> QED
  BY <1>2, <1>3 DEF CacheStep, Ino, CallInv, CallOk, WalkOk

\* A call puts what it has and goes on without a directory.
LEMMA PutRest ==
  ASSUME IInv, IInv', FsInv, NEW p \in Procs, CacheStep(p), disk' = disk, panicked' = panicked,
         cwd'[p] = cwd[p], ofile'[p] = ofile[p], NEW x \in {th[p].w, th[p].ip, Nil}, NEW y \in {th[p].w, th[p].ip, Nil},
         NEW s \in {th[p].w, th[p].ip} \ {Nil}, NEW l \in {"end", "link_bad"}, NEW q,
         Moves(th'[p], th[p], "iput", q, x, y, s, l),
         l = "link_bad" <=> Linking(th[p]), ~Dropping(th[p]), l = "link_bad" => y = th[p].ip
  PROVE  FsInv'
<1>1. CallInv /\ TreeInv /\ CountInv /\ BlockInv /\ CallOk(p)
  BY DEF FsInv, CallInv
<1>2. /\ th'[p].put = s /\ th'[p].ret = l /\ th'[p].pc = "iput" /\ th'[p].w = x /\ th'[p].ip = y
      /\ th'[p].op = th[p].op /\ th'[p].new = th[p].new
  BY DEF Moves
<1>3. Where(th'[p]) = l
  BY <1>2 DEF Where
<1>4. Quiet(p)
  <2>1. Owes(th'[p]) <=> l = "link_bad"
    BY <1>3 DEF Owes, Dropping, Linking, Looking, Parents, Leaves
  <2>2. ~Dropping(th'[p])
    BY <1>3 DEF Dropping
  <2> QED
    BY <1>2, <2>1, <2>2 DEF Quiet, Owes
<1>5. NamedUses(p)
  BY <1>2 DEF NamedUses, Uses
<1>6. Own(p)'
  <2>1. icache'[cwd'[p]].inum \in Kept'
    BY <1>1, <1>4, CwdStays, QuietInv
  <2>2. th'[p].op = "link" => KeptPath(th'[p].new)
    BY <1>1, <1>2 DEF CallOk, WayOk
  <2> QED
    BY <1>2, <1>3, <2>1, <2>2, RestOwn DEF Rest
<1> QED
  BY <1>4, <1>5, <1>6, QuietStep

\* A call ends.
LEMMA IdleRest ==
  ASSUME IInv, IInv', FsInv, NEW p \in Procs, CacheStep(p), disk' = disk, panicked' = panicked,
         cwd'[p] = cwd[p], ofile'[p].ip \in Uses(p), th'[p] = Idle, ~Owes(th[p])
  PROVE  FsInv'
<1>1. CallInv /\ TreeInv /\ CountInv /\ BlockInv /\ CallOk(p)
  BY DEF FsInv, CallInv
<1>2. th'[p].pc = "idle" /\ th'[p].op = "none" /\ th'[p].w = Nil /\ th'[p].ip = Nil /\ Where(th'[p]) = "idle"
  BY DEF Idle, Where
<1>3. Quiet(p)
  BY <1>2 DEF Quiet, Owes, Dropping, Linking, Looking, Parents, Leaves
<1>4. NamedUses(p)
  BY <1>2 DEF NamedUses, Uses
<1>5. icache'[cwd'[p]].inum \in Kept'
  BY <1>1, <1>3, CwdStays, QuietInv
<1>6. Own(p)'
  BY <1>2, <1>5, RestOwn DEF Rest
<1> QED
  BY <1>3, <1>4, <1>6, QuietStep

-----------------------------------------------------------------------------
(***************************************************************************)
(* What steps do to the cache and to the locks.                            *)
(***************************************************************************)
\* p takes or gives back at most the lock of entry s.
LockStep(p) == \/ lock' = lock
               \/ \E s \in Slots : \E x : lock[s] \in {p, Nobody} /\ lock' = [lock EXCEPT ![s] = x]

\* p has left the cache alone.
LEMMA StillCache ==
  ASSUME IInv, NEW p \in Procs, Only(p), LockStep(p), icache' = icache
  PROVE  CacheStep(p)
<1>1. \A s \in Slots : lock[s] \notin {p, Nobody} => lock'[s] = lock[s]
  BY TypesAre DEF LockStep
<1> QED
  BY <1>1 DEF CacheStep

\* p has looked at an inode.
LEMMA LoadCache ==
  ASSUME IInv, NEW p \in Procs, Only(p), LockStep(p), NEW s \in Slots, icache[s].ref > 0, Lockable(s),
         icache' = [icache EXCEPT ![s] = Loaded(s)]
  PROVE  CacheStep(p) /\ icache'[s].valid /\ \A r \in Slots : icache'[r].inum = icache[r].inum
<1>1. \A r \in Slots : lock[r] \notin {p, Nobody} => lock'[r] = lock[r]
  BY TypesAre DEF LockStep
<1>2. Loaded(s).inum = icache[s].inum /\ Loaded(s).valid
  BY LoadedIs DEF Follows
<1>3. icache'[s] = Loaded(s) /\ \A r \in Slots \ {s} : icache'[r] = icache[r]
  BY TypesAre
<1>4. \A r \in Slots : icache'[r].inum = icache[r].inum /\ (icache[r].valid => icache'[r].valid)
  BY <1>2, <1>3
<1> QED
  BY <1>1, <1>2, <1>3, <1>4 DEF CacheStep

\* p has looked at a directory and takes a reference.
LEMMA LoadGetCache ==
  ASSUME IInv, NEW p \in Procs, Only(p), LockStep(p), NEW w \in Slots, icache[w].ref > 0, Lockable(w),
         NEW i \in Inums, ~Full(i),
         icache' = [iget(i) EXCEPT ![w] = [Loaded(w) EXCEPT !.ref = iget(i)[w].ref]]
  PROVE  /\ CacheStep(p) /\ icache'[w].valid /\ icache'[w].inum = icache[w].inum
         /\ SlotOf(i) \in Slots /\ icache'[SlotOf(i)].inum = i
<1> DEFINE z == SlotOf(i)
           g == iget(i)
           l == Loaded(w)
           f == [l EXCEPT !.ref = g[w].ref]
<1>1. \A r \in Slots : lock[r] \notin {p, Nobody} => lock'[r] = lock[r]
  BY TypesAre DEF LockStep
<1>2. /\ z \in Slots /\ g \in [Slots -> EntryType] /\ g[z].inum = i
      /\ IF icache[z].ref > 0 THEN icache[z].inum = i /\ g[z].valid = icache[z].valid ELSE Cached(i) = {}
      /\ \A s \in Slots \ {z} : g[s] = icache[s]
  BY GetIs
<1>3. l \in EntryType /\ l.inum = icache[w].inum /\ l.valid
  BY LoadedIs DEF Follows
<1>4. icache' = [g EXCEPT ![w] = f]
  OBVIOUS
<1> HIDE DEF z, g, l
<1>5. f.inum = l.inum /\ f.valid = l.valid
  BY <1>3 DEF EntryType
<1> HIDE DEF f
<1>6. icache'[w] = f /\ \A r \in Slots \ {w} : icache'[r] = g[r]
  BY <1>2, <1>4
<1>7. \A r \in Slots : icache[r].ref > 0 => icache'[r].inum = icache[r].inum /\ (icache[r].valid => icache'[r].valid)
  BY ZenonT(60), <1>2, <1>3, <1>5, <1>6
<1>8. icache'[z].inum = i
  BY <1>2, <1>3, <1>5, <1>6
<1> QED
  BY <1>1, <1>2, <1>3, <1>5, <1>6, <1>7, <1>8 DEF CacheStep, z

-----------------------------------------------------------------------------
(***************************************************************************)
(* Where a call goes, and what it owes there.                              *)
(***************************************************************************)
\* p goes to iput with entry s.
LEMMA PutGoes ==
  ASSUME IInv, NEW p \in Procs, NEW t1 \in ThreadType, NEW s \in Slots \cup {Nil}, NEW l \in PCs,
         th' = [th EXCEPT ![p] = Put(t1, s, l)], UNCHANGED <<cwd, ofile>>
  PROVE  Only(p) /\ Moves(th'[p], t1, "iput", t1.path, t1.w, t1.ip, s, l) /\ cwd'[p] = cwd[p] /\ ofile'[p] = ofile[p]
<1> DEFINE u == Put(t1, s, l)
<1>1. Moves(u, t1, "iput", t1.path, t1.w, t1.ip, s, l)
  BY PutIs
<1>2. th' = [th EXCEPT ![p] = u] /\ u \in ThreadType /\ TypeOK
  BY <1>1 DEF Moves, IInv
<1> HIDE DEF u
<1>3. Only(p) /\ th'[p] = u /\ cwd'[p] = cwd[p] /\ ofile'[p] = ofile[p]
  BY <1>2, ThreadSet
<1> QED
  BY <1>1, <1>3

\* The directory is put.
LEMMA PutWGoes ==
  ASSUME IInv, NEW p \in Procs, NEW l \in PCs, th' = [th EXCEPT ![p] = Put([th[p] EXCEPT !.w = Nil], th[p].w, l)],
         UNCHANGED <<cwd, ofile>>
  PROVE  /\ Only(p) /\ Moves(th'[p], th[p], "iput", th[p].path, Nil, th[p].ip, th[p].w, l)
         /\ cwd'[p] = cwd[p] /\ ofile'[p] = ofile[p]
<1> DEFINE t1 == [th[p] EXCEPT !.w = Nil]
<1>1. Moves(t1, th[p], th[p].pc, th[p].path, Nil, th[p].ip, th[p].put, th[p].ret) /\ th[p].w \in Slots \cup {Nil}
  BY ThreadIs, SetW
<1>2. th' = [th EXCEPT ![p] = Put(t1, th[p].w, l)]
  OBVIOUS
<1>3. t1 \in ThreadType
  BY <1>1 DEF Moves
<1> HIDE DEF t1
<1>4. Only(p) /\ Moves(th'[p], t1, "iput", t1.path, t1.w, t1.ip, th[p].w, l) /\ cwd'[p] = cwd[p] /\ ofile'[p] = ofile[p]
  BY <1>1, <1>2, <1>3, PutGoes
<1> QED
  BY <1>1, <1>4 DEF Moves

\* The inode is put.
LEMMA PutIpGoes ==
  ASSUME IInv, NEW p \in Procs, NEW l \in PCs, th' = [th EXCEPT ![p] = Put([th[p] EXCEPT !.ip = Nil], th[p].ip, l)],
         UNCHANGED <<cwd, ofile>>
  PROVE  /\ Only(p) /\ Moves(th'[p], th[p], "iput", th[p].path, th[p].w, Nil, th[p].ip, l)
         /\ cwd'[p] = cwd[p] /\ ofile'[p] = ofile[p]
<1> DEFINE t1 == [th[p] EXCEPT !.ip = Nil]
<1>1. Moves(t1, th[p], th[p].pc, th[p].path, th[p].w, Nil, th[p].put, th[p].ret) /\ th[p].ip \in Slots \cup {Nil}
  BY ThreadIs, SetIp
<1>2. th' = [th EXCEPT ![p] = Put(t1, th[p].ip, l)]
  OBVIOUS
<1>3. t1 \in ThreadType
  BY <1>1 DEF Moves
<1> HIDE DEF t1
<1>4. Only(p) /\ Moves(th'[p], t1, "iput", t1.path, t1.w, t1.ip, th[p].ip, l) /\ cwd'[p] = cwd[p] /\ ofile'[p] = ofile[p]
  BY <1>1, <1>2, <1>3, PutGoes
<1> QED
  BY <1>1, <1>4 DEF Moves

\* What a call owes where it is.
LEMMA DebtIs ==
  ASSUME IInv, NEW p \in Procs
  PROVE  /\ th[p].pc \notin Putting => Where(th[p]) = th[p].pc
         /\ th[p].pc \in {"idle", "open", "link", "chdir", "create", "unlink", "create_lock", "create_fill", "opened",
                          "unlink_ip", "link_done", "write"} => ~Owes(th[p])
         /\ th[p].pc \in {"start", "namex", "dirlink", "unlock_w"} => ~Dropping(th[p])
         /\ th[p].pc \in {"start", "namex"} => (Linking(th[p]) <=> th[p].ok = "dirlink")
         /\ th[p].pc = "namex" => th[p].no = IF Linking(th[p]) THEN "link_bad" ELSE "end"
         /\ th[p].pc = "unlock_w" => (Linking(th[p]) <=> th[p].op = "link")
         /\ th[p].pc \in {"dirlink", "link_bad"} => Linking(th[p]) /\ ~Dropping(th[p])
         /\ th[p].pc = "unlink_drop" => Dropping(th[p]) /\ ~Linking(th[p])
<1>1. RefsOk(th[p]) /\ LookOk(th[p])
  BY ThreadIs DEF LocalOk
<1>2. th[p].pc \notin Putting => Where(th[p]) = th[p].pc
  BY <1>1 DEF RefsOk, Where
<1> QED
  BY <1>1, <1>2, SMTT(60) DEF LookOk, Owes, Dropping, Linking, Looking, Parents, Leaves, Putting

-----------------------------------------------------------------------------
(***************************************************************************)
(* The steps that leave the disk alone, one by one.                        *)
(***************************************************************************)
\* A lookup that fails puts the directory it has reached.
LEMMA NamexFailFs == ASSUME IInv, IInv', FsInv, NEW p \in Procs, namex_fail(p) PROVE FsInv'
<1> DEFINE t == th[p]
<1>1. /\ t.pc = "namex" /\ Lockable(t.w) /\ icache' = [icache EXCEPT ![t.w] = Loaded(t.w)]
      /\ th' = [th EXCEPT ![p] = Put([t EXCEPT !.w = Nil], t.w, t.no)]
      /\ disk' = disk /\ lock' = lock /\ cwd' = cwd /\ ofile' = ofile /\ panicked' = panicked
  BY DEF namex_fail, At
<1>2. t.w \in Slots /\ icache[t.w].ref > 0 /\ t.w # Nil /\ t.no \in PCs
  BY <1>1, HasW, NilSlot, ThreadIs DEF WithW
<1>3. t.no = (IF Linking(t) THEN "link_bad" ELSE "end") /\ ~Dropping(t)
  BY <1>1, DebtIs
<1>4. Only(p) /\ Moves(th'[p], t, "iput", t.path, Nil, t.ip, t.w, t.no) /\ cwd'[p] = cwd[p] /\ ofile'[p] = ofile[p]
  BY <1>1, <1>2, PutWGoes
<1>5. CacheStep(p)
  BY <1>1, <1>2, <1>4, LoadCache DEF LockStep
<1> HIDE DEF t
<1> QED
  BY <1>1, <1>2, <1>3, <1>4, <1>5, PutRest DEF t

\* unlink of "." or "..", or of a name that is not there.
LEMMA UnlinkFailFs == ASSUME IInv, IInv', FsInv, NEW p \in Procs, unlink_fail(p) PROVE FsInv'
<1> DEFINE t == th[p]
<1>1. /\ t.pc = "unlink" /\ Lockable(t.w) /\ icache' = [icache EXCEPT ![t.w] = Loaded(t.w)]
      /\ th' = [th EXCEPT ![p] = Put([t EXCEPT !.w = Nil], t.w, "end")]
      /\ disk' = disk /\ lock' = lock /\ cwd' = cwd /\ ofile' = ofile /\ panicked' = panicked
  BY DEF unlink_fail, At
<1>2. t.w \in Slots /\ icache[t.w].ref > 0 /\ t.w # Nil
  BY <1>1, HasW, NilSlot DEF WithW, Parents
<1>3. ~Owes(t)
  BY <1>1, DebtIs
<1>4. Only(p) /\ Moves(th'[p], t, "iput", t.path, Nil, t.ip, t.w, "end") /\ cwd'[p] = cwd[p] /\ ofile'[p] = ofile[p]
  BY <1>1, <1>2, PutWGoes, Labels
<1>5. CacheStep(p)
  BY <1>1, <1>2, <1>4, LoadCache DEF LockStep
<1> QED
  BY <1>1, <1>2, <1>3, <1>4, <1>5, PutRest DEF Owes

\* An open that fails, or succeeds.
LEMMA OpenedRest ==
  ASSUME IInv, IInv', FsInv, NEW p \in Procs, NEW s \in Slots, th[p].put = Nil,
         (th[p].w = s /\ th[p].ip = Nil) \/ (th[p].w = Nil /\ th[p].ip = s),
         Opened(p, th[p], s), cwd' = cwd, ~Owes(th[p]), disk' = disk, panicked' = panicked,
         Only(p) => CacheStep(p)
  PROVE  FsInv'
<1> DEFINE t == th[p]
<1>1. CacheStep(p)
  BY OpenedStep DEF Keeps
<1>2. CASE t.op # "mkdir" /\ ofile[p] = NoFile
  <2>1. ofile' = [ofile EXCEPT ![p] = [ip |-> s, writable |-> t.wr]] /\ th' = [th EXCEPT ![p] = Idle]
    BY <1>2 DEF Opened
  <2>2. th'[p] = Idle /\ ofile'[p].ip = s /\ cwd'[p] = cwd[p]
    BY <2>1 DEF IInv, TypeOK
  <2>3. ofile'[p].ip \in Uses(p)
    BY <2>2 DEF Uses
  <2> QED
    BY <1>1, <2>2, <2>3, IdleRest
<1>3. CASE ~(t.op # "mkdir" /\ ofile[p] = NoFile)
  <2> DEFINE t1 == [t EXCEPT !.w = Nil, !.ip = Nil]
  <2>1. th' = [th EXCEPT ![p] = Put(t1, s, "end")] /\ UNCHANGED ofile
    BY <1>3 DEF Opened
  <2>2. Moves(t1, t, t.pc, t.path, Nil, Nil, t.put, t.ret)
    BY ThreadIs, SetWIp
  <2>3. t1 \in ThreadType /\ "end" \in PCs
    BY <2>2, Labels DEF Moves
  <2> HIDE DEF t1
  <2>4. Moves(th'[p], t1, "iput", t1.path, t1.w, t1.ip, s, "end") /\ cwd'[p] = cwd[p] /\ ofile'[p] = ofile[p]
    BY <2>1, <2>3, PutGoes
  <2>5. Moves(th'[p], t, "iput", t.path, Nil, Nil, s, "end")
    BY <2>2, <2>4 DEF Moves
  <2>6. s \in {t.w, t.ip} \ {Nil}
    BY NilSlot
  <2> HIDE DEF t
  <2> QED
    BY <1>1, <2>4, <2>5, <2>6, PutRest DEF Owes, t
<1> QED
  BY <1>2, <1>3

\* The file that create has found.
LEMMA CreateLockFs == ASSUME IInv, IInv', FsInv, NEW p \in Procs, create_lock(p) PROVE FsInv'
<1> DEFINE t == th[p]
<1>1. /\ t.pc = "create_lock" /\ Lockable(t.ip) /\ icache' = [icache EXCEPT ![t.ip] = Loaded(t.ip)]
      /\ disk' = disk /\ lock' = lock /\ cwd' = cwd /\ panicked' = panicked
  BY DEF create_lock, At
<1>2. t.ip \in Slots /\ icache[t.ip].ref > 0 /\ t.ip # Nil /\ t.put = Nil /\ t.w = Nil
  BY <1>1, HasIp, HasNot, NilSlot DEF WithIp
<1>3. ~Owes(t)
  BY <1>1, DebtIs
<1>4. Only(p) => CacheStep(p)
  BY <1>1, <1>2, LoadCache DEF LockStep
<1>5. CASE t.op = "create" /\ Loaded(t.ip).type = "file"
  <2>1. Opened(p, t, t.ip)
    BY <1>5 DEF create_lock
  <2> QED
    BY <1>1, <1>2, <1>3, <1>4, <2>1, OpenedRest
<1>6. CASE ~(t.op = "create" /\ Loaded(t.ip).type = "file")
  <2>1. th' = [th EXCEPT ![p] = Put([t EXCEPT !.ip = Nil], t.ip, "end")] /\ ofile' = ofile
    BY <1>6 DEF create_lock
  <2>2. /\ Only(p) /\ Moves(th'[p], t, "iput", t.path, t.w, Nil, t.ip, "end")
        /\ cwd'[p] = cwd[p] /\ ofile'[p] = ofile[p]
    BY <1>1, <2>1, PutIpGoes, Labels
  <2> HIDE DEF t
  <2> QED
    BY <1>1, <1>2, <1>3, <1>4, <2>2, PutRest DEF Owes, t
<1> QED
  BY <1>5, <1>6

\* open of a name.
LEMMA OpenFs == ASSUME IInv, IInv', FsInv, NEW p \in Procs, sys_open(p) PROVE FsInv'
<1> DEFINE t == th[p]
<1>1. /\ t.pc = "open" /\ Lockable(t.w) /\ icache' = [icache EXCEPT ![t.w] = Loaded(t.w)]
      /\ disk' = disk /\ lock' = lock /\ cwd' = cwd /\ panicked' = panicked
  BY DEF sys_open, At
<1>2. t.w \in Slots /\ icache[t.w].ref > 0 /\ t.w # Nil /\ t.put = Nil /\ t.ip = Nil
  BY <1>1, HasW, HasNot, NilSlot DEF WithW, Leaves
<1>3. ~Owes(t)
  BY <1>1, DebtIs
<1>4. Only(p) => CacheStep(p)
  BY <1>1, <1>2, LoadCache DEF LockStep
<1>5. CASE ~(Loaded(t.w).type = "dir" /\ t.wr)
  <2>1. Opened(p, t, t.w)
    BY <1>5 DEF sys_open
  <2> QED
    BY <1>1, <1>2, <1>3, <1>4, <2>1, OpenedRest
<1>6. CASE Loaded(t.w).type = "dir" /\ t.wr
  <2>1. th' = [th EXCEPT ![p] = Put([t EXCEPT !.w = Nil], t.w, "end")] /\ ofile' = ofile
    BY <1>6 DEF sys_open
  <2>2. /\ Only(p) /\ Moves(th'[p], t, "iput", t.path, Nil, t.ip, t.w, "end")
        /\ cwd'[p] = cwd[p] /\ ofile'[p] = ofile[p]
    BY <1>1, <2>1, PutWGoes, Labels
  <2> HIDE DEF t
  <2> QED
    BY <1>1, <1>2, <1>3, <1>4, <2>2, PutRest DEF Owes, t
<1> QED
  BY <1>5, <1>6

\* The file that create has made.
LEMMA OpenedFs == ASSUME IInv, IInv', FsInv, NEW p \in Procs, opened(p) PROVE FsInv'
<1> DEFINE t == th[p]
<1>1. /\ t.pc = "opened" /\ lock' = [lock EXCEPT ![t.ip] = Nobody] /\ Opened(p, t, t.ip)
      /\ disk' = disk /\ icache' = icache /\ cwd' = cwd /\ panicked' = panicked
  BY DEF opened, At
<1>2. t.ip \in Slots /\ t.ip # Nil /\ t.put = Nil /\ t.w = Nil
  BY <1>1, HasIp, HasNot, NilSlot DEF WithIp
<1>3. ~Owes(t) /\ Where(t) = "opened"
  BY <1>1, DebtIs DEF Putting
<1>4. lock[t.ip] = p
  BY <1>3 DEF FsInv, CallInv, CallOk, HoldOk, Held
<1>5. LockStep(p)
  BY <1>1, <1>2, <1>4 DEF LockStep
<1>6. Only(p) => CacheStep(p)
  BY <1>1, <1>5, StillCache
<1> QED
  BY <1>1, <1>2, <1>3, <1>6, OpenedRest

\* The failure paths of unlink and link.
LEMMA UnlockFs == ASSUME IInv, IInv', FsInv, NEW p \in Procs, unlock_w(p) PROVE FsInv'
<1> DEFINE t == th[p]
           l == IF t.op = "link" THEN "link_bad" ELSE "end"
<1>1. /\ t.pc = "unlock_w" /\ lock' = [lock EXCEPT ![t.w] = Nobody]
      /\ th' = [th EXCEPT ![p] = Put([t EXCEPT !.w = Nil], t.w, l)]
      /\ disk' = disk /\ icache' = icache /\ cwd' = cwd /\ ofile' = ofile /\ panicked' = panicked
  BY DEF unlock_w, At
<1>2. t.w \in Slots /\ t.w # Nil
  BY <1>1, HasW, NilSlot DEF WithW
<1>3. (Linking(t) <=> t.op = "link") /\ ~Dropping(t) /\ Where(t) = "unlock_w"
  BY <1>1, DebtIs DEF Putting
<1>4. lock[t.w] = p
  BY <1>3 DEF FsInv, CallInv, CallOk, HoldOk, Held
<1>5. LockStep(p)
  BY <1>1, <1>2, <1>4 DEF LockStep
<1>6. l \in {"end", "link_bad"} /\ l \in PCs /\ (l = "link_bad" <=> Linking(t))
  BY <1>3 DEF PCs
<1> HIDE DEF l
<1>7. Only(p) /\ Moves(th'[p], t, "iput", t.path, Nil, t.ip, t.w, l) /\ cwd'[p] = cwd[p] /\ ofile'[p] = ofile[p]
  BY <1>1, <1>6, PutWGoes
<1>8. CacheStep(p)
  BY <1>1, <1>5, <1>7, StillCache
<1> HIDE DEF t
<1> QED
  BY <1>1, <1>2, <1>3, <1>6, <1>7, <1>8, PutRest DEF t

\* The last step of link.
LEMMA LinkDoneFs == ASSUME IInv, IInv', FsInv, NEW p \in Procs, link_done(p) PROVE FsInv'
<1> DEFINE t == th[p]
<1>1. /\ t.pc = "link_done" /\ th' = [th EXCEPT ![p] = Put([t EXCEPT !.ip = Nil], t.ip, "end")]
      /\ disk' = disk /\ icache' = icache /\ lock' = lock /\ cwd' = cwd /\ ofile' = ofile /\ panicked' = panicked
  BY DEF link_done, At
<1>2. t.ip \in Slots /\ t.ip # Nil
  BY <1>1, HasIp, NilSlot DEF WithIp
<1>3. ~Owes(t)
  BY <1>1, DebtIs
<1>4. Only(p) /\ Moves(th'[p], t, "iput", t.path, t.w, Nil, t.ip, "end") /\ cwd'[p] = cwd[p] /\ ofile'[p] = ofile[p]
  BY <1>1, PutIpGoes, Labels
<1>5. CacheStep(p)
  BY <1>1, <1>4, StillCache DEF LockStep
<1> HIDE DEF t
<1> QED
  BY <1>1, <1>2, <1>3, <1>4, <1>5, PutRest DEF Owes, t

\* chdir: the new directory is one that stays.
LEMMA ChdirFs == ASSUME IInv, IInv', FsInv, NEW p \in Procs, sys_chdir(p) PROVE FsInv'
<1> DEFINE t == th[p]
<1>1. /\ t.pc = "chdir" /\ Lockable(t.w) /\ icache' = [icache EXCEPT ![t.w] = Loaded(t.w)]
      /\ disk' = disk /\ lock' = lock /\ ofile' = ofile /\ panicked' = panicked
  BY DEF sys_chdir, At
<1>2. t.w \in Slots /\ icache[t.w].ref > 0 /\ t.w # Nil /\ t.put = Nil /\ t.ip = Nil
  BY <1>1, HasW, HasNot, NilSlot DEF WithW, Leaves
<1>3. ~Owes(t) /\ Where(t) = "chdir"
  BY <1>1, DebtIs DEF Putting
<1>4. Only(p) => CacheStep(p) /\ \A r \in Slots : icache'[r].inum = icache[r].inum
  BY <1>1, <1>2, LoadCache DEF LockStep
<1>5. CASE Loaded(t.w).type # "dir"
  <2>1. th' = [th EXCEPT ![p] = Put([t EXCEPT !.w = Nil], t.w, "end")] /\ cwd' = cwd
    BY <1>5 DEF sys_chdir
  <2>2. /\ Only(p) /\ Moves(th'[p], t, "iput", t.path, Nil, t.ip, t.w, "end")
        /\ cwd'[p] = cwd[p] /\ ofile'[p] = ofile[p]
    BY <1>1, <2>1, PutWGoes, Labels
  <2> HIDE DEF t
  <2> QED
    BY <1>1, <1>2, <1>3, <1>4, <2>2, PutRest DEF Owes, t
<1>6. CASE Loaded(t.w).type = "dir"
  <2> DEFINE t1 == [t EXCEPT !.w = Nil]
             u == Put(t1, cwd[p], "end")
  <2>1. th' = [th EXCEPT ![p] = u] /\ cwd' = [cwd EXCEPT ![p] = t.w]
    BY <1>6 DEF sys_chdir
  <2>2. Only(p)
    BY <1>1, <2>1, ChdirStep DEF Keeps
  <2>3. Moves(t1, t, t.pc, t.path, Nil, t.ip, t.put, t.ret) /\ cwd[p] \in Slots
    BY ThreadIs, SetW
  <2>4. Moves(u, t1, "iput", t1.path, t1.w, t1.ip, cwd[p], "end")
    <3>1. t1 \in ThreadType
      BY <2>3 DEF Moves
    <3> HIDE DEF t1
    <3> QED
      BY <2>3, <3>1, PutIs, Labels
  <2> HIDE DEF u, t1
  <2>5. /\ u.pc = "iput" /\ u.w = Nil /\ u.ip = Nil /\ u.put = cwd[p] /\ u.ret = "end" /\ u.op = t.op /\ u.new = t.new
    BY <1>2, <2>3, <2>4 DEF Moves
  <2>6. th'[p] = u /\ cwd'[p] = t.w /\ ofile'[p] = ofile[p]
    BY <1>1, <2>1 DEF IInv, TypeOK
  <2>7. Where(th'[p]) = "end"
    BY <2>3, <2>5, <2>6, NilSlot DEF Where
  <2>8. CacheStep(p) /\ icache'[t.w].inum = Ino(t.w)
    BY <1>2, <1>4, <2>2 DEF Ino
  <2>9. Quiet(p)
    BY <1>1, <1>3, <2>7, <2>8 DEF Quiet, Owes, Dropping, Linking, Looking, Parents, Leaves
  <2>10. NamedUses(p)
    BY <2>5, <2>6 DEF NamedUses, Uses
  <2>11. Ino(t.w) \in Kept
    <3>1. Node(t.w).type = "dir"
      BY <1>1, <1>2, <1>6, LoadedIs DEF Known, SameAttr, Node
    <3>2. t.ok = "chdir"
      BY <1>3, ThreadIs DEF LocalOk, LookOk, Leaves
    <3>3. Walking(t)
      BY <1>3, <3>2 DEF Walking
    <3> QED
      BY <3>1, <3>3 DEF FsInv, CallInv, CallOk, WalkOk
  <2>12. Kept' = Kept
    BY <2>9, QuietInv DEF FsInv
  <2>13. th'[p].op = "link" => KeptPath(th'[p].new)
    BY <2>5, <2>6 DEF FsInv, CallInv, CallOk, WayOk
  <2>14. Own(p)'
    BY <2>5, <2>6, <2>7, <2>8, <2>11, <2>12, <2>13, RestOwn DEF Rest
  <2> QED
    BY <1>1, <2>9, <2>10, <2>14, QuietStep
<1> QED
  BY <1>5, <1>6

\* namex has come to the end of its path.
LEMMA NamexEndFs == ASSUME IInv, IInv', FsInv, NEW p \in Procs, namex_end(p) PROVE FsInv'
<1> DEFINE t == th[p]
<1>1. /\ t.pc = "namex" /\ t.path = <<>> /\ disk' = disk /\ icache' = icache /\ lock' = lock
      /\ cwd' = cwd /\ ofile' = ofile /\ panicked' = panicked
  BY DEF namex_end, At
<1>2. t.w \in Slots /\ t.w # Nil /\ t.put = Nil /\ t.no \in PCs /\ t \in ThreadType /\ t.ok \in PCs
  BY <1>1, HasW, NilSlot, ThreadIs DEF WithW
<1>3. /\ t.no = (IF Linking(t) THEN "link_bad" ELSE "end") /\ ~Dropping(t) /\ Where(t) = "namex"
      /\ Linking(t) <=> t.ok = "dirlink"
  BY <1>1, DebtIs DEF Putting
<1>4. CASE t.par
  <2>1. th' = [th EXCEPT ![p] = Put([t EXCEPT !.w = Nil], t.w, t.no)]
    BY <1>4 DEF namex_end
  <2>2. Only(p) /\ Moves(th'[p], t, "iput", t.path, Nil, t.ip, t.w, t.no) /\ cwd'[p] = cwd[p] /\ ofile'[p] = ofile[p]
    BY <1>1, <1>2, <2>1, PutWGoes
  <2>3. CacheStep(p)
    BY <1>1, <2>2, StillCache DEF LockStep
  <2> HIDE DEF t
  <2> QED
    BY <1>1, <1>2, <1>3, <2>2, <2>3, PutRest DEF t
<1>5. CASE ~t.par
  <2> DEFINE u == [t EXCEPT !.pc = t.ok]
  <2>1. th' = [th EXCEPT ![p] = u]
    BY <1>5 DEF namex_end
  <2>2. Moves(u, t, t.ok, t.path, t.w, t.ip, t.put, t.ret)
    BY <1>2, SetPc
  <2> HIDE DEF u
  <2>3. Only(p) /\ th'[p] = u /\ cwd'[p] = cwd[p] /\ ofile'[p] = ofile[p]
    BY <1>1, <2>1, <2>2, ThreadSet DEF Moves, IInv
  <2>4. CacheStep(p)
    BY <1>1, <2>3, StillCache DEF LockStep
  <2>5. /\ u.pc = t.ok /\ u.w = t.w /\ u.ip = t.ip /\ u.put = Nil /\ u.op = t.op /\ u.new = t.new /\ u.ok = t.ok
        /\ u.path = t.path /\ u.par = t.par
    BY <1>2, <2>2 DEF Moves
  <2>6. t.ok \in Leaves
    BY <1>3, <1>5, ThreadIs DEF LocalOk, LookOk, Looking
  <2>7. Where(th'[p]) = t.ok
    BY <2>3, <2>5 DEF Where
  <2>8. Quiet(p)
    BY <1>1, <1>3, <2>4, <2>6, <2>7, <2>3, <2>5 DEF Quiet, Owes, Dropping, Linking, Looking, Parents, Leaves
  <2>9. NamedUses(p)
    BY <2>3, <2>5, <2>6 DEF NamedUses, Uses, Leaves
  <2>10. Kept' = Kept /\ icache'[cwd'[p]].inum \in Kept /\ Ino(t.w)' = Ino(t.w)
    <3>1. CallInv
      BY DEF FsInv
    <3> QED
      BY <1>1, <2>3, <2>4, <2>5, <2>8, <3>1, QuietInv, CwdStays DEF FsInv, Ino
  <2>11. th'[p].op = "link" => KeptPath(th'[p].new)
    BY <2>3, <2>5 DEF FsInv, CallInv, CallOk, WayOk
  <2>12. Own(p)'
    <3>1. CASE t.ok # "chdir"
      BY <2>3, <2>5, <2>6, <2>7, <2>10, <2>11, <3>1, RestOwn DEF Rest, Leaves
    <3>2. CASE t.ok = "chdir"
      <4>1. WayOk(th[p])'
        BY <2>7, <2>11, <3>2 DEF WayOk, Parents, Where, KeptPath
      <4>2. WalkOk(p)'
        <5>1. Walking(t)
          BY <1>3, <3>2 DEF Walking
        <5>2. Node(t.w).type = "dir" => Ino(t.w) \in Kept
          BY <5>1 DEF FsInv, CallInv, CallOk, WalkOk
        <5>3. ~InDir(th'[p])
          BY <2>7, <3>2 DEF InDir, Parents
        <5> QED
          BY <1>1, <2>3, <2>5, <2>10, <5>2, <5>3 DEF WalkOk, Ino, Node, InDir, Where
      <4>3. HoldOk(p)' /\ FillOk(p)' /\ EraseOk(p)' /\ FreeOk(p)'
        BY <2>3, <2>5, <2>7, <3>2 DEF HoldOk, Held, FillOk, EraseOk, FreeOk, Where
      <4> QED
        BY <4>1, <4>2, <4>3 DEF Own
    <3> QED
      BY <3>1, <3>2
  <2> QED
    BY <1>1, <2>8, <2>9, <2>12, QuietStep
<1> QED
  BY <1>4, <1>5

\* create has found the name.
LEMMA CreateFoundFs == ASSUME IInv, IInv', FsInv, NEW p \in Procs, create_found(p) PROVE FsInv'
<1> DEFINE t == th[p]
           i == dirlookup(t.w, Name(t))
           z == SlotOf(i)
           t1 == [t EXCEPT !.w = Nil, !.ip = z]
<1>1. /\ t.pc = "create" /\ Lockable(t.w) /\ i # Nil /\ ~Full(i)
      /\ icache' = [iget(i) EXCEPT ![t.w] = [Loaded(t.w) EXCEPT !.ref = iget(i)[t.w].ref]]
      /\ th' = [th EXCEPT ![p] = Put(t1, t.w, "create_lock")]
      /\ disk' = disk /\ lock' = lock /\ cwd' = cwd /\ ofile' = ofile /\ panicked' = panicked
  BY DEF create_found, At
<1>2. t.w \in Slots /\ icache[t.w].ref > 0 /\ t.w # Nil /\ t.put = Nil /\ t.ip = Nil /\ t \in ThreadType
  BY <1>1, HasW, HasNot, NilSlot, ThreadIs DEF WithW, Parents
<1>3. ~Owes(t) /\ Where(t) = "create"
  BY <1>1, DebtIs DEF Putting
<1>4. i \in Inums
  BY <1>1, NamesInode, HasName DEF Parents, Name
<1>5. z \in Slots
  BY <1>1, SlotIs
<1> HIDE DEF i, z
<1>6. Moves(t1, t, t.pc, t.path, Nil, z, t.put, t.ret) /\ t1 \in ThreadType
  <2>1. Moves(t1, t, t.pc, t.path, Nil, z, t.put, t.ret)
    BY <1>2, <1>5, SetWIp
  <2> QED
    BY <2>1 DEF Moves
<1> HIDE DEF t1
<1>7. /\ Only(p) /\ Moves(th'[p], t1, "iput", t1.path, t1.w, t1.ip, t.w, "create_lock")
      /\ cwd'[p] = cwd[p] /\ ofile'[p] = ofile[p]
  BY <1>1, <1>2, <1>6, PutGoes DEF PCs
<1>8. CacheStep(p) /\ icache'[z].inum = i
  BY <1>1, <1>2, <1>4, <1>7, LoadGetCache DEF LockStep, z
<1>9. /\ th'[p].pc = "iput" /\ th'[p].w = Nil /\ th'[p].ip = z /\ th'[p].put = t.w /\ th'[p].ret = "create_lock"
      /\ th'[p].op = t.op /\ th'[p].new = t.new
  BY <1>6, <1>7 DEF Moves
<1>10. Where(th'[p]) = "create_lock"
  BY <1>2, <1>9 DEF Where
<1>11. Quiet(p)
  BY <1>1, <1>3, <1>8, <1>10 DEF Quiet, Owes, Dropping, Linking, Looking, Parents, Leaves
<1>12. NamedUses(p)
  <2>1. Ino(t.w) \in Kept
    BY <1>3 DEF FsInv, CallInv, CallOk, WalkOk, InDir, Parents
  <2>2. Name(t) \in Entries
    BY SMTT(60), <1>3 DEF FsInv, CallInv, CallOk, WayOk, Parents, Name
  <2>3. disk.inode[i].nlink >= 1
    BY ZenonT(60), <1>1, <2>1, <2>2, KeptIs, Named DEF FsInv, i, dirlookup, Ino
  <2> QED
    BY <1>7, <1>8, <1>9, <2>3 DEF NamedUses, Uses
<1>13. Own(p)'
  <2>1. icache'[cwd'[p]].inum \in Kept'
    BY <1>7, <1>8, <1>11, CwdStays, QuietInv DEF FsInv
  <2>2. th'[p].op = "link" => KeptPath(th'[p].new)
    BY <1>9 DEF FsInv, CallInv, CallOk, WayOk
  <2> QED
    BY <1>9, <1>10, <2>1, <2>2, RestOwn DEF Rest
<1> QED
  BY <1>1, <1>11, <1>12, <1>13, QuietStep

\* A call that stays where it is.
LEMMA SameOwn ==
  ASSUME IInv, IInv', FsInv, NEW p \in Procs, Quiet(p), cwd'[p] = cwd[p], Where(th'[p]) = Where(th[p]),
         th'[p].path = th[p].path, th'[p].w = th[p].w, th'[p].ip = th[p].ip, th'[p].op = th[p].op,
         th'[p].new = th[p].new, th'[p].ok = th[p].ok, th'[p].par = th[p].par, HoldOk(p)', FreeOk(p)'
  PROVE  Own(p)'
<1> DEFINE t == th[p]
           u == th'[p]
<1>1. CallInv /\ CallOk(p) /\ CacheStep(p) /\ disk' = disk
  BY DEF FsInv, CallInv, Quiet
<1>2. Kept' = Kept /\ icache'[cwd'[p]].inum \in Kept
  BY <1>1, QuietInv, CwdStays DEF FsInv
<1>3. ASSUME NEW s \in {t.w, t.ip} \ {Nil} PROVE icache'[s].inum = icache[s].inum
  <2>1. s \in Uses(p) \ {Nil}
    BY DEF Uses
  <2>2. s \in Slots /\ icache[s].ref > 0
    BY <2>1, UsesIs
  <2>3. icache'[s].ref > 0
    BY <2>2, ReferencedNext
  <2> QED
    BY <1>1, <2>2, <2>3 DEF CacheStep
<1>4. WayOk(th[p])'
  BY <1>1 DEF CallOk, WayOk, KeptPath, Last
<1>5. WalkOk(p)'
  <2>1. InDir(t) \/ Walking(t) => t.w # Nil
    BY HeldIs
  <2>2. (InDir(u) <=> InDir(t)) /\ (Walking(u) <=> Walking(t))
    BY DEF InDir, Walking
  <2> QED
    BY <1>1, <1>2, <1>3, <2>1, <2>2 DEF CallOk, WalkOk, Ino, Node
<1>6. FillOk(p)' /\ EraseOk(p)'
  <2>1. Where(t) \in {"create_fill", "unlink_ip"} => t.w # Nil /\ t.ip # Nil
    BY HeldIs
  <2>2. \A q \in Procs \ {p} : Uses(q)' = Uses(q)
    BY SMTT(60), <1>1 DEF CacheStep, Only, Uses
  <2>3. EraseOk(p)'
    BY <1>1, <1>3, <2>1 DEF CallOk, EraseOk, Ino, Node, Name
  <2>4. FillOk(p)'
    <3> SUFFICES ASSUME Where(u) = "create_fill"
                 PROVE  /\ disk.inode[icache'[u.w].inum].ents[Name(u)] = Nil
                        /\ disk.inode[icache'[u.ip].inum] = [Free EXCEPT !.type = TypeMade(u.op)]
                        /\ \A q \in Procs \ {p} : u.ip \notin Uses(q)'
      BY <1>1 DEF FillOk, Node, Name, Alone
    <3>1. icache'[u.w].inum = icache[t.w].inum /\ icache'[u.ip].inum = icache[t.ip].inum
      BY <1>3, <2>1
    <3>2. /\ Node(t.w).ents[Name(t)] = Nil /\ Node(t.ip) = [Free EXCEPT !.type = TypeMade(t.op)]
          /\ Alone(p, t.ip)
      BY <1>1 DEF CallOk, FillOk
    <3> QED
      BY <2>2, <3>1, <3>2 DEF Node, Name, Alone
  <2> QED
    BY <2>3, <2>4
<1> QED
  BY <1>4, <1>5, <1>6 DEF Own

\* iput looks at the reference count, and locks the inode it will free.
LEMMA IputFs == ASSUME IInv, IInv', FsInv, NEW p \in Procs, iput(p) PROVE FsInv'
<1> DEFINE t == th[p]
           s == t.put
<1>1. /\ t.pc = "iput" /\ lock[s] = Nobody /\ disk' = disk /\ icache' = icache /\ cwd' = cwd /\ ofile' = ofile
      /\ panicked' = panicked
  BY DEF iput, At
<1>2. s \in Slots /\ icache[s].ref > 0 /\ s # Nil /\ t \in ThreadType
  BY <1>1, HasPut, NilSlot, ThreadIs DEF Putting
<1>3. CallOk(p) /\ CallInv
  BY DEF FsInv, CallInv
<1>4. ASSUME NEW l \in {"ifree", "unref"}, th' = [th EXCEPT ![p].pc = l], LockStep(p), HoldOk(p)', FreeOk(p)'
      PROVE  FsInv'
  <2> DEFINE u == [t EXCEPT !.pc = l]
  <2>1. Moves(u, t, l, t.path, t.w, t.ip, t.put, t.ret)
    BY <1>2, SetPc, Labels
  <2>2. th' = [th EXCEPT ![p] = u]
    BY <1>4
  <2> HIDE DEF u
  <2>3. Only(p) /\ th'[p] = u /\ cwd'[p] = cwd[p] /\ ofile'[p] = ofile[p]
    BY <1>1, <2>1, <2>2, ThreadSet DEF Moves, IInv
  <2>4. CacheStep(p)
    BY <1>1, <1>4, <2>3, StillCache
  <2>5. /\ th'[p].pc = l /\ th'[p].path = t.path /\ th'[p].w = t.w /\ th'[p].ip = t.ip /\ th'[p].op = t.op
        /\ th'[p].new = t.new /\ th'[p].ok = t.ok /\ th'[p].par = t.par /\ th'[p].put = s /\ th'[p].ret = t.ret
    BY <2>1, <2>3 DEF Moves
  <2>6. Where(th'[p]) = Where(t)
    BY <1>2, <2>5 DEF Where
  <2>7. Quiet(p)
    BY <1>1, <2>4, <2>5, <2>6 DEF Quiet, Owes, Dropping, Linking
  <2>8. NamedUses(p)
    BY <1>1, <2>3, <2>5 DEF NamedUses, Uses
  <2>9. Own(p)'
    BY <1>4, <2>3, <2>5, <2>6, <2>7, SameOwn
  <2> QED
    BY <1>1, <2>7, <2>8, <2>9, QuietStep
<1>5. ASSUME NEW l \in {"ifree", "unref"}, th' = [th EXCEPT ![p].pc = l]
      PROVE  /\ th'[p].pc = l /\ th'[p].put = s /\ th'[p].w = t.w /\ th'[p].ip = t.ip /\ Where(th'[p]) = Where(t)
             /\ \A q \in Procs \ {p} : th'[q] = th[q]
  <2> DEFINE u == [t EXCEPT !.pc = l]
  <2>1. Moves(u, t, l, t.path, t.w, t.ip, t.put, t.ret)
    BY <1>2, SetPc, Labels
  <2>2. th' = [th EXCEPT ![p] = u]
    BY <1>5
  <2> HIDE DEF u
  <2>3. th'[p] = u /\ \A q \in Procs \ {p} : th'[q] = th[q]
    BY <2>2 DEF IInv, TypeOK
  <2> QED
    BY <1>2, <2>1, <2>3 DEF Moves, Where
<1>6. CASE icache[s].valid /\ icache[s].nlink = 0 /\ LastRef(s)
  <2>1. lock' = [lock EXCEPT ![s] = p] /\ th' = [th EXCEPT ![p].pc = "ifree"]
    BY <1>6 DEF iput
  <2>2. /\ th'[p].pc = "ifree" /\ th'[p].put = s /\ th'[p].w = t.w /\ th'[p].ip = t.ip /\ Where(th'[p]) = Where(t)
        /\ \A q \in Procs \ {p} : th'[q] = th[q]
    BY <1>5, <2>1
  <2>3. lock'[s] = p /\ (\A r \in Slots \ {s} : lock'[r] = lock[r]) /\ LockStep(p)
    BY <1>1, <1>2, <2>1, TypesAre DEF LockStep
  <2>4. HoldOk(p)'
    <3>1. ASSUME NEW r \in Held(t) PROVE lock'[r] = p /\ icache'[r].valid
      <4>1. r \in Slots
        BY HeldIs, UsesIs
      <4>2. lock[r] = p /\ icache[r].valid
        BY <1>3 DEF CallOk, HoldOk
      <4> QED
        BY <1>1, <2>3, <4>1, <4>2, InodeAssumption
    <3>2. Held(th[p])' \subseteq Held(t) \cup {s}
      BY <1>1, <2>2 DEF Held, Where
    <3> QED
      BY <1>1, <1>6, <2>3, <3>1, <3>2 DEF HoldOk
  <2>5. FreeOk(p)'
    <3>1. Alone(p, s) /\ s \notin {t.w, t.ip, cwd[p], ofile[p].ip}
      BY <1>2, <1>6, OnlyRef DEF LastRef
    <3>2. disk.inode[icache[s].inum].nlink = 0
      BY <1>2, <1>6, EntryIs DEF Known, SameAttr
    <3>3. \A q \in Procs \ {p} : Uses(q)' = Uses(q)
      BY <1>1, <2>2 DEF Uses
    <3> QED
      BY <1>1, <2>2, <3>1, <3>2, <3>3 DEF FreeOk, Node, Alone
  <2> QED
    BY <1>4, <2>1, <2>3, <2>4, <2>5
<1>7. CASE ~(icache[s].valid /\ icache[s].nlink = 0 /\ LastRef(s))
  <2>1. lock' = lock /\ th' = [th EXCEPT ![p].pc = "unref"]
    BY <1>7 DEF iput
  <2>2. th'[p].pc = "unref" /\ th'[p].w = t.w /\ th'[p].ip = t.ip /\ Where(th'[p]) = Where(t)
    BY <1>5, <2>1
  <2>3. HoldOk(p)'
    BY <1>1, <1>3, <2>1, <2>2 DEF CallOk, HoldOk, Held
  <2>4. FreeOk(p)'
    BY <2>2 DEF FreeOk
  <2>5. LockStep(p)
    BY <2>1 DEF LockStep
  <2> QED
    BY <1>4, <2>1, <2>3, <2>4, <2>5
<1> QED
  BY <1>6, <1>7

\* iput gives the reference back.
LEMMA UnrefFs == ASSUME IInv, IInv', FsInv, NEW p \in Procs, unref(p) PROVE FsInv'
<1> DEFINE t == th[p]
           s == t.put
<1>1. /\ t.pc = "unref" /\ disk' = disk /\ lock' = lock /\ cwd' = cwd /\ ofile' = ofile /\ panicked' = panicked
      /\ icache' = IF icache[s].ref = 1 THEN [icache EXCEPT ![s] = NoEntry] ELSE [icache EXCEPT ![s].ref = @ - 1]
      /\ th' = [th EXCEPT ![p] = IF @.ret = "end" THEN Idle
                                   ELSE [@ EXCEPT !.pc = th[p].ret, !.put = Nil, !.ret = "none"]]
  BY DEF unref, At
<1>2. s \in Slots /\ icache[s].ref > 0 /\ s # Nil /\ t \in ThreadType /\ t.ret \in PCs /\ RefsOk(t)
  BY <1>1, HasPut, NilSlot, ThreadIs DEF Putting, LocalOk
<1>3. Only(p)
  BY <1>1, BackStep
<1>4. \A r \in Slots : icache'[r].ref > 0 => icache'[r].inum = icache[r].inum /\ icache'[r].valid = icache[r].valid
  <2> DEFINE e == icache[s]
  <2>1. e \in EntryType /\ icache \in [Slots -> EntryType]
    BY <1>2, TypesAre
  <2>2. CASE e.ref = 1
    <3>1. icache' = [icache EXCEPT ![s] = NoEntry]
      BY <1>1, <2>2
    <3> QED
      BY <1>2, <2>1, <3>1, NoEntryIs
  <2>3. CASE e.ref # 1
    <3> DEFINE f == [e EXCEPT !.ref = e.ref - 1]
    <3>1. icache' = [icache EXCEPT ![s] = f]
      BY <1>1, <2>3
    <3>2. f.inum = e.inum /\ f.valid = e.valid
      <4> HIDE DEF e
      <4> QED BY <2>1 DEF EntryType
    <3> HIDE DEF f
    <3> QED
      BY <1>2, <2>1, <3>1, <3>2
  <2> QED
    BY <2>2, <2>3
<1>5. CacheStep(p)
  BY <1>1, <1>3, <1>4 DEF CacheStep
<1>6. CASE t.ret = "end"
  <2>1. th'[p] = Idle /\ cwd'[p] = cwd[p] /\ ofile'[p] = ofile[p]
    BY <1>1, <1>6 DEF IInv, TypeOK
  <2>2. Where(t) = "end"
    BY <1>2, <1>6 DEF Where
  <2>3. ~Owes(t)
    BY <2>2 DEF Owes, Dropping, Linking, Looking, Parents, Leaves
  <2>4. ofile'[p].ip \in Uses(p)
    BY <2>1 DEF Uses
  <2> QED
    BY <1>1, <1>5, <2>1, <2>3, <2>4, IdleRest
<1>7. CASE t.ret # "end"
  <2> DEFINE u == [t EXCEPT !.pc = t.ret, !.put = Nil, !.ret = "none"]
  <2>1. Moves(u, t, t.ret, t.path, t.w, t.ip, Nil, "none")
    BY <1>2, SetBack
  <2>2. th' = [th EXCEPT ![p] = u]
    BY <1>1, <1>7
  <2> HIDE DEF u
  <2>3. th'[p] = u /\ cwd'[p] = cwd[p] /\ ofile'[p] = ofile[p]
    BY <1>1, <2>2 DEF IInv, TypeOK
  <2>4. /\ th'[p].pc = t.ret /\ th'[p].path = t.path /\ th'[p].w = t.w /\ th'[p].ip = t.ip /\ th'[p].op = t.op
        /\ th'[p].new = t.new /\ th'[p].ok = t.ok /\ th'[p].par = t.par /\ th'[p].put = Nil
    BY <2>1, <2>3 DEF Moves
  <2>5. Where(th'[p]) = Where(t) /\ t.ret \notin Putting
    BY <1>2, <2>4 DEF Where, RefsOk
  <2>6. Quiet(p)
    BY <1>1, <1>5, <2>4, <2>5 DEF Quiet, Owes, Dropping, Linking
  <2>7. NamedUses(p)
    BY <2>3, <2>4, <2>5 DEF NamedUses, Uses, Putting
  <2>8. HoldOk(p)'
    <3>1. Held(th[p])' \subseteq Held(t) /\ Held(th[p])' \subseteq {t.w, t.ip}
      BY <2>4, <2>5 DEF Held, Putting
    <3>2. ASSUME NEW r \in Held(t), r \in {t.w, t.ip} PROVE lock'[r] = p /\ icache'[r].valid
      <4>1. r \in Slots
        BY HeldIs, UsesIs
      <4>2. lock[r] = p /\ icache[r].valid
        BY DEF FsInv, CallInv, CallOk, HoldOk
      <4>3. icache'[r].ref > 0
        BY <2>4, <3>2, <4>1, ReferencedNext
      <4> QED
        BY <1>1, <1>4, <4>1, <4>2, <4>3
    <3> QED
      BY <3>1, <3>2 DEF HoldOk
  <2>9. FreeOk(p)'
    BY <2>4, <2>5 DEF FreeOk, Putting
  <2>10. Own(p)'
    BY <2>3, <2>4, <2>5, <2>6, <2>8, <2>9, SameOwn
  <2> QED
    BY <1>1, <2>6, <2>7, <2>10, QuietStep
<1> QED
  BY <1>6, <1>7

\* A call that gives up with its directory locked.
LEMMA UnlockOwn ==
  ASSUME NEW p \in Procs, Where(th'[p]) = "unlock_w", th'[p].pc # "ifree", th'[p].op = "link" => KeptPath(th'[p].new),
         icache'[cwd'[p]].inum \in Kept', lock'[th'[p].w] = p, icache'[th'[p].w].valid
  PROVE  Own(p)'
<1>1. WayOk(th[p])'
  BY DEF WayOk, Parents, Where, KeptPath
<1>2. WalkOk(p)'
  BY DEF WalkOk, Parents, Where, InDir, Walking, Ino
<1>3. HoldOk(p)'
  BY DEF HoldOk, Held, Where
<1>4. FillOk(p)' /\ EraseOk(p)' /\ FreeOk(p)'
  BY DEF FillOk, EraseOk, FreeOk, Where
<1> QED
  BY <1>1, <1>2, <1>3, <1>4 DEF Own

\* unlink of a directory that is not empty.
LEMMA UnlinkBusyFs == ASSUME IInv, IInv', FsInv, NEW p \in Procs, unlink_busy(p) PROVE FsInv'
<1> DEFINE t == th[p]
<1>1. /\ t.pc = "unlink_ip" /\ Lockable(t.ip) /\ icache' = [icache EXCEPT ![t.ip] = Loaded(t.ip)]
      /\ th' = [th EXCEPT ![p] = Put([t EXCEPT !.ip = Nil], t.ip, "unlock_w")]
      /\ disk' = disk /\ lock' = lock /\ cwd' = cwd /\ ofile' = ofile /\ panicked' = panicked
  BY DEF unlink_busy, At
<1>2. t.put = Nil /\ t.ip \in Slots /\ icache[t.ip].ref > 0 /\ t.ip # Nil /\ t.w \in Slots
  BY <1>1, HasIp, HasW, NilSlot DEF WithIp, WithW
<1>3. ~Owes(t) /\ Where(t) = "unlink_ip"
  BY <1>1, DebtIs DEF Putting
<1>4. t.ok = "unlink" /\ t.op # "link"
  BY <1>3, ThreadIs DEF LocalOk, LookOk
<1>5. /\ Only(p) /\ Moves(th'[p], t, "iput", t.path, t.w, Nil, t.ip, "unlock_w")
      /\ cwd'[p] = cwd[p] /\ ofile'[p] = ofile[p]
  BY <1>1, PutIpGoes DEF PCs
<1>6. CacheStep(p) /\ (icache[t.w].valid => icache'[t.w].valid)
  <2>1. CacheStep(p) /\ icache'[t.ip].valid
    BY <1>1, <1>2, <1>5, LoadCache DEF LockStep
  <2>2. t.w # t.ip => icache'[t.w] = icache[t.w]
    BY <1>1, <1>2, TypesAre
  <2> QED
    BY <2>1, <2>2
<1>7. /\ th'[p].pc = "iput" /\ th'[p].w = t.w /\ th'[p].ip = Nil /\ th'[p].put = t.ip /\ th'[p].ret = "unlock_w"
      /\ th'[p].op = t.op /\ th'[p].ok = t.ok
  BY <1>5 DEF Moves
<1>8. Where(th'[p]) = "unlock_w"
  BY <1>2, <1>7 DEF Where
<1>9. Quiet(p)
  BY <1>1, <1>3, <1>4, <1>6, <1>7, <1>8 DEF Quiet, Owes, Dropping, Linking
<1>10. NamedUses(p)
  BY <1>7, <1>5 DEF NamedUses, Uses
<1>11. lock[t.w] = p /\ icache[t.w].valid
  BY <1>3 DEF FsInv, CallInv, CallOk, HoldOk, Held
<1>12. icache'[cwd'[p]].inum \in Kept'
  BY <1>5, <1>6, <1>9, CwdStays, QuietInv DEF FsInv
<1>13. Own(p)'
  BY <1>1, <1>4, <1>6, <1>7, <1>8, <1>11, <1>12, UnlockOwn
<1> QED
  BY <1>1, <1>9, <1>10, <1>13, QuietStep

\* dirlink finds the name.
LEMMA DirlinkTakenFs == ASSUME IInv, IInv', FsInv, NEW p \in Procs, dirlink_taken(p) PROVE FsInv'
<1> DEFINE t == th[p]
           i == dirlookup(t.w, Name(t))
           z == SlotOf(i)
<1>1. /\ t.pc = "dirlink" /\ Lockable(t.w) /\ i # Nil /\ ~Full(i)
      /\ icache' = [iget(i) EXCEPT ![t.w] = [Loaded(t.w) EXCEPT !.ref = iget(i)[t.w].ref]]
      /\ lock' = [lock EXCEPT ![t.w] = p]
      /\ th' = [th EXCEPT ![p] = Put(t, z, "unlock_w")]
      /\ disk' = disk /\ cwd' = cwd /\ ofile' = ofile /\ panicked' = panicked
  BY DEF dirlink_taken, At
<1>2. t.w \in Slots /\ icache[t.w].ref > 0 /\ t.w # Nil /\ t.put = Nil /\ t \in ThreadType
  BY <1>1, HasW, NilSlot, ThreadIs DEF WithW, Parents
<1>3. Linking(t) /\ ~Dropping(t) /\ Where(t) = "dirlink"
  BY <1>1, DebtIs DEF Putting
<1>4. i \in Inums
  BY <1>1, NamesInode, HasName DEF Parents, Name
<1>5. z \in Slots
  BY <1>1, SlotIs
<1>6. t.ok = "dirlink"
  BY <1>3, ThreadIs DEF LocalOk, LookOk, Parents
<1> HIDE DEF i, z
<1>7. /\ Only(p) /\ Moves(th'[p], t, "iput", t.path, t.w, t.ip, z, "unlock_w")
      /\ cwd'[p] = cwd[p] /\ ofile'[p] = ofile[p]
  BY <1>1, <1>2, <1>5, PutGoes DEF PCs
<1>8. LockStep(p) /\ lock'[t.w] = p
  BY <1>1, <1>2, TypesAre DEF LockStep, Lockable
<1>9. CacheStep(p) /\ icache'[z].inum = i /\ icache'[t.w].valid
  BY <1>1, <1>2, <1>4, <1>7, <1>8, LoadGetCache DEF z
<1>10. /\ th'[p].pc = "iput" /\ th'[p].w = t.w /\ th'[p].ip = t.ip /\ th'[p].put = z /\ th'[p].ret = "unlock_w"
      /\ th'[p].op = t.op /\ th'[p].new = t.new /\ th'[p].ok = t.ok
  BY <1>7 DEF Moves
<1>11. Where(th'[p]) = "unlock_w"
  BY <1>5, <1>10, NilSlot DEF Where
<1>12. Quiet(p)
  BY <1>1, <1>3, <1>6, <1>9, <1>10, <1>11 DEF Quiet, Owes, Dropping, Linking, Looking
<1>13. NamedUses(p)
  <2>1. Ino(t.w) \in Kept
    BY <1>3 DEF FsInv, CallInv, CallOk, WalkOk, InDir, Parents
  <2>2. Name(t) \in Entries
    BY SMTT(60), <1>3 DEF FsInv, CallInv, CallOk, WayOk, Parents, Name
  <2>3. disk.inode[i].nlink >= 1
    BY ZenonT(60), <1>1, <2>1, <2>2, KeptIs, Named DEF FsInv, i, dirlookup, Ino
  <2> QED
    BY <1>7, <1>9, <1>10, <2>3 DEF NamedUses, Uses
<1>14. icache'[cwd'[p]].inum \in Kept'
  BY <1>7, <1>9, <1>12, CwdStays, QuietInv DEF FsInv
<1>15. th'[p].op = "link" => KeptPath(th'[p].new)
  BY <1>10 DEF FsInv, CallInv, CallOk, WayOk
<1>16. Own(p)'
  BY <1>8, <1>9, <1>10, <1>11, <1>14, <1>15, UnlockOwn
<1> QED
  BY <1>1, <1>12, <1>13, <1>16, QuietStep

\* unlink has found the name, which is one that calls unlink.
LEMMA UnlinkFoundFs == ASSUME IInv, IInv', FsInv, NEW p \in Procs, unlink_found(p) PROVE FsInv'
<1> DEFINE t == th[p]
           i == dirlookup(t.w, Name(t))
           z == SlotOf(i)
           u == [t EXCEPT !.pc = "unlink_ip", !.ip = z]
<1>1. /\ t.pc = "unlink" /\ Lockable(t.w) /\ i # Nil /\ ~Full(i) /\ Name(t) \notin {".", ".."}
      /\ icache' = [iget(i) EXCEPT ![t.w] = [Loaded(t.w) EXCEPT !.ref = iget(i)[t.w].ref]]
      /\ lock' = [lock EXCEPT ![t.w] = p]
      /\ th' = [th EXCEPT ![p] = u]
      /\ disk' = disk /\ cwd' = cwd /\ ofile' = ofile /\ panicked' = panicked
  BY DEF unlink_found, At
<1>2. t.w \in Slots /\ icache[t.w].ref > 0 /\ t.w # Nil /\ t.put = Nil /\ t \in ThreadType
  BY <1>1, HasW, NilSlot, ThreadIs DEF WithW, Parents
<1>3. ~Owes(t) /\ Where(t) = "unlink"
  BY <1>1, DebtIs DEF Putting
<1>4. i \in Inums
  BY <1>1, NamesInode, HasName DEF Parents, Name
<1>5. z \in Slots
  BY <1>1, SlotIs
<1>6. t.ok = "unlink" /\ t.path # <<>>
  BY SMTT(60), <1>3, ThreadIs DEF LocalOk, LookOk, PathOk, Parents
<1> HIDE DEF i, z
<1>7. Moves(u, t, "unlink_ip", t.path, t.w, z, t.put, t.ret)
  BY ZenonT(60), <1>2, <1>5, SetPcIp DEF PCs
<1> HIDE DEF u
<1>8. Only(p) /\ th'[p] = u /\ cwd'[p] = cwd[p] /\ ofile'[p] = ofile[p]
  BY <1>1, <1>7, ThreadSet DEF Moves, IInv
<1>9. LockStep(p) /\ lock'[t.w] = p
  BY <1>1, <1>2, TypesAre DEF LockStep, Lockable
<1>10. CacheStep(p) /\ icache'[z].inum = i /\ icache'[t.w].valid /\ icache'[t.w].inum = Ino(t.w)
  BY <1>1, <1>2, <1>4, <1>8, <1>9, LoadGetCache DEF z, Ino
<1>11. /\ th'[p].pc = "unlink_ip" /\ th'[p].w = t.w /\ th'[p].ip = z /\ th'[p].put = Nil /\ th'[p].path = t.path
      /\ th'[p].op = t.op /\ th'[p].new = t.new /\ th'[p].ok = t.ok
  BY <1>2, <1>7, <1>8 DEF Moves
<1>12. Where(th'[p]) = "unlink_ip"
  BY <1>11 DEF Where
<1>13. Quiet(p)
  BY <1>1, <1>3, <1>10, <1>12 DEF Quiet, Owes, Dropping, Linking, Looking, Parents, Leaves
<1>14. Ino(t.w) \in Kept
  BY <1>3 DEF FsInv, CallInv, CallOk, WalkOk, InDir, Parents
<1>15. Name(t) \in Entries /\ Len(t.path) = 1 /\ t.path[Len(t.path)] \notin Names \ Removable
  BY <1>3, <1>6 DEF FsInv, CallInv, CallOk, WayOk, Parents, Name, Last
<1>16. NamedUses(p)
  <2>1. disk.inode[i].nlink >= 1
    BY ZenonT(60), <1>1, <1>14, <1>15, KeptIs, Named DEF FsInv, i, dirlookup, Ino
  <2> QED
    BY SMTT(60), <1>8, <1>10, <1>11, <2>1 DEF NamedUses, Uses
<1>17. icache'[cwd'[p]].inum \in Kept' /\ Kept' = Kept
  BY <1>8, <1>10, <1>13, CwdStays, QuietInv DEF FsInv
<1>18. th'[p].op = "link" => KeptPath(th'[p].new)
  BY <1>11 DEF FsInv, CallInv, CallOk, WayOk
<1>19. Name(t) \in Removable
  BY <1>1, <1>6, <1>15 DEF Name, Entries
<1>20. Own(p)'
  <2>1. WayOk(th[p])'
    BY <1>11, <1>12, <1>15, <1>18 DEF WayOk, Parents, Where, KeptPath, Name
  <2>2. WalkOk(p)'
    BY <1>10, <1>11, <1>12, <1>14, <1>17 DEF WalkOk, Where, Walking, Ino
  <2>3. HoldOk(p)'
    BY SMTT(60), <1>9, <1>10, <1>11, <1>12 DEF HoldOk, Held, Where
  <2>4. EraseOk(p)'
    BY ZenonT(60), <1>1, <1>10, <1>11, <1>19 DEF EraseOk, Node, Name, Ino, i, dirlookup
  <2>5. FillOk(p)' /\ FreeOk(p)'
    BY <1>11, <1>12 DEF FillOk, FreeOk, Where
  <2> QED
    BY <2>1, <2>2, <2>3, <2>4, <2>5 DEF Own
<1> QED
  BY <1>1, <1>13, <1>16, <1>20, QuietStep

\* namex stops one level early, in a directory that stays.
LEMMA NamexParentFs == ASSUME IInv, IInv', FsInv, NEW p \in Procs, namex_parent(p) PROVE FsInv'
<1> DEFINE t == th[p]
           u == [t EXCEPT !.pc = t.ok]
<1>1. /\ t.pc = "namex" /\ Len(t.path) = 1 /\ t.par /\ Lockable(t.w) /\ Loaded(t.w).type = "dir"
      /\ icache' = [icache EXCEPT ![t.w] = Loaded(t.w)] /\ th' = [th EXCEPT ![p] = u]
      /\ disk' = disk /\ lock' = lock /\ cwd' = cwd /\ ofile' = ofile /\ panicked' = panicked
  BY DEF namex_parent, At
<1>2. t.w \in Slots /\ icache[t.w].ref > 0 /\ t.w # Nil /\ t.put = Nil /\ t \in ThreadType /\ t.ok \in PCs
  BY <1>1, HasW, NilSlot, ThreadIs DEF WithW
<1>3. ~Dropping(t) /\ Where(t) = "namex" /\ (Linking(t) <=> t.ok = "dirlink")
  BY <1>1, DebtIs DEF Putting
<1>4. t.ok \in Parents /\ t.path \in Seq(Entries)
  BY <1>1, <1>3, ThreadIs DEF LocalOk, LookOk, PathOk, Looking
<1>5. t.path # <<>> /\ Head(t.path) \in Entries
  BY <1>1, <1>4
<1>6. Moves(u, t, t.ok, t.path, t.w, t.ip, t.put, t.ret)
  BY <1>2, SetPc
<1> HIDE DEF u
<1>7. Only(p) /\ th'[p] = u /\ cwd'[p] = cwd[p] /\ ofile'[p] = ofile[p]
  BY <1>1, <1>6, ThreadSet DEF Moves, IInv
<1>8. CacheStep(p) /\ icache'[t.w].inum = Ino(t.w)
  BY <1>1, <1>2, <1>7, LoadCache DEF LockStep, Ino
<1>9. /\ th'[p].pc = t.ok /\ th'[p].w = t.w /\ th'[p].ip = t.ip /\ th'[p].put = Nil /\ th'[p].path = t.path
      /\ th'[p].op = t.op /\ th'[p].new = t.new /\ th'[p].ok = t.ok
  BY <1>2, <1>6, <1>7 DEF Moves
<1>10. Where(th'[p]) = t.ok
  BY <1>9 DEF Where
<1>11. Quiet(p)
  BY <1>1, <1>3, <1>4, <1>8, <1>9, <1>10 DEF Quiet, Owes, Dropping, Linking, Looking, Parents
<1>12. NamedUses(p)
  BY <1>4, <1>7, <1>9 DEF NamedUses, Uses, Parents
<1>13. Ino(t.w) \in Kept
  <2>1. Node(t.w).type = "dir"
    BY <1>1, <1>2, LoadedIs DEF Known, SameAttr, Node
  <2>2. Walking(t)
    BY <1>1, <1>3 DEF Walking
  <2> QED
    BY <2>1, <2>2 DEF FsInv, CallInv, CallOk, WalkOk
<1>14. icache'[cwd'[p]].inum \in Kept' /\ Kept' = Kept
  BY <1>7, <1>8, <1>11, CwdStays, QuietInv DEF FsInv
<1>15. CallOk(p)
  BY DEF FsInv, CallInv
<1>16. Own(p)'
  <2>1. WayOk(th[p])'
    BY <1>1, <1>3, <1>4, <1>5, <1>9, <1>10, <1>15 DEF CallOk, WayOk, KeptPath, Last
  <2>2. WalkOk(p)'
    BY <1>4, <1>8, <1>9, <1>10, <1>13, <1>14 DEF WalkOk, Where, Walking, Ino, Parents
  <2>3. HoldOk(p)' /\ FillOk(p)' /\ EraseOk(p)' /\ FreeOk(p)'
    BY <1>4, <1>9, <1>10 DEF HoldOk, Held, FillOk, EraseOk, FreeOk, Where, Parents
  <2> QED
    BY <2>1, <2>2, <2>3 DEF Own
<1> QED
  BY <1>1, <1>11, <1>12, <1>16, QuietStep

\* What is left of a path after an element.
LEMMA PathTail ==
  ASSUME NEW S, NEW q \in Seq(S), q # <<>>, KeptPath(q)
  PROVE  /\ Head(q) = q[1] /\ KeptPath(Tail(q)) /\ (Tail(q) # <<>> => Last(Tail(q)) = Last(q))
         /\ Len(q) # 1 => q[1] \notin Removable
<1>1. Len(q) \in Nat /\ Len(q) # 0 /\ Head(q) = q[1]
  OBVIOUS
<1>2. Tail(q) \in Seq(S) /\ Len(Tail(q)) = Len(q) - 1 /\ \A k \in 1..(Len(q) - 1) : Tail(q)[k] = q[k + 1]
  BY <1>1
<1>3. Tail(q) # <<>> => Len(Tail(q)) # 0
  BY <1>2
<1>4. KeptPath(Tail(q))
  <2> SUFFICES ASSUME NEW k \in 1..(Len(Tail(q)) - 1) PROVE Tail(q)[k] \notin Removable
    BY DEF KeptPath
  <2>1. k + 1 \in 1..(Len(q) - 1) /\ Tail(q)[k] = q[k + 1]
    BY <1>1, <1>2
  <2> QED
    BY <2>1 DEF KeptPath
<1>5. Tail(q) # <<>> => Last(Tail(q)) = Last(q)
  BY <1>1, <1>2, <1>3 DEF Last
<1>6. Len(q) # 1 => q[1] \notin Removable
  <2>1. \A n \in Nat : n # 0 /\ n # 1 => 1 \in 1..(n - 1)
    OBVIOUS
  <2> QED
    BY <1>1, <2>1, Zenon DEF KeptPath
<1> QED
  BY <1>1, <1>4, <1>5, <1>6

\* namex goes on in the directory it has found.
LEMMA NamexStepFs == ASSUME IInv, IInv', FsInv, NEW p \in Procs, namex_step(p) PROVE FsInv'
<1> DEFINE t == th[p]
           n == Head(t.path)
           i == dirlookup(t.w, n)
           z == SlotOf(i)
           q == Tail(t.path)
           l == IF Len(t.path) = 1 THEN t.ok ELSE "namex"
           t1 == [t EXCEPT !.w = z, !.path = q]
<1>1. /\ t.pc = "namex" /\ Lockable(t.w) /\ t.path # <<>> /\ ~(t.par /\ Len(t.path) = 1)
      /\ Loaded(t.w).type = "dir" /\ i # Nil /\ ~Full(i)
      /\ icache' = [iget(i) EXCEPT ![t.w] = [Loaded(t.w) EXCEPT !.ref = iget(i)[t.w].ref]]
      /\ th' = [th EXCEPT ![p] = Put(t1, t.w, l)]
      /\ disk' = disk /\ lock' = lock /\ cwd' = cwd /\ ofile' = ofile /\ panicked' = panicked
  BY DEF namex_step, At
<1>2. t.w \in Slots /\ icache[t.w].ref > 0 /\ t.w # Nil /\ t.put = Nil /\ t \in ThreadType /\ t.ok \in PCs
  BY <1>1, HasW, NilSlot, ThreadIs DEF WithW
<1>3. ~Dropping(t) /\ Where(t) = "namex" /\ (Linking(t) <=> t.ok = "dirlink")
  BY <1>1, DebtIs DEF Putting
<1>4. i \in Inums
  BY <1>1, NamesInode
<1>5. z \in Slots
  BY <1>1, SlotIs
<1>6. t.path \in Seq(Entries) /\ (t.par <=> t.ok \in Parents) /\ t.ok \in Parents \cup Leaves
  BY <1>3, ThreadIs DEF LocalOk, LookOk, PathOk, Looking
<1>7. CallOk(p)
  BY DEF FsInv, CallInv
<1>8. KeptPath(t.path) /\ (t.ok = "chdir" => Last(t.path) \notin Removable)
      /\ (t.ok = "unlink" => Last(t.path) \notin Names \ Removable)
  BY <1>1, <1>3, <1>7 DEF CallOk, WayOk
<1>9. /\ n = t.path[1] /\ KeptPath(q) /\ (q # <<>> => Last(q) = Last(t.path)) /\ (Len(t.path) # 1 => n \notin Removable)
      /\ q \in Seq(Entries) /\ n \in Entries
  BY <1>1, <1>6, <1>8, PathTail
<1>10. q \in Seq(Elements)
  BY <1>9 DEF Elements
<1>11. l \in PCs /\ (Len(t.path) # 1 => l = "namex") /\ (Len(t.path) = 1 => l = t.ok /\ l \in Leaves)
  BY <1>1, <1>2, <1>6 DEF PCs
<1>12. Len(t.path) = 1 => n = Last(t.path)
  BY <1>9 DEF Last
<1> HIDE DEF i, z, q, l, n
<1>13. Moves(t1, t, t.pc, q, z, t.ip, t.put, t.ret) /\ t1 \in ThreadType
  <2>1. Moves(t1, t, t.pc, q, z, t.ip, t.put, t.ret)
    BY <1>2, <1>5, <1>10, SetWPath
  <2> QED
    BY <2>1 DEF Moves
<1> HIDE DEF t1
<1>14. /\ Only(p) /\ Moves(th'[p], t1, "iput", t1.path, t1.w, t1.ip, t.w, l)
       /\ cwd'[p] = cwd[p] /\ ofile'[p] = ofile[p]
  BY <1>1, <1>2, <1>11, <1>13, PutGoes
<1>15. CacheStep(p) /\ icache'[z].inum = i
  BY <1>1, <1>2, <1>4, <1>14, LoadGetCache DEF LockStep, z
<1>16. /\ th'[p].pc = "iput" /\ th'[p].w = z /\ th'[p].ip = t.ip /\ th'[p].put = t.w /\ th'[p].ret = l
       /\ th'[p].op = t.op /\ th'[p].new = t.new /\ th'[p].ok = t.ok /\ th'[p].path = q /\ th'[p].par = t.par
  BY <1>13, <1>14 DEF Moves
<1>17. Where(th'[p]) = l
  BY <1>2, <1>16 DEF Where
<1>18. Quiet(p)
  BY <1>1, <1>3, <1>11, <1>15, <1>16, <1>17 DEF Quiet, Owes, Dropping, Linking, Looking, Leaves
<1>19. Ino(t.w) \in Kept
  <2>1. Node(t.w).type = "dir"
    BY <1>1, <1>2, LoadedIs DEF Known, SameAttr, Node
  <2>2. Walking(t)
    BY <1>1, <1>3 DEF Walking
  <2> QED
    BY <1>7, <2>1, <2>2 DEF CallOk, WalkOk
<1>20. i = disk.inode[Ino(t.w)].ents[n]
  BY DEF i, dirlookup, Ino
<1>21. NamedUses(p)
  <2>1. disk.inode[i].nlink >= 1
    BY ZenonT(60), <1>1, <1>9, <1>19, <1>20, KeptIs, Named DEF FsInv
  <2> QED
    BY SMTT(60), <1>14, <1>15, <1>16, <2>1 DEF NamedUses, Uses
<1>22. icache'[cwd'[p]].inum \in Kept' /\ Kept' = Kept
  BY <1>14, <1>15, <1>18, CwdStays, QuietInv DEF FsInv
<1>23. Own(p)'
  <2>1. WayOk(th[p])'
    BY SMTT(60), <1>7, <1>8, <1>9, <1>11, <1>16, <1>17 DEF CallOk, WayOk, KeptPath, Last, Parents, Leaves
  <2>2. ASSUME Walking(th'[p]), disk.inode[i].type = "dir" PROVE i \in Kept
    <3>1. n \notin Removable
      BY <1>8, <1>9, <1>11, <1>12, <1>17, <2>2 DEF Walking, Leaves
    <3> QED
      BY ZenonT(60), <1>1, <1>9, <1>19, <1>20, <2>2, <3>1, KeptStep DEF FsInv
  <2>3. ~InDir(th'[p])
    BY <1>11, <1>17 DEF InDir, Parents, Leaves
  <2>4. WalkOk(p)'
    BY <1>1, <1>15, <1>16, <1>22, <2>2, <2>3 DEF WalkOk, Ino, Node
  <2>5. HoldOk(p)' /\ FillOk(p)' /\ EraseOk(p)' /\ FreeOk(p)'
    BY <1>11, <1>16, <1>17 DEF HoldOk, Held, FillOk, EraseOk, FreeOk, Where, Leaves
  <2> QED
    BY <2>1, <2>4, <2>5 DEF Own
<1> QED
  BY <1>1, <1>18, <1>21, <1>23, QuietStep

\* p takes one more reference.
LEMMA GetCache ==
  ASSUME IInv, NEW p \in Procs, Only(p), lock' = lock, NEW i \in Inums, ~Full(i), icache' = iget(i)
  PROVE  CacheStep(p) /\ icache'[SlotOf(i)].inum = i
<1> DEFINE z == SlotOf(i)
           g == iget(i)
<1>1. /\ z \in Slots /\ g[z].inum = i
      /\ IF icache[z].ref > 0 THEN icache[z].inum = i /\ g[z].valid = icache[z].valid ELSE Cached(i) = {}
      /\ \A s \in Slots \ {z} : g[s] = icache[s]
  BY GetIs
<1>2. icache' = g
  OBVIOUS
<1> HIDE DEF z, g
<1>3. \A s \in Slots : icache[s].ref > 0 => icache'[s].inum = icache[s].inum /\ icache'[s].valid = icache[s].valid
  BY <1>1, <1>2
<1> QED
  BY <1>1, <1>2, <1>3 DEF CacheStep, z

\* p takes one more reference to what it has.
LEMMA DupCache ==
  ASSUME IInv, NEW p \in Procs, Only(p), lock' = lock, NEW z \in Slots, icache' = idup(z)
  PROVE  CacheStep(p) /\ icache'[z].inum = icache[z].inum
<1> DEFINE e == icache[z]
           f == [e EXCEPT !.ref = e.ref + 1]
<1>1. e \in EntryType /\ icache \in [Slots -> EntryType]
  BY TypesAre
<1>2. icache' = [icache EXCEPT ![z] = f]
  BY DEF idup
<1>3. f.inum = e.inum /\ f.valid = e.valid
  <2> HIDE DEF e
  <2> QED
    BY <1>1 DEF EntryType
<1> HIDE DEF f
<1>4. \A s \in Slots : icache'[s].inum = icache[s].inum /\ icache'[s].valid = icache[s].valid
  BY <1>1, <1>2, <1>3
<1> QED
  BY <1>4 DEF CacheStep

\* namex begins at the root or in the current directory.
LEMMA StartFs == ASSUME IInv, IInv', FsInv, NEW p \in Procs, start(p) PROVE FsInv'
<1> DEFINE t == th[p]
           abs == Head(t.path) = "/"
           z == IF abs THEN SlotOf(ROOTINO) ELSE cwd[p]
           q == IF abs THEN Tail(t.path) ELSE t.path
           u == [t EXCEPT !.pc = "namex", !.w = z, !.path = q]
<1>1. /\ t.pc = "start" /\ disk' = disk /\ lock' = lock /\ cwd' = cwd /\ ofile' = ofile /\ panicked' = panicked
      /\ abs => ~Full(ROOTINO)
      /\ icache' = IF abs THEN iget(ROOTINO) ELSE idup(z)
      /\ th' = [th EXCEPT ![p] = u]
  BY DEF start, At
<1>2. /\ t \in ThreadType /\ LocalOk(t) /\ cwd[p] \in Slots /\ icache[cwd[p]].ref > 0 /\ ROOTINO \in Inums
      /\ t.path \in Seq(Elements)
  BY ThreadIs, Referenced, InodeAssumption DEF IInv, ROOTINO, Inums
<1>3. ~Dropping(t) /\ Where(t) = "start" /\ (Linking(t) <=> t.ok = "dirlink")
  BY <1>1, DebtIs DEF Putting
<1>4. IsPath(t.path) /\ t.put = Nil
  BY <1>1, <1>2, <1>3 DEF LocalOk, PathOk, RefsOk, Putting
<1>5. CallOk(p) /\ CallInv /\ TreeInv /\ CountInv
  BY DEF FsInv, CallInv
<1>6. /\ KeptPath(t.path) /\ t.path # <<>> /\ (t.ok = "chdir" => Last(t.path) \notin Removable)
      /\ (t.ok = "unlink" => Last(t.path) \notin Names \ Removable)
      /\ t.op = "link" => KeptPath(t.new)
  BY <1>3, <1>4, <1>5 DEF CallOk, WayOk, IsPath
<1>7. KeptPath(q) /\ (q # <<>> => Last(q) = Last(t.path))
  BY <1>2, <1>6, PathTail
<1>8. q \in Seq(Elements)
  <2>1. q \in Seq(Entries)
    BY <1>2, <1>4, PathIs
  <2> QED
    BY <2>1 DEF Elements
<1>9. z \in Slots
  BY SMTT(60), <1>1, <1>2, SlotIs
<1> HIDE DEF q
<1>10. Moves(u, t, "namex", q, z, t.ip, t.put, t.ret)
  <2> HIDE DEF z
  <2> QED
    BY <1>2, <1>8, <1>9, SetStart DEF PCs
<1> HIDE DEF u
<1>11. Only(p) /\ th'[p] = u /\ cwd'[p] = cwd[p] /\ ofile'[p] = ofile[p]
  BY <1>1, <1>10, ThreadSet DEF Moves, IInv
<1>12. CacheStep(p) /\ icache'[z].inum = IF abs THEN ROOTINO ELSE Ino(cwd[p])
  <2>1. CASE abs
    BY <1>1, <1>2, <1>11, <2>1, GetCache
  <2>2. CASE ~abs
    BY <1>1, <1>2, <1>11, <2>2, DupCache DEF Ino
  <2> QED
    BY <2>1, <2>2
<1>13. icache'[z].inum \in Kept
  BY <1>5, <1>12, KeptIs DEF CallOk, WalkOk
<1> HIDE DEF z, abs
<1>14. /\ th'[p].pc = "namex" /\ th'[p].w = z /\ th'[p].ip = t.ip /\ th'[p].put = Nil /\ th'[p].path = q
       /\ th'[p].op = t.op /\ th'[p].new = t.new /\ th'[p].ok = t.ok
  BY <1>4, <1>10, <1>11 DEF Moves
<1>15. Where(th'[p]) = "namex"
  BY <1>14 DEF Where
<1>16. Quiet(p)
  BY <1>1, <1>3, <1>12, <1>14, <1>15 DEF Quiet, Owes, Dropping, Linking, Looking
<1>17. NamedUses(p)
  <2>1. disk.inode[icache'[z].inum].nlink >= 1
    BY <1>5, <1>13, KeptIs
  <2> QED
    BY <1>11, <1>14, <2>1 DEF NamedUses, Uses
<1>18. icache'[cwd'[p]].inum \in Kept' /\ Kept' = Kept
  BY <1>11, <1>12, <1>16, CwdStays, QuietInv DEF FsInv
<1>19. Own(p)'
  <2>1. WayOk(th[p])'
    BY <1>6, <1>7, <1>14, <1>15 DEF WayOk, KeptPath, Last, Parents
  <2>2. WalkOk(p)'
    BY <1>13, <1>14, <1>15, <1>18 DEF WalkOk, InDir, Parents, Ino, Node, Where
  <2>3. HoldOk(p)' /\ FillOk(p)' /\ EraseOk(p)' /\ FreeOk(p)'
    BY <1>14, <1>15 DEF HoldOk, Held, FillOk, EraseOk, FreeOk, Where
  <2> QED
    BY <2>1, <2>2, <2>3 DEF Own
<1> QED
  BY <1>1, <1>16, <1>17, <1>19, QuietStep

\* The record of a call that begins.
LEMMA CallIs ==
  ASSUME NEW c \in Calls, NEW t, t = [Idle EXCEPT !.op = c.op, !.new = c.new, !.wr = c.wr]
  PROVE  /\ t \in ThreadType /\ t.op = c.op /\ t.new = c.new /\ t.w = Nil /\ t.ip = Nil /\ t.put = Nil
         /\ t.path = <<>> /\ t.ok = "none" /\ t.ret = "none"
         /\ c.op \in Ops /\ c.path \in Seq(Elements) /\ c.new \in Seq(Elements)
<1> DEFINE a == [Idle EXCEPT !.op = c.op]
           b == [a EXCEPT !.new = c.new]
<1>1. c.op \in Ops /\ c.path \in Seq(Elements) /\ c.new \in Seq(Elements) /\ c.wr \in BOOLEAN
  BY InodeAssumption DEF CallType
<1>2. t = [b EXCEPT !.wr = c.wr]
  OBVIOUS
<1>3. Called(a, Idle, c.op, Idle.new, Idle.wr)
  BY <1>1, IdleIs, SetOp
<1>4. Called(b, a, a.op, c.new, a.wr)
  <2> HIDE DEF a
  <2> QED
    BY <1>1, <1>3, SetNew DEF Called
<1> HIDE DEF a, b
<1>5. Called(t, b, b.op, b.new, c.wr)
  <2>1. b \in ThreadType
    BY <1>4 DEF Called
  <2>2. Called([b EXCEPT !.wr = c.wr], b, b.op, b.new, c.wr)
    BY <1>1, <2>1, SetWr
  <2> QED
    BY <1>2, <2>2, Zenon
<1>6. /\ t \in ThreadType /\ t.op = c.op /\ t.new = c.new /\ t.w = Idle.w /\ t.ip = Idle.ip /\ t.put = Idle.put
      /\ t.path = Idle.path /\ t.ok = Idle.ok /\ t.ret = Idle.ret
  BY <1>3, <1>4, <1>5 DEF Called
<1> QED
  BY <1>1, <1>6 DEF Idle

\* A call begins.
LEMMA BeginFs ==
  ASSUME IInv, IInv', FsInv, CallsStayOut, NEW p \in Procs, NEW c \in Calls, begin(p, c)
  PROVE  FsInv'
<1> DEFINE t == [Idle EXCEPT !.op = c.op, !.new = c.new, !.wr = c.wr]
<1>1. /\ th[p].pc = "idle" /\ disk' = disk /\ icache' = icache /\ lock' = lock /\ cwd' = cwd /\ panicked' = panicked
  BY DEF begin, At
<1>2. Only(p)
  BY BeginStep DEF Keeps
<1>3. /\ t \in ThreadType /\ t.op = c.op /\ t.new = c.new /\ t.w = Nil /\ t.ip = Nil /\ t.put = Nil
      /\ t.path = <<>> /\ t.ok = "none" /\ t.ret = "none"
      /\ c.op \in Ops /\ c.path \in Seq(Elements) /\ c.new \in Seq(Elements)
  BY CallIs
<1>4. CacheStep(p)
  BY <1>1, <1>2, StillCache DEF LockStep
<1>5. ~Owes(th[p])
  BY <1>1, DebtIs
<1>6. /\ KeptPath(c.path) /\ KeptPath(c.new)
      /\ c.path # <<>> /\ c.op = "chdir" => Last(c.path) \notin Removable
      /\ c.path # <<>> /\ c.op = "unlink" => Last(c.path) \notin Names \ Removable
  <2>1. KeptPath(c.path) /\ KeptPath(c.new)
    <3> SUFFICES ASSUME NEW q \in {c.path, c.new}, NEW k \in 1..(Len(q) - 1) PROVE q[k] \notin Removable
      BY DEF KeptPath
    <3>1. q \in Seq(Elements)
      BY <1>3
    <3>2. k \in 1..Len(q) /\ k < Len(q)
      BY <3>1
    <3> QED
      BY <3>2 DEF CallsStayOut
  <2>2. ASSUME c.path # <<>>, c.op = "chdir" PROVE Last(c.path) \notin Removable
    <3>1. Len(c.path) \in 1..Len(c.path)
      BY <1>3, <2>2
    <3> QED
      BY <2>2, <3>1 DEF CallsStayOut, Last
  <2>3. ASSUME c.path # <<>>, c.op = "unlink" PROVE Last(c.path) \notin Names \ Removable
    BY <2>3 DEF Removable, Last
  <2> QED
    BY <2>1, <2>2, <2>3
<1>7. Quiet(p) => icache'[cwd'[p]].inum \in Kept'
  BY <1>1, <1>4, CwdStays, QuietInv DEF FsInv
<1>8. CASE c.op = "close"
  <2> DEFINE u == Put(t, ofile[p].ip, "end")
  <2>1. th' = [th EXCEPT ![p] = u] /\ ofile' = [ofile EXCEPT ![p] = NoFile]
    BY <1>8 DEF begin
  <2> HIDE DEF t
  <2>2. Moves(u, t, "iput", t.path, t.w, t.ip, ofile[p].ip, "end")
    BY <1>3, PutIs, ThreadIs, Labels
  <2> HIDE DEF u
  <2>3. th'[p] = u /\ cwd'[p] = cwd[p] /\ ofile'[p].ip = Nil
    BY <1>1, <2>1 DEF IInv, TypeOK, NoFile
  <2>4. /\ th'[p].pc = "iput" /\ th'[p].w = Nil /\ th'[p].ip = Nil /\ th'[p].put = ofile[p].ip /\ th'[p].ret = "end"
        /\ th'[p].op = "close"
    BY <1>3, <1>8, <2>2, <2>3 DEF Moves
  <2>5. Where(th'[p]) = "end"
    <3>1. RefsOk(th'[p])
      BY DEF IInv, LocalInv, RefsOk, Where
    <3> QED
      BY <2>4, <3>1 DEF RefsOk, Where, Putting
  <2>6. Quiet(p)
    BY <1>1, <1>4, <1>5, <2>5 DEF Quiet, Owes, Dropping, Linking, Looking, Parents, Leaves
  <2>7. NamedUses(p)
    BY <2>3, <2>4 DEF NamedUses, Uses
  <2>8. Own(p)'
    BY <1>7, <2>4, <2>5, <2>6, RestOwn DEF Rest
  <2> QED
    BY <1>1, <2>6, <2>7, <2>8, QuietStep
<1>9. CASE c.op = "write"
  <2> DEFINE u == [t EXCEPT !.pc = "write"]
  <2>1. th' = [th EXCEPT ![p] = u] /\ ofile' = ofile
    BY <1>9 DEF begin
  <2> HIDE DEF t
  <2>2. Moves(u, t, "write", t.path, t.w, t.ip, t.put, t.ret)
    BY <1>3, SetPc, Labels
  <2> HIDE DEF u
  <2>3. th'[p] = u /\ cwd'[p] = cwd[p] /\ ofile'[p] = ofile[p]
    BY <1>1, <2>1 DEF IInv, TypeOK
  <2>4. th'[p].pc = "write" /\ th'[p].w = Nil /\ th'[p].ip = Nil /\ th'[p].put = Nil /\ th'[p].op = "write"
    BY <1>3, <1>9, <2>2, <2>3 DEF Moves
  <2>5. Where(th'[p]) = "write"
    BY <2>4 DEF Where
  <2>6. Quiet(p)
    BY <1>1, <1>4, <1>5, <2>5 DEF Quiet, Owes, Dropping, Linking, Looking, Parents, Leaves
  <2>7. NamedUses(p)
    BY <2>3, <2>4 DEF NamedUses, Uses
  <2>8. Own(p)'
    BY <1>7, <2>4, <2>5, <2>6, RestOwn DEF Rest
  <2> QED
    BY <1>1, <2>6, <2>7, <2>8, QuietStep
<1>10. ASSUME NEW par \in BOOLEAN, NEW ok \in {"create", "unlink", "open", "chdir", "link"},
              ok \in {"chdir", "unlink"} => c.op = ok, c.op # "close",
              th' = [th EXCEPT ![p] = Lookup(t, c.path, par, ok, "end")]
       PROVE  FsInv'
  <2> DEFINE u == Lookup(t, c.path, par, ok, "end")
  <2>1. th' = [th EXCEPT ![p] = u] /\ ofile' = ofile
    BY <1>10 DEF begin
  <2> HIDE DEF t
  <2>2. ok \in PCs /\ "end" \in PCs
    BY DEF PCs
  <2>3. /\ u.pc = "start" /\ u.path = c.path /\ u.ok = ok
        /\ u.op = t.op /\ u.new = t.new /\ u.w = t.w /\ u.ip = t.ip /\ u.put = t.put
    BY <1>3, <2>2, LookupIs
  <2> HIDE DEF u
  <2>4. th'[p] = u /\ cwd'[p] = cwd[p] /\ ofile'[p] = ofile[p]
    BY <1>1, <2>1 DEF IInv, TypeOK
  <2>5. /\ th'[p].pc = "start" /\ th'[p].path = c.path /\ th'[p].ok = ok /\ th'[p].new = c.new
        /\ th'[p].w = Nil /\ th'[p].ip = Nil /\ th'[p].put = Nil
    BY <1>3, <2>3, <2>4
  <2>6. Where(th'[p]) = "start"
    BY <2>5 DEF Where
  <2>7. Quiet(p)
    BY <1>1, <1>4, <1>5, <2>5, <2>6 DEF Quiet, Owes, Dropping, Linking, Looking, Parents, Leaves
  <2>8. NamedUses(p)
    BY <2>4, <2>5 DEF NamedUses, Uses
  <2>9. WayOk(th[p])'
    BY <1>6, <1>10, <2>5, <2>6 DEF WayOk, KeptPath, Last, Parents
  <2>10. WalkOk(p)'
    BY <1>7, <2>6, <2>7 DEF WalkOk, InDir, Walking, Parents, Ino, Where
  <2>11. HoldOk(p)' /\ FillOk(p)' /\ EraseOk(p)' /\ FreeOk(p)'
    BY <2>5, <2>6 DEF HoldOk, Held, FillOk, EraseOk, FreeOk, Where
  <2>12. Own(p)'
    BY <2>9, <2>10, <2>11 DEF Own
  <2> QED
    BY <1>1, <2>7, <2>8, <2>12, QuietStep
<1>11. CASE c.op \in {"create", "mkdir"}
  <2>1. th' = [th EXCEPT ![p] = Lookup(t, c.path, TRUE, "create", "end")]
    BY <1>11 DEF begin
  <2> QED
    BY <1>10, <1>11, <2>1
<1>12. CASE c.op = "unlink"
  <2>1. th' = [th EXCEPT ![p] = Lookup(t, c.path, TRUE, "unlink", "end")]
    BY <1>12 DEF begin
  <2> QED
    BY <1>10, <1>12, <2>1
<1>13. CASE c.op \in {"open", "chdir", "link"}
  <2>1. th' = [th EXCEPT ![p] = Lookup(t, c.path, FALSE, c.op, "end")]
    BY <1>13 DEF begin
  <2> QED
    BY <1>10, <1>13, <2>1
<1> QED
  BY <1>3, <1>8, <1>9, <1>11, <1>12, <1>13 DEF Ops

-----------------------------------------------------------------------------
(***************************************************************************)
(* What changes of inodes do to the tree: I before, J after.               *)
(***************************************************************************)
\* The part of IsTree that is about single inodes.
Sound(I) == \A i \in Inums : /\ I[i].type = "free" => I[i] = Free
                             /\ I[i].type # "dir" => I[i].ents = NoEnts

\* Entries of a directory.
LEMMA EntryOf ==
  ASSUME NEW I \in [Inums -> InodeType], NEW d \in Inums, NEW n \in Entries
  PROVE  I[d].ents[n] \in Inums \cup {Nil}
<1>1. I[d].ents \in [Entries -> Inums \cup {Nil}]
  BY DEF InodeType
<1> QED
  BY <1>1

\* The directories L have the entries they had.
LEMMA SameNames ==
  ASSUME NEW I, NEW J, NEW L, \A d \in L : J[d].ents = I[d].ents
  PROVE  KeptIn(J, L) = KeptIn(I, L) /\ \A i : NamesOf(J, L, i) = NamesOf(I, L, i)
BY DEF KeptIn, NamesOf

\* No named inode becomes a directory.
LEMMA TreeSame ==
  ASSUME NEW I \in [Inums -> InodeType], NEW J \in [Inums -> InodeType], NEW L \in SUBSET Inums, IsTree(I, L), Sound(J),
         \A d \in L : J[d].ents = I[d].ents,
         \A d \in L : \A n \in Names : I[d].ents[n] # Nil /\ J[I[d].ents[n]].type = "dir" => I[I[d].ents[n]].type = "dir"
  PROVE  IsTree(J, L)
<1>1. KeptIn(J, L) = KeptIn(I, L)
  BY SameNames
<1>2. ROOTINO \in L /\ J[ROOTINO].ents[".."] = ROOTINO
  BY DEF IsTree
<1>3. ASSUME NEW d \in L
      PROVE  /\ J[d].ents["."] = d /\ J[d].ents[".."] \in KeptIn(J, L)
             /\ d # ROOTINO => \E n \in Names : J[J[d].ents[".."]].ents[n] = d
  <2>1. I[d].ents[".."] \in KeptIn(I, L) /\ I[d].ents["."] = d /\ (d # ROOTINO => \E n \in Names : I[I[d].ents[".."]].ents[n] = d)
    BY DEF IsTree
  <2>2. I[d].ents[".."] \in L
    BY <2>1 DEF KeptIn
  <2> QED
    BY <1>1, <2>1, <2>2
<1>4. ASSUME NEW d \in L, NEW n \in Names, NEW i, i = J[d].ents[n], i # Nil, J[i].type = "dir"
      PROVE  i \in L \ {ROOTINO} /\ J[i].ents[".."] = d /\ \A m \in Names : J[d].ents[m] = i => m = n
  <2>1. i = I[d].ents[n] /\ I[i].type = "dir"
    BY <1>4
  <2>2. i \in L \ {ROOTINO} /\ I[i].ents[".."] = d /\ \A m \in Names : I[d].ents[m] = i => m = n
    BY <1>4, <2>1 DEF IsTree
  <2> QED
    BY <2>2
<1> QED
  BY <1>2, <1>3, <1>4 DEF IsTree, Sound

\* The names that directories have besides those of IsTree are those in use.
LEMMA FreeName ==
  ASSUME NEW I, NEW L, IsTree(I, L), L \subseteq Inums, NEW d \in L, NEW n \in Entries, I[d].ents[n] = Nil
  PROVE  n \in Names
<1>1. I[d].ents["."] \in Inums /\ I[d].ents[".."] \in Inums
  BY DEF IsTree, KeptIn
<1> QED
  BY <1>1, NilSlot DEF Entries

\* A pair is its two elements.
LEMMA PairIs ==
  ASSUME NEW S, NEW T, NEW e \in S \X T, NEW x, NEW y
  PROVE  e[1] \in S /\ e[2] \in T /\ (e = <<x, y>> <=> e[1] = x /\ e[2] = y)
<1>1. PICK a \in S, b \in T : e = <<a, b>>
  OBVIOUS
<1> QED
  BY <1>1

\* In the tree I a directory d gets the name n for i, which is no directory.
Enrols(I, J, L, d, n, i) ==
  /\ I \in [Inums -> InodeType] /\ J \in [Inums -> InodeType] /\ L \in SUBSET Inums /\ IsTree(I, L) /\ Sound(J)
  /\ d \in L /\ n \in Names /\ I[d].ents[n] = Nil /\ i \in Inums \ L /\ J[i].type # "dir"
  /\ \A k \in Inums : J[k].type = I[k].type
  /\ J[d].ents = [I[d].ents EXCEPT ![n] = i]
  /\ \A k \in L \ {d} : J[k].ents = I[k].ents
Enrolled(I, J, L, d, n, i) ==
  /\ IsTree(J, L) /\ KeptIn(J, L) = KeptIn(I, L)
  /\ \A j \in Inums \ {i} : NamesOf(J, L, j) = NamesOf(I, L, j)
  /\ NamesOf(J, L, i) = NamesOf(I, L, i) \cup {<<d, n>>}
  /\ <<d, n>> \notin NamesOf(I, L, i)

\* A file gets a name.
LEMMA TreeName ==
  ASSUME NEW I, NEW J, NEW L, NEW d, NEW n, NEW i, Enrols(I, J, L, d, n, i)
  PROVE  Enrolled(I, J, L, d, n, i)
<1> SUFFICES ASSUME I \in [Inums -> InodeType], J \in [Inums -> InodeType], L \in SUBSET Inums, IsTree(I, L), Sound(J),
                    d \in L, n \in Names, I[d].ents[n] = Nil, i \in Inums \ L, J[i].type # "dir",
                    \A k \in Inums : J[k].type = I[k].type,
                    J[d].ents = [I[d].ents EXCEPT ![n] = i], \A k \in L \ {d} : J[k].ents = I[k].ents
             PROVE  /\ IsTree(J, L) /\ KeptIn(J, L) = KeptIn(I, L)
                    /\ \A j \in Inums \ {i} : NamesOf(J, L, j) = NamesOf(I, L, j)
                    /\ NamesOf(J, L, i) = NamesOf(I, L, i) \cup {<<d, n>>}
                    /\ <<d, n>> \notin NamesOf(I, L, i)
  BY Zenon DEF Enrols, Enrolled
<1>0. I[d].ents \in [Entries -> Inums \cup {Nil}] /\ n \in Entries \ {".", ".."} /\ d \in Inums /\ i # Nil
  BY InodeAssumption, NilSlot DEF InodeType, Entries
<1>1. \A k \in L : \A m \in Entries : J[k].ents[m] = IF k = d /\ m = n THEN i ELSE I[k].ents[m]
  BY <1>0
<1>2. KeptIn(J, L) = KeptIn(I, L)
  <2>1. ASSUME NEW k \in L, NEW a \in L, NEW m \in Names PROVE J[a].ents[m] = k <=> I[a].ents[m] = k
    BY <1>0, <1>1, NilSlot DEF Entries
  <2> QED
    BY <2>1 DEF KeptIn
<1>3. \A j \in Inums \ {i} : NamesOf(J, L, j) = NamesOf(I, L, j)
  <2> SUFFICES ASSUME NEW j \in Inums \ {i}, NEW e \in Inums \X (Entries \ {"."}), e[1] \in L
               PROVE  J[e[1]].ents[e[2]] = j <=> I[e[1]].ents[e[2]] = j
    BY DEF NamesOf
  <2> QED
    BY <1>1, NilSlot
<1>4. NamesOf(J, L, i) = NamesOf(I, L, i) \cup {<<d, n>>}
  <2>1. ASSUME NEW e \in Inums \X (Entries \ {"."}), e[1] \in L
        PROVE  J[e[1]].ents[e[2]] = i <=> (I[e[1]].ents[e[2]] = i \/ e = <<d, n>>)
    <3>1. e[2] \in Entries /\ (e = <<d, n>> <=> e[1] = d /\ e[2] = n)
      BY PairIs
    <3> QED
      BY <1>0, <1>1, <2>1, <3>1
  <2>2. <<d, n>> \in Inums \X (Entries \ {"."})
    BY <1>0
  <2> QED
    BY <2>1, <2>2 DEF NamesOf
<1>5. <<d, n>> \notin NamesOf(I, L, i)
  BY <1>0 DEF NamesOf
<1>6. ROOTINO \in L /\ J[ROOTINO].ents[".."] = ROOTINO
  BY <1>0, <1>1 DEF IsTree, Entries
<1>7. ASSUME NEW k \in L
      PROVE  /\ J[k].ents["."] = k /\ J[k].ents[".."] \in KeptIn(J, L)
             /\ k # ROOTINO => \E m \in Names : J[J[k].ents[".."]].ents[m] = k
  <2>1. I[k].ents[".."] \in KeptIn(I, L) /\ I[k].ents["."] = k /\ (k # ROOTINO => \E m \in Names : I[I[k].ents[".."]].ents[m] = k)
    BY DEF IsTree
  <2>2. J[k].ents["."] = k /\ J[k].ents[".."] = I[k].ents[".."]
    BY <1>0, <1>1, <2>1 DEF Entries
  <2>3. I[k].ents[".."] \in L
    BY <2>1 DEF KeptIn
  <2>4. ASSUME NEW m \in Names, I[I[k].ents[".."]].ents[m] = k PROVE J[I[k].ents[".."]].ents[m] = k
    BY <1>1, <2>3, <2>4, NilSlot DEF Entries
  <2> QED
    BY <1>2, <2>1, <2>2, <2>4
<1>8. ASSUME NEW k \in L, NEW m \in Names, NEW j, j = J[k].ents[m], j # Nil, J[j].type = "dir"
      PROVE  j \in L \ {ROOTINO} /\ J[j].ents[".."] = k /\ \A l \in Names : J[k].ents[l] = j => l = m
  <2>1. j # i
    BY <1>8
  <2>2. j = I[k].ents[m] /\ j \in Inums
    BY <1>1, <1>8, <2>1, EntryOf DEF Entries
  <2>3. j \in L \ {ROOTINO} /\ I[j].ents[".."] = k /\ \A l \in Names : I[k].ents[l] = j => l = m
    BY <1>8, <2>2 DEF IsTree
  <2> QED
    BY <1>0, <1>1, <2>1, <2>3 DEF Entries
<1> QED
  BY <1>2, <1>3, <1>4, <1>5, <1>6, <1>7, <1>8 DEF IsTree, Sound

\* In the tree I a directory d that stays gets the new directory i, empty, as n.
Fills(I, J, L, d, n, i) ==
  /\ I \in [Inums -> InodeType] /\ J \in [Inums -> InodeType] /\ L \in SUBSET Inums /\ IsTree(I, L) /\ Sound(J)
  /\ d \in KeptIn(I, L) /\ n \in Names /\ I[d].ents[n] = Nil /\ i \in Inums \ L /\ NamesOf(I, L, i) = {}
  /\ \A k \in Inums : J[k].type = I[k].type
  /\ J[d].ents = [I[d].ents EXCEPT ![n] = i]
  /\ \A k \in L \ {d} : J[k].ents = I[k].ents
  /\ J[i].ents["."] = i /\ J[i].ents[".."] = d
  /\ \A m \in Names : J[i].ents[m] = Nil
Filled(I, J, L, d, n, i) ==
  /\ IsTree(J, L \cup {i}) /\ KeptIn(I, L) \subseteq KeptIn(J, L \cup {i})
  /\ \A j \in Inums \ {i, d} : NamesOf(J, L \cup {i}, j) = NamesOf(I, L, j)
  /\ NamesOf(J, L \cup {i}, i) = {<<d, n>>}
  /\ NamesOf(J, L \cup {i}, d) = NamesOf(I, L, d) \cup {<<i, "..">>}
  /\ <<i, "..">> \notin NamesOf(I, L, d)

\* A directory is made: i, which had no name, is n in d.
LEMMA TreeFill ==
  ASSUME NEW I, NEW J, NEW L, NEW d, NEW n, NEW i, Fills(I, J, L, d, n, i)
  PROVE  Filled(I, J, L, d, n, i)
<1> SUFFICES ASSUME I \in [Inums -> InodeType], J \in [Inums -> InodeType], L \in SUBSET Inums, IsTree(I, L), Sound(J),
                    d \in KeptIn(I, L), n \in Names, I[d].ents[n] = Nil, i \in Inums \ L, NamesOf(I, L, i) = {},
                    \A k \in Inums : J[k].type = I[k].type,
                    J[d].ents = [I[d].ents EXCEPT ![n] = i], \A k \in L \ {d} : J[k].ents = I[k].ents,
                    J[i].ents["."] = i, J[i].ents[".."] = d, \A m \in Names : J[i].ents[m] = Nil
             PROVE  /\ IsTree(J, L \cup {i}) /\ KeptIn(I, L) \subseteq KeptIn(J, L \cup {i})
                    /\ \A j \in Inums \ {i, d} : NamesOf(J, L \cup {i}, j) = NamesOf(I, L, j)
                    /\ NamesOf(J, L \cup {i}, i) = {<<d, n>>}
                    /\ NamesOf(J, L \cup {i}, d) = NamesOf(I, L, d) \cup {<<i, "..">>}
                    /\ <<i, "..">> \notin NamesOf(I, L, d)
  BY Zenon DEF Fills, Filled
<1> DEFINE M == L \cup {i}
<1>0. /\ I[d].ents \in [Entries -> Inums \cup {Nil}] /\ n \in Entries \ {".", ".."} /\ d \in Inums /\ i # Nil /\ d \in L /\ d # i
      /\ ".." \in Entries \ {"."} /\ "." \in Entries
  BY ZenonT(60), InodeAssumption, NilSlot DEF InodeType, Entries, KeptIn
<1>1. \A k \in L : \A m \in Entries : J[k].ents[m] = IF k = d /\ m = n THEN i ELSE I[k].ents[m]
  BY <1>0
<1>2. \A k \in L : \A m \in Entries : m # "." => I[k].ents[m] # i
  <2> SUFFICES ASSUME NEW k \in L, NEW m \in Entries, m # ".", I[k].ents[m] = i PROVE FALSE
    OBVIOUS
  <2>1. <<k, m>> \in NamesOf(I, L, i)
    BY DEF NamesOf
  <2> QED
    BY <2>1
<1>3. KeptIn(I, L) \subseteq KeptIn(J, M)
  <2>1. ASSUME NEW k \in L, NEW a \in L, NEW m \in Names, I[a].ents[m] = k PROVE J[a].ents[m] = k
    BY <1>0, <1>1, <2>1, NilSlot DEF Entries
  <2> QED
    BY <2>1 DEF KeptIn
<1>4. ASSUME NEW e \in Inums \X (Entries \ {"."}), e[1] \in M, NEW j \in Inums
      PROVE  J[e[1]].ents[e[2]] = j <=> \/ e[1] \in L /\ I[e[1]].ents[e[2]] = j
                                        \/ e = <<d, n>> /\ j = i
                                        \/ e = <<i, "..">> /\ j = d
  <2>1. e[2] \in Entries \ {"."} /\ (e = <<d, n>> <=> e[1] = d /\ e[2] = n) /\ (e = <<i, "..">> <=> e[1] = i /\ e[2] = "..")
    BY PairIs
  <2>2. CASE e[1] = i
    <3>1. i \notin L
      OBVIOUS
    <3>2. e[2] # ".." => J[i].ents[e[2]] = Nil
      BY <2>1 DEF Entries
    <3> QED
      BY <1>0, <2>1, <2>2, <3>1, <3>2, NilSlot
  <2>3. CASE e[1] # i
    BY <1>0, <1>1, <1>2, <1>4, <2>1, <2>3, NilSlot
  <2> QED
    BY <2>2, <2>3
<1>5. <<d, n>> \in Inums \X (Entries \ {"."}) /\ <<i, "..">> \in Inums \X (Entries \ {"."})
  BY <1>0
<1>6. \A j \in Inums \ {i, d} : NamesOf(J, M, j) = NamesOf(I, L, j)
  BY <1>4 DEF NamesOf
<1>7. NamesOf(J, M, i) = {<<d, n>>}
  <2>1. ASSUME NEW e \in Inums \X (Entries \ {"."}), e[1] \in L PROVE I[e[1]].ents[e[2]] # i
    BY <1>2, <2>1, PairIs
  <2> QED
    BY <1>0, <1>4, <1>5, <2>1 DEF NamesOf
<1>8. NamesOf(J, M, d) = NamesOf(I, L, d) \cup {<<i, "..">>} /\ <<i, "..">> \notin NamesOf(I, L, d)
  BY <1>0, <1>4, <1>5 DEF NamesOf
<1>9. ROOTINO \in L /\ J[ROOTINO].ents[".."] = ROOTINO
  BY <1>0, <1>1 DEF IsTree
<1>10. ASSUME NEW k \in M
      PROVE  /\ J[k].ents["."] = k /\ J[k].ents[".."] \in KeptIn(J, M)
             /\ k # ROOTINO => \E m \in Names : J[J[k].ents[".."]].ents[m] = k
  <2>1. CASE k = i
    BY <1>0, <1>1, <1>3, <2>1
  <2>2. CASE k # i
    <3>1. /\ I[k].ents[".."] \in KeptIn(I, L) /\ I[k].ents["."] = k /\ k \in L
          /\ k # ROOTINO => \E m \in Names : I[I[k].ents[".."]].ents[m] = k
      BY <2>2 DEF IsTree
    <3>2. J[k].ents["."] = k /\ J[k].ents[".."] = I[k].ents[".."]
      BY <1>0, <1>1, <3>1
    <3>3. I[k].ents[".."] \in L
      BY <3>1 DEF KeptIn
    <3>4. ASSUME NEW m \in Names, I[I[k].ents[".."]].ents[m] = k PROVE J[I[k].ents[".."]].ents[m] = k
      BY <1>1, <3>3, <3>4, NilSlot DEF Entries
    <3> QED
      BY <1>3, <3>1, <3>2, <3>4
  <2> QED
    BY <2>1, <2>2
<1>11. ASSUME NEW k \in M, NEW m \in Names, NEW j, j = J[k].ents[m], j # Nil, J[j].type = "dir"
      PROVE  j \in M \ {ROOTINO} /\ J[j].ents[".."] = k /\ \A l \in Names : J[k].ents[l] = j => l = m
  <2>1. k \in L
    BY <1>11
  <2>2. Names \subseteq Entries
    BY DEF Entries
  <2>3. CASE k = d /\ m = n
    <3>1. j = i
      BY <1>1, <1>11, <2>2, <2>3
    <3>2. \A l \in Names : l # n => J[d].ents[l] # i
      BY <1>0, <1>1, <1>2, <2>2
    <3> QED
      BY <1>9, <2>3, <3>1, <3>2
  <2>4. CASE ~(k = d /\ m = n)
    <3>1. j = I[k].ents[m] /\ j \in Inums /\ j # i
      BY <1>0, <1>1, <1>2, <1>11, <2>1, <2>2, <2>4, EntryOf
    <3>2. j \in L \ {ROOTINO} /\ I[j].ents[".."] = k /\ \A l \in Names : I[k].ents[l] = j => l = m
      BY <1>11, <2>1, <3>1 DEF IsTree
    <3> QED
      BY <1>0, <1>1, <2>1, <2>2, <3>1, <3>2
  <2> QED
    BY <2>3, <2>4
<1> HIDE DEF M
<1>12. IsTree(J, M)
  <2>1. ROOTINO \in M
    BY <1>9 DEF M
  <2> QED
    BY <1>9, <1>10, <1>11, <2>1 DEF IsTree, Sound
<1> QED
  BY <1>3, <1>6, <1>7, <1>8, <1>12 DEF M

\* A directory whose name calls may unlink is not one that stays.
LEMMA NotKept ==
  ASSUME NEW I \in [Inums -> InodeType], NEW L \in SUBSET Inums, IsTree(I, L), NEW d \in L, NEW n \in Removable,
         NEW i \in Inums, I[d].ents[n] = i, I[i].type = "dir"
  PROVE  i \in L \ {ROOTINO} /\ i \notin KeptIn(I, L) /\ I[i].ents[".."] = d
<1>1. n \in Names /\ i # Nil
  BY NilSlot DEF Removable
<1>2. i \in L \ {ROOTINO} /\ I[i].ents[".."] = d /\ \A m \in Names : I[d].ents[m] = i => m = n
  BY <1>1 DEF IsTree
<1>3. ASSUME NEW a \in L, NEW m \in Names \ Removable, I[a].ents[m] = i PROVE FALSE
  <2>1. I[i].ents[".."] = a
    BY <1>1, <1>3 DEF IsTree
  <2> QED
    BY <1>2, <1>3, <2>1
<1> QED
  BY <1>2, <1>3 DEF KeptIn

\* Of the tree I a directory d that stays loses the name n of i, which is no
\* directory or an empty one.
Erases(I, J, L, d, n, i) ==
  /\ I \in [Inums -> InodeType] /\ J \in [Inums -> InodeType] /\ L \in SUBSET Inums /\ IsTree(I, L) /\ Sound(J)
  /\ d \in KeptIn(I, L) /\ n \in Removable /\ i \in Inums /\ I[d].ents[n] = i
  /\ i \in L <=> I[i].type = "dir"
  /\ i \in L => \A m \in Names : I[i].ents[m] = Nil
  /\ \A k \in Inums : J[k].type = I[k].type
  /\ J[d].ents = [I[d].ents EXCEPT ![n] = Nil]
  /\ \A k \in Inums \ {d} : J[k].ents = I[k].ents
Erased(I, J, L, d, n, i) ==
  /\ IsTree(J, L \ {i}) /\ KeptIn(J, L \ {i}) = KeptIn(I, L) /\ i \notin KeptIn(I, L)
  /\ \A j \in Inums \ {i, d} : NamesOf(J, L \ {i}, j) = NamesOf(I, L, j)
  /\ NamesOf(J, L \ {i}, i) = NamesOf(I, L, i) \ {<<d, n>>} /\ <<d, n>> \in NamesOf(I, L, i)
  /\ i \notin L /\ d # i => NamesOf(J, L \ {i}, d) = NamesOf(I, L, d)
  /\ i \in L => NamesOf(J, L \ {i}, d) = NamesOf(I, L, d) \ {<<i, "..">>} /\ <<i, "..">> \in NamesOf(I, L, d)

\* A name is erased; a directory that loses its name is empty.
LEMMA TreeErase ==
  ASSUME NEW I, NEW J, NEW L, NEW d, NEW n, NEW i, Erases(I, J, L, d, n, i)
  PROVE  Erased(I, J, L, d, n, i)
<1> SUFFICES ASSUME I \in [Inums -> InodeType], J \in [Inums -> InodeType], L \in SUBSET Inums, IsTree(I, L), Sound(J),
                    d \in KeptIn(I, L), n \in Removable, i \in Inums, I[d].ents[n] = i,
                    i \in L <=> I[i].type = "dir", i \in L => \A m \in Names : I[i].ents[m] = Nil,
                    \A k \in Inums : J[k].type = I[k].type,
                    J[d].ents = [I[d].ents EXCEPT ![n] = Nil], \A k \in Inums \ {d} : J[k].ents = I[k].ents
             PROVE  /\ IsTree(J, L \ {i}) /\ KeptIn(J, L \ {i}) = KeptIn(I, L) /\ i \notin KeptIn(I, L)
                    /\ \A j \in Inums \ {i, d} : NamesOf(J, L \ {i}, j) = NamesOf(I, L, j)
                    /\ NamesOf(J, L \ {i}, i) = NamesOf(I, L, i) \ {<<d, n>>} /\ <<d, n>> \in NamesOf(I, L, i)
                    /\ i \notin L /\ d # i => NamesOf(J, L \ {i}, d) = NamesOf(I, L, d)
                    /\ i \in L => /\ NamesOf(J, L \ {i}, d) = NamesOf(I, L, d) \ {<<i, "..">>}
                                  /\ <<i, "..">> \in NamesOf(I, L, d)
  BY Zenon DEF Erases, Erased
<1> DEFINE M == L \ {i}
<1>0. /\ I[d].ents \in [Entries -> Inums \cup {Nil}] /\ n \in Entries \ {".", ".."} /\ d \in Inums /\ i # Nil /\ d \in L
      /\ ".." \in Entries \ {"."} /\ "." \in Entries /\ n \in Names /\ Names \subseteq Entries
  BY InodeAssumption, NilSlot DEF InodeType, Entries, KeptIn, Removable
<1>1. \A k \in Inums : \A m \in Entries : J[k].ents[m] = IF k = d /\ m = n THEN Nil ELSE I[k].ents[m]
  BY <1>0
<1>2. i \in L => i # ROOTINO /\ i \notin KeptIn(I, L) /\ I[i].ents[".."] = d
  BY <1>0, NotKept
<1>3. i \notin KeptIn(I, L) /\ d # i
  BY <1>2 DEF KeptIn
<1>4. KeptIn(J, M) = KeptIn(I, L)
  <2>1. ASSUME NEW k \in Inums, NEW a \in L, NEW m \in Names \ Removable PROVE a \in M /\ J[a].ents[m] = k <=> I[a].ents[m] = k
    BY <1>0, <1>1, NilSlot
  <2>2. KeptIn(J, M) \subseteq KeptIn(I, L)
    BY <2>1 DEF KeptIn
  <2>3. KeptIn(I, L) \subseteq KeptIn(J, M)
    BY <1>3, <2>1 DEF KeptIn
  <2> QED
    BY <2>2, <2>3
<1>5. ASSUME NEW e \in Inums \X (Entries \ {"."}), NEW j \in Inums, e[1] \in L
      PROVE  e[1] \in M /\ J[e[1]].ents[e[2]] = j <=> I[e[1]].ents[e[2]] = j /\ e # <<d, n>> /\ ~(e = <<i, "..">> /\ i \in L)
  <2>1. e[2] \in Entries \ {"."} /\ (e = <<d, n>> <=> e[1] = d /\ e[2] = n) /\ (e = <<i, "..">> <=> e[1] = i /\ e[2] = "..")
    BY PairIs
  <2>2. CASE e[1] = i
    <3>1. e[2] # ".." => I[i].ents[e[2]] = Nil
      BY <1>5, <2>1, <2>2 DEF Entries
    <3> QED
      BY <1>5, <2>1, <2>2, <3>1, NilSlot
  <2>3. CASE e[1] # i
    BY <1>1, <1>5, <2>1, <2>3, NilSlot
  <2> QED
    BY <2>2, <2>3
<1>6. <<d, n>> \in Inums \X (Entries \ {"."}) /\ <<i, "..">> \in Inums \X (Entries \ {"."}) /\ <<d, n>>[1] = d /\ <<i, "..">>[1] = i
  BY <1>0
<1>7. I[<<d, n>>[1]].ents[<<d, n>>[2]] = i /\ (i \in L => I[<<i, "..">>[1]].ents[<<i, "..">>[2]] = d) /\ <<d, n>> # <<i, "..">>
  BY <1>0, <1>2
<1>8. \A j \in Inums : \A e \in NamesOf(J, M, j) : e \in NamesOf(I, L, j) /\ e # <<d, n>> /\ ~(e = <<i, "..">> /\ i \in L)
  BY <1>5 DEF NamesOf
<1>9. \A j \in Inums : \A e \in NamesOf(I, L, j) : e # <<d, n>> /\ ~(e = <<i, "..">> /\ i \in L) => e \in NamesOf(J, M, j)
  BY <1>5 DEF NamesOf
<1>10. /\ <<d, n>> \in NamesOf(I, L, i) /\ \A j \in Inums \ {i} : <<d, n>> \notin NamesOf(I, L, j)
       /\ i \in L => <<i, "..">> \in NamesOf(I, L, d) /\ \A j \in Inums \ {d} : <<i, "..">> \notin NamesOf(I, L, j)
  BY <1>0, <1>6, <1>7 DEF NamesOf
<1>11. ROOTINO \in M /\ J[ROOTINO].ents[".."] = ROOTINO
  BY <1>0, <1>1, <1>2 DEF IsTree
<1>12. ASSUME NEW k \in M
       PROVE  /\ J[k].ents["."] = k /\ J[k].ents[".."] \in KeptIn(J, M)
              /\ k # ROOTINO => \E m \in Names : J[J[k].ents[".."]].ents[m] = k
  <2>1. /\ I[k].ents[".."] \in KeptIn(I, L) /\ I[k].ents["."] = k
        /\ k # ROOTINO => \E m \in Names : I[I[k].ents[".."]].ents[m] = k
    BY DEF IsTree
  <2>2. J[k].ents["."] = k /\ J[k].ents[".."] = I[k].ents[".."]
    BY <1>0, <1>1, <2>1
  <2>3. I[k].ents[".."] \in Inums
    BY <2>1 DEF KeptIn
  <2>4. ASSUME NEW m \in Names, I[I[k].ents[".."]].ents[m] = k PROVE J[I[k].ents[".."]].ents[m] = k
    BY <1>0, <1>1, <2>3, <2>4
  <2> QED
    BY <1>4, <2>1, <2>2, <2>4
<1>13. ASSUME NEW k \in M, NEW m \in Names, NEW j, j = J[k].ents[m], j # Nil, J[j].type = "dir"
       PROVE  j \in M \ {ROOTINO} /\ J[j].ents[".."] = k /\ \A l \in Names : J[k].ents[l] = j => l = m
  <2>1. ~(k = d /\ m = n) /\ j = I[k].ents[m] /\ j \in Inums /\ I[j].type = "dir"
    BY <1>0, <1>1, <1>13, EntryOf
  <2>2. j \in L \ {ROOTINO} /\ I[j].ents[".."] = k /\ \A l \in Names : I[k].ents[l] = j => l = m
    BY <1>13, <2>1 DEF IsTree
  <2>3. j # i
    BY <1>0, <1>2, <2>1, <2>2
  <2>4. J[j].ents[".."] = k
    BY <1>0, <1>1, <2>1, <2>2
  <2>5. \A l \in Names : J[k].ents[l] = j => l = m
    BY <1>0, <1>1, <1>13, <2>2
  <2> QED
    BY <2>2, <2>3, <2>4, <2>5
<1> HIDE DEF M
<1>14. IsTree(J, M)
  BY <1>11, <1>12, <1>13 DEF IsTree, Sound
<1>15. /\ \A j \in Inums \ {i, d} : NamesOf(J, M, j) = NamesOf(I, L, j)
       /\ NamesOf(J, M, i) = NamesOf(I, L, i) \ {<<d, n>>}
       /\ i \notin L => NamesOf(J, M, d) = NamesOf(I, L, d)
       /\ i \in L => NamesOf(J, M, d) = NamesOf(I, L, d) \ {<<i, "..">>}
  <2>1. ASSUME NEW j \in Inums \ {i, d} PROVE NamesOf(J, M, j) = NamesOf(I, L, j)
    <3>1. NamesOf(J, M, j) \subseteq NamesOf(I, L, j)
      BY <1>8
    <3>2. NamesOf(I, L, j) \subseteq NamesOf(J, M, j)
      BY <1>9, <1>10
    <3> QED
      BY <3>1, <3>2
  <2>2. NamesOf(J, M, i) = NamesOf(I, L, i) \ {<<d, n>>}
    BY <1>3, <1>8, <1>9, <1>10
  <2>3. ASSUME i \notin L PROVE NamesOf(J, M, d) = NamesOf(I, L, d)
    <3>1. NamesOf(J, M, d) \subseteq NamesOf(I, L, d)
      BY <1>0, <1>8
    <3>2. NamesOf(I, L, d) \subseteq NamesOf(J, M, d)
      BY SMTT(60), <1>0, <1>3, <1>9, <1>10, <2>3
    <3> QED
      BY <3>1, <3>2
  <2>4. ASSUME i \in L PROVE NamesOf(J, M, d) = NamesOf(I, L, d) \ {<<i, "..">>}
    BY SMTT(60), <1>0, <1>3, <1>8, <1>9, <1>10, <2>4
  <2> QED
    BY <2>1, <2>2, <2>3, <2>4
<1> QED
  BY <1>3, <1>4, <1>10, <1>14, <1>15 DEF M

-----------------------------------------------------------------------------
(***************************************************************************)
(* Steps that write inodes.                                                *)
(***************************************************************************)
\* The others owe what they owed: the count follows p.
LEMMA OwingCount ==
  ASSUME IInv, IInv', CallInv, NEW p \in Procs, CacheStep(p), NEW i
  PROVE  /\ Cardinality(Owing(i)) \in Nat /\ Cardinality(Owing(i)') \in Nat
         /\ Cardinality(Owing(i)') + (IF p \in Owing(i) THEN 1 ELSE 0)
              = Cardinality(Owing(i)) + (IF p \in Owing(i)' THEN 1 ELSE 0)
<1>1. Owing(i) \in SUBSET Procs /\ Owing(i)' \in SUBSET Procs
  BY DEF Owing
<1>2. \A q \in Procs \ {p} : q \in Owing(i) <=> q \in Owing(i)'
  BY OwingMoves DEF Owing, Ino
<1> QED
  BY <1>1, <1>2, CountMoves

\* The inodes that are losing their last step of unlink.
Dropped(i) == \E q \in Procs : Dropping(th[q]) /\ Ino(th[q].ip) = i

\* As p owes what it owed, everything does.
LEMMA DebtsStay ==
  ASSUME IInv, IInv', CallInv, NEW p \in Procs, CacheStep(p), Owes(th'[p]) <=> Owes(th[p]),
         Dropping(th'[p]) <=> Dropping(th[p]), Owes(th[p]) => th'[p].ip = th[p].ip
  PROVE  \A i : Owing(i)' = Owing(i) /\ (Dropped(i)' <=> Dropped(i))
<1>1. \A q \in Procs : /\ Owes(th'[q]) <=> Owes(th[q])
                       /\ Dropping(th'[q]) <=> Dropping(th[q])
                       /\ Owes(th[q]) => icache'[th'[q].ip].inum = Ino(th[q].ip)
  BY DebtStays
<1> QED
  BY <1>1 DEF Owing, Dropped, Ino, Owes

\* What p drops is all that can change.
LEMMA DroppedMoves ==
  ASSUME IInv, IInv', CallInv, NEW p \in Procs, CacheStep(p), NEW i, Dropping(th[p]) => Ino(th[p].ip) # i,
         Dropping(th'[p]) => icache'[th'[p].ip].inum # i
  PROVE  Dropped(i)' <=> Dropped(i)
<1>1. \A q \in Procs \ {p} : /\ Dropping(th'[q]) <=> Dropping(th[q])
                             /\ Dropping(th[q]) => icache'[th'[q].ip].inum = Ino(th[q].ip)
  BY OwingMoves DEF Owes
<1> QED
  BY <1>1 DEF Dropped, Ino

\* The directories with a name.
LEMMA LiveIs ==
  /\ Live = {i \in Inums : disk.inode[i].type = "dir" /\ disk.inode[i].nlink > 0 /\ ~Dropped(i)}
  /\ Live' = {i \in Inums : disk'.inode[i].type = "dir" /\ disk'.inode[i].nlink > 0 /\ ~Dropped(i)'}
BY DEF Live, Dropped

\* What is left to show of a step.
LEMMA DiskFs ==
  ASSUME IInv, IInv', FsInv, NEW p \in Procs, CacheStep(p), DiskStep(p), NewUses(p), CallOk(p)',
         TreeInv', CountInv', BlockInv', NoPanic'
  PROVE  FsInv'
<1>1. \A q \in Procs \ {p} : CallOk(q)'
  BY OthersOk DEF FsInv
<1>2. CallInv'
  BY <1>1 DEF CallInv
<1> QED
  BY <1>2 DEF FsInv

\* p uses what it used.
LEMMA UseStays ==
  ASSUME IInv, IInv', CallInv, NEW p \in Procs, CacheStep(p), Uses(p)' \subseteq Uses(p) \cup {Nil},
         \A j \in Inums : disk'.inode[j].type = disk.inode[j].type
  PROVE  UseOk(p)' /\ NewUses(p)
<1>1. ASSUME NEW s \in Uses(p)' \ {Nil} PROVE disk'.inode[icache'[s].inum].type # "free"
  <2>1. s \in Slots /\ icache'[s].ref > 0
    BY <1>1, UsesNext
  <2>2. icache[s].ref > 0 /\ Node(s).type # "free" /\ Ino(s) \in Inums
    BY <1>1, UsesIs DEF CallInv, CallOk, UseOk
  <2> QED
    BY <2>1, <2>2 DEF CacheStep, Node, Ino
<1> QED
  BY <1>1 DEF UseOk, NewUses, Node

\* p writes an inode whose lock it has or takes.
LEMMA WriteStepIs ==
  ASSUME IInv, NEW p \in Procs, NEW z \in Uses(p) \ {Nil}, lock[z] \in {p, Nobody},
         \A j \in Inums \ {Ino(z)} : disk'.inode[j] = disk.inode[j],
         \A j \in Inums : disk'.inode[j].type = disk.inode[j].type, Kept \subseteq Kept'
  PROVE  DiskStep(p)
BY DEF DiskStep

\* The call ends or goes on without a directory.
LEMMA RestFs ==
  ASSUME IInv, IInv', FsInv, NEW p \in Procs, CacheStep(p), DiskStep(p), TreeInv', CountInv', BlockInv',
         Uses(p)' \subseteq Uses(p) \cup {Nil}, \A j \in Inums : disk'.inode[j].type = disk.inode[j].type,
         cwd'[p] = cwd[p], Where(th'[p]) \in {"idle", "end", "link_done"}, th'[p].pc # "ifree",
         th'[p].op = "link" => KeptPath(th'[p].new), panicked' = panicked
  PROVE  FsInv'
<1>1. CallInv
  BY DEF FsInv
<1>2. UseOk(p)' /\ NewUses(p)
  BY <1>1, UseStays
<1>3. icache'[cwd'[p]].inum \in Kept'
  BY <1>1, CwdStays DEF DiskStep
<1>4. Own(p)'
  BY <1>3, RestOwn DEF Rest
<1>5. DropOk(p)' /\ LinkOk(p)'
  BY DEF DropOk, LinkOk, Dropping, Linking, Looking, Parents, Leaves, Where
<1>6. CallOk(p)'
  BY <1>2, <1>4, <1>5 DEF CallOk, Own
<1>7. NoPanic'
  BY DEF FsInv, NoPanic
<1> QED
  BY <1>2, <1>6, <1>7, DiskFs

\* Blocks belong to whom they belonged.
LEMMA BlockSame ==
  ASSUME BlockInv, disk'.bitmap = disk.bitmap, \A j \in Inums : disk'.inode[j].addr = disk.inode[j].addr
  PROVE  BlockInv'
BY DEF BlockInv

\* The number of links of inode i and what p owes it change together.
LEMMA CountStep ==
  ASSUME IInv, IInv', FsInv, NEW p \in Procs, CacheStep(p), NEW i \in Inums, disk'.bitmap = disk.bitmap,
         \A j \in Inums \ {i} : disk'.inode[j] = disk.inode[j],
         disk'.inode[i].type = disk.inode[i].type, disk'.inode[i].ents = disk.inode[i].ents,
         disk'.inode[i].addr = disk.inode[i].addr, disk.inode[i].type # "free",
         disk.inode[i].type = "dir" => i \notin Live /\ disk'.inode[i].nlink = 0,
         \A j \in Inums \ {i} : p \notin Owing(j) /\ p \notin Owing(j)',
         ~Dropping(th'[p]), Dropping(th[p]) => Ino(th[p].ip) = i,
         disk'.inode[i].nlink + (IF p \in Owing(i) THEN 1 ELSE 0) = disk.inode[i].nlink + (IF p \in Owing(i)' THEN 1 ELSE 0)
  PROVE  Kept' = Kept /\ TreeInv' /\ CountInv' /\ BlockInv'
<1> DEFINE I == disk.inode
           J == disk'.inode
<1>1. CallInv /\ TreeInv /\ CountInv /\ BlockInv
  BY DEF FsInv
<1>2. I \in [Inums -> InodeType] /\ J \in [Inums -> InodeType]
  BY DEF IInv, TypeOK
<1>3. \A j \in Inums : J[j].type = I[j].type /\ J[j].ents = I[j].ents /\ J[j].addr = I[j].addr
  OBVIOUS
<1>4. Live' = Live
  <2>1. \A j \in Inums \ {i} : Dropped(j)' <=> Dropped(j)
    BY <1>1, DroppedMoves
  <2>2. i \in Live' <=> i \in Live
    BY <1>3, LiveIs
  <2> QED
    BY <1>3, <2>1, <2>2, LiveIs
<1>5. Live \in SUBSET Inums
  BY DEF Live
<1>6. Kept' = Kept /\ \A j : NamesOf(J, Live, j) = NamesOf(I, Live, j)
  BY SMTT(60), <1>3, <1>4, <1>5, SameNames DEF Kept
<1>7. TreeInv'
  <2>1. IsTree(I, Live)
    BY <1>1 DEF TreeInv
  <2>2. Sound(J)
    BY <1>3, <2>1 DEF IsTree, Sound
  <2>3. \A d \in Live : \A n \in Names : I[d].ents[n] # Nil /\ J[I[d].ents[n]].type = "dir" => I[I[d].ents[n]].type = "dir"
    <3> SUFFICES ASSUME NEW d \in Live, NEW n \in Names, I[d].ents[n] # Nil PROVE J[I[d].ents[n]].type = I[I[d].ents[n]].type
      BY SMTT(60)
    <3>1. I[d].ents[n] \in Inums
      BY <1>2, <1>5, EntryOf DEF Entries
    <3> QED
      BY <1>3, <3>1
  <2>4. IsTree(J, Live)
    BY SMTT(60), <1>2, <1>3, <1>5, <2>1, <2>2, <2>3, TreeSame
  <2> QED
    BY <1>4, <2>4 DEF TreeInv
<1>8. CountInv'
  <2> SUFFICES ASSUME NEW j \in Inums PROVE J[j].nlink = Cardinality(NamesOf(I, Live, j)) + Cardinality(Owing(j)')
    BY <1>4, <1>6 DEF CountInv
  <2>1. I[j].nlink = Cardinality(NamesOf(I, Live, j)) + Cardinality(Owing(j))
    BY <1>1 DEF CountInv
  <2>2. /\ Cardinality(Owing(j)) \in Nat /\ Cardinality(Owing(j)') \in Nat
        /\ Cardinality(Owing(j)') + (IF p \in Owing(j) THEN 1 ELSE 0)
              = Cardinality(Owing(j)) + (IF p \in Owing(j)' THEN 1 ELSE 0)
    BY <1>1, OwingCount
  <2>3. Cardinality(NamesOf(I, Live, j)) \in Nat
    BY NamesFinite
  <2>4. J[j].nlink \in Int
    BY <1>2 DEF InodeType
  <2>5. CASE j = i
    BY <2>1, <2>2, <2>3, <2>4, <2>5
  <2>6. CASE j # i
    BY <2>1, <2>2, <2>3, <2>6
  <2> QED
    BY <2>5, <2>6
<1>9. BlockInv'
  BY <1>1, <1>3, BlockSame
<1> QED
  BY <1>6, <1>7, <1>8, <1>9

\* p writes an inode that it has changed in the cache.
LEMMA UpdateStep ==
  ASSUME IInv, NEW p \in Procs, Only(p), LockStep(p), NEW s \in Slots, icache[s].ref > 0,
         NEW e, Follows(e, icache[s]), e.valid, icache' = [icache EXCEPT ![s] = e], disk' = iupdate(disk, e)
  PROVE  /\ CacheStep(p) /\ (\A r \in Slots : icache'[r].inum = icache[r].inum) /\ disk'.bitmap = disk.bitmap
         /\ SameAttr(disk'.inode[Ino(s)], e) /\ disk'.inode[Ino(s)].ents = Node(s).ents
         /\ \A j \in Inums \ {Ino(s)} : disk'.inode[j] = disk.inode[j]
<1>1. e \in EntryType /\ e.inum = Ino(s) /\ e.inum \in Inums /\ disk \in DiskType
  BY EntryIs, TypesAre DEF Follows, Ino
<1>2. /\ disk'.bitmap = disk.bitmap /\ SameAttr(disk'.inode[e.inum], e)
      /\ disk'.inode[e.inum].ents = disk.inode[e.inum].ents
      /\ \A j \in Inums \ {e.inum} : disk'.inode[j] = disk.inode[j]
  BY <1>1, UpdateIs
<1>3. icache'[s] = e /\ \A r \in Slots \ {s} : icache'[r] = icache[r]
  BY TypesAre
<1>4. \A r \in Slots : icache'[r].inum = icache[r].inum /\ (icache[r].valid => icache'[r].valid)
  BY <1>1, <1>3 DEF Ino
<1>5. \A r \in Slots : lock[r] \notin {p, Nobody} => lock'[r] = lock[r]
  BY TypesAre DEF LockStep
<1>6. CacheStep(p)
  BY <1>4, <1>5 DEF CacheStep
<1> QED
  BY <1>1, <1>2, <1>4, <1>6 DEF Node, Ino

\* Only the number of links changes.
LEMMA NlinkStep ==
  ASSUME IInv, NEW p \in Procs, Only(p), LockStep(p), NEW s \in Slots, icache[s].ref > 0,
         NEW e, Follows(e, icache[s]), e.valid, e.type = Node(s).type, e.addr = Node(s).addr,
         icache' = [icache EXCEPT ![s] = e], disk' = iupdate(disk, e)
  PROVE  /\ CacheStep(p) /\ (\A r \in Slots : icache'[r].inum = icache[r].inum) /\ disk'.bitmap = disk.bitmap
         /\ disk'.inode[Ino(s)].type = disk.inode[Ino(s)].type /\ disk'.inode[Ino(s)].addr = disk.inode[Ino(s)].addr
         /\ disk'.inode[Ino(s)].ents = disk.inode[Ino(s)].ents /\ disk'.inode[Ino(s)].nlink = e.nlink
         /\ \A j \in Inums \ {Ino(s)} : disk'.inode[j] = disk.inode[j]
<1>1. /\ CacheStep(p) /\ (\A r \in Slots : icache'[r].inum = icache[r].inum) /\ disk'.bitmap = disk.bitmap
      /\ SameAttr(disk'.inode[Ino(s)], e) /\ disk'.inode[Ino(s)].ents = Node(s).ents
      /\ \A j \in Inums \ {Ino(s)} : disk'.inode[j] = disk.inode[j]
  BY UpdateStep
<1> QED
  BY <1>1 DEF SameAttr, Node, Ino

\* ip->nlink-- of link_bad and of unlink.
LEMMA LessFs ==
  ASSUME IInv, IInv', FsInv, NEW p \in Procs, th[p].pc \in {"link_bad", "unlink_drop"}, LockStep(p),
         th' = [th EXCEPT ![p] = Put([th[p] EXCEPT !.ip = Nil], th[p].ip, "end")], UNCHANGED <<cwd, ofile, panicked>>,
         lock[th[p].ip] \in {p, Nobody}, NEW e, Follows(e, icache[th[p].ip]), e.valid,
         e.type = Node(th[p].ip).type, e.addr = Node(th[p].ip).addr, e.nlink = Node(th[p].ip).nlink - 1,
         icache' = [icache EXCEPT ![th[p].ip] = e], disk' = iupdate(disk, e)
  PROVE  FsInv'
<1> DEFINE t == th[p]
<1>1. t.put = Nil /\ t.ip \in Slots /\ icache[t.ip].ref > 0 /\ t.ip # Nil /\ t.w = Nil /\ Ino(t.ip) \in Inums
  BY HasIp, HasNot, NilSlot DEF WithIp, Ino
<1> PICK i \in Inums : i = Ino(t.ip)
  BY <1>1
<1>2. Owes(t) /\ Where(t) = t.pc /\ t.ip \in Uses(p) \ {Nil} /\ (Dropping(t) <=> t.pc = "unlink_drop")
  BY <1>1, DebtIs DEF Owes, Putting, Uses
<1>3. CallOk(p) /\ CallInv
  BY DEF FsInv, CallInv
<1>4. Only(p) /\ Moves(th'[p], t, "iput", t.path, t.w, Nil, t.ip, "end") /\ cwd'[p] = cwd[p] /\ ofile'[p] = ofile[p]
  BY PutIpGoes, Labels
<1>5. disk.inode[i].nlink \in Int
  BY <1>1 DEF IInv, TypeOK, InodeType
<1>6. /\ CacheStep(p) /\ (\A r \in Slots : icache'[r].inum = icache[r].inum) /\ disk'.bitmap = disk.bitmap
      /\ disk'.inode[i].type = disk.inode[i].type /\ disk'.inode[i].addr = disk.inode[i].addr
      /\ disk'.inode[i].ents = disk.inode[i].ents /\ disk'.inode[i].nlink = e.nlink
      /\ \A j \in Inums \ {i} : disk'.inode[j] = disk.inode[j]
  BY ZenonT(60), <1>1, <1>4, NlinkStep
<1>7. disk'.inode[i].nlink = disk.inode[i].nlink - 1
  BY ZenonT(60), <1>6 DEF Node, Ino
<1>8. /\ th'[p].pc = "iput" /\ th'[p].w = Nil /\ th'[p].ip = Nil /\ th'[p].put = t.ip /\ th'[p].ret = "end"
      /\ th'[p].op = t.op /\ th'[p].new = t.new
  BY <1>1, <1>4 DEF Moves
<1>9. Where(th'[p]) = "end"
  BY <1>1, <1>8 DEF Where
<1>10. ~Owes(th'[p]) /\ ~Dropping(th'[p])
  BY <1>9 DEF Owes, Dropping, Linking, Looking, Parents, Leaves
<1>11. p \in Owing(i) /\ \A j \in Inums : p \notin Owing(j)' /\ (j # i => p \notin Owing(j))
  BY <1>2, <1>10 DEF Owing
<1>12. disk.inode[i].type = "dir" => i \notin Live /\ disk'.inode[i].nlink = 0
  <2>1. Linking(t) => disk.inode[i].type = "file"
    BY SMTT(60), <1>3 DEF CallOk, LinkOk, Node, Ino
  <2>2. Dropping(t) /\ disk.inode[i].type = "dir" => disk.inode[i].nlink = 1
    BY <1>3 DEF CallOk, DropOk, Node, Ino
  <2>3. Dropping(t) => i \notin Live
    BY SMTT(60) DEF Live
  <2> HIDE DEF t
  <2> QED
    BY <1>2, <1>7, <2>1, <2>2, <2>3 DEF Owes
<1>13. disk.inode[i].type # "free"
  BY <1>2, <1>3 DEF CallOk, UseOk, Node, Ino
<1>14. \A j \in Inums : disk'.inode[j].type = disk.inode[j].type
  BY <1>6
<1>15. Uses(p)' \subseteq Uses(p) \cup {Nil}
  BY <1>1, <1>4, <1>8 DEF Uses
<1>16. th'[p].op = "link" => KeptPath(th'[p].new)
  BY <1>3, <1>8 DEF CallOk, WayOk
<1>17. Dropping(th[p]) => Ino(th[p].ip) = i
  OBVIOUS
<1>18. disk'.inode[i].nlink + (IF p \in Owing(i) THEN 1 ELSE 0) = disk.inode[i].nlink + (IF p \in Owing(i)' THEN 1 ELSE 0)
  BY SMTT(60), <1>1, <1>5, <1>7, <1>11
<1>19. Kept' = Kept /\ TreeInv' /\ CountInv' /\ BlockInv'
  BY <1>1, <1>6, <1>10, <1>11, <1>12, <1>13, <1>17, <1>18, CountStep
<1>20. DiskStep(p)
  BY <1>2, <1>6, <1>14, <1>19, WriteStepIs
<1> QED
  BY <1>4, <1>6, <1>8, <1>9, <1>14, <1>15, <1>16, <1>19, <1>20, RestFs

\* unlink has erased the name and counts it off; the inode is still locked.
LEMMA UnlinkDropFs == ASSUME IInv, IInv', FsInv, NEW p \in Procs, unlink_drop(p) PROVE FsInv'
<1> DEFINE t == th[p]
           x == icache[t.ip]
           e == [x EXCEPT !.nlink = x.nlink - 1]
<1>1. /\ t.pc = "unlink_drop" /\ icache' = [icache EXCEPT ![t.ip] = e] /\ disk' = iupdate(disk, e)
      /\ lock' = [lock EXCEPT ![t.ip] = Nobody]
      /\ th' = [th EXCEPT ![p] = Put([t EXCEPT !.ip = Nil], t.ip, "end")]
      /\ cwd' = cwd /\ ofile' = ofile /\ panicked' = panicked
  BY DEF unlink_drop, At
<1>2. t.put = Nil /\ t.ip \in Slots /\ icache[t.ip].ref > 0
  BY <1>1, HasIp DEF WithIp
<1>3. lock[t.ip] = p /\ x.valid
  <2>1. HoldOk(p)
    BY DEF FsInv, CallInv, CallOk
  <2>2. t.ip \in Held(t)
    BY <1>1, DebtIs DEF Held, Putting
  <2> QED
    BY <2>1, <2>2 DEF HoldOk
<1>4. x \in EntryType /\ Known(Node(t.ip), x)
  BY <1>2, <1>3, EntryIs DEF Node
<1>5. Follows(e, x) /\ e.valid = x.valid /\ e.type = x.type /\ e.addr = x.addr /\ e.nlink = x.nlink - 1
  <2> HIDE DEF x
  <2>1. x.nlink - 1 \in Int
    BY <1>4 DEF EntryType
  <2> QED
    BY <1>4, <2>1, NlinkIs
<1> HIDE DEF e
<1>6. e.type = Node(t.ip).type /\ e.addr = Node(t.ip).addr /\ e.nlink = Node(t.ip).nlink - 1
  BY <1>4, <1>5 DEF Known, SameAttr
<1>7. LockStep(p)
  BY <1>1, <1>2, <1>3 DEF LockStep
<1> QED
  BY <1>1, <1>3, <1>5, <1>6, <1>7, LessFs

\* link has failed and takes the count back.
LEMMA LinkBadFs == ASSUME IInv, IInv', FsInv, NEW p \in Procs, link_bad(p) PROVE FsInv'
<1> DEFINE t == th[p]
           l == Loaded(t.ip)
           e == [l EXCEPT !.nlink = l.nlink - 1]
<1>1. /\ t.pc = "link_bad" /\ Lockable(t.ip) /\ icache' = [icache EXCEPT ![t.ip] = e] /\ disk' = iupdate(disk, e)
      /\ th' = [th EXCEPT ![p] = Put([t EXCEPT !.ip = Nil], t.ip, "end")]
      /\ lock' = lock /\ cwd' = cwd /\ ofile' = ofile /\ panicked' = panicked
  BY DEF link_bad, At
<1>2. t.put = Nil /\ t.ip \in Slots /\ icache[t.ip].ref > 0
  BY <1>1, HasIp DEF WithIp
<1>3. Follows(l, icache[t.ip]) /\ l.valid /\ Known(Node(t.ip), l) /\ l \in EntryType
  BY <1>1, <1>2, LoadedIs DEF Follows, Node
<1> HIDE DEF l
<1>4. Follows(e, l) /\ e.valid = l.valid /\ e.type = l.type /\ e.addr = l.addr /\ e.nlink = l.nlink - 1
  <2>1. l.nlink - 1 \in Int
    BY <1>3 DEF EntryType
  <2> QED
    BY <1>3, <2>1, NlinkIs
<1> HIDE DEF e
<1>5. /\ Follows(e, icache[t.ip]) /\ e.valid
      /\ e.type = Node(t.ip).type /\ e.addr = Node(t.ip).addr /\ e.nlink = Node(t.ip).nlink - 1
  BY <1>3, <1>4 DEF Follows, Known, SameAttr
<1>6. LockStep(p) /\ lock[t.ip] \in {p, Nobody}
  BY <1>1 DEF LockStep, Lockable
<1> QED
  BY <1>1, <1>5, <1>6, LessFs

\* sys_link counts the name that it is going to write.
LEMMA LinkFileFs ==
  ASSUME IInv, IInv', FsInv, NEW p \in Procs, th[p].pc = "link", lock' = lock, UNCHANGED <<cwd, ofile, panicked>>,
         th' = [th EXCEPT ![p] = Lookup([th[p] EXCEPT !.w = Nil, !.ip = th[p].w], th[p].new, TRUE, "dirlink", "link_bad")],
         lock[th[p].w] = Nobody, NEW e, Follows(e, icache[th[p].w]), e.valid, e.type # "dir",
         e.type = Node(th[p].w).type, e.addr = Node(th[p].w).addr, e.nlink = Node(th[p].w).nlink + 1,
         icache' = [icache EXCEPT ![th[p].w] = e], disk' = iupdate(disk, e)
  PROVE  FsInv'
<1> DEFINE t == th[p]
           t1 == [t EXCEPT !.w = Nil, !.ip = t.w]
           u == Lookup(t1, t.new, TRUE, "dirlink", "link_bad")
<1>1. t.put = Nil /\ t.w \in Slots /\ icache[t.w].ref > 0 /\ t.w # Nil /\ t.ip = Nil /\ Ino(t.w) \in Inums /\ ~Owes(t)
  BY HasW, HasNot, NilSlot, DebtIs DEF WithW, Leaves, Ino
<1> PICK i \in Inums : i = Ino(t.w)
  BY <1>1
<1>2. CallOk(p) /\ CallInv
  BY DEF FsInv, CallInv
<1>3. Moves(t1, t, t.pc, t.path, Nil, t.w, t.put, t.ret) /\ t.new \in Seq(Elements) /\ t.op = "link" /\ t \in ThreadType
  <2>1. t \in ThreadType /\ LocalOk(t) /\ t.w \in Slots \cup {Nil} /\ t.new \in Seq(Elements)
    BY ThreadIs
  <2>2. t.op = "link"
    BY <1>1, <2>1 DEF LocalOk, LookOk, Where, Looking, Parents, Leaves
  <2> QED
    BY <2>1, <2>2, SetWIp
<1>4. /\ u \in ThreadType /\ u.pc = "start" /\ u.path = t.new /\ u.ok = "dirlink"
      /\ u.op = t1.op /\ u.new = t1.new /\ u.w = t1.w /\ u.ip = t1.ip /\ u.put = t1.put
  <2>1. t1 \in ThreadType /\ "dirlink" \in PCs /\ "link_bad" \in PCs
    BY <1>3 DEF Moves, PCs
  <2> HIDE DEF t1
  <2>2. ASSUME NEW b \in BOOLEAN
        PROVE  LET v == Lookup(t1, t.new, b, "dirlink", "link_bad") IN
               /\ v \in ThreadType /\ v.pc = "start" /\ v.path = t.new /\ v.ok = "dirlink"
               /\ v.op = t1.op /\ v.new = t1.new /\ v.w = t1.w /\ v.ip = t1.ip /\ v.put = t1.put
    BY <1>3, <2>1, LookupIs
  <2> QED
    BY <2>2
<1>5. th' = [th EXCEPT ![p] = u]
  OBVIOUS
<1> HIDE DEF t1, u
<1>6. Only(p) /\ th'[p] = u /\ cwd'[p] = cwd[p] /\ ofile'[p] = ofile[p]
  BY <1>4, <1>5, ThreadSet DEF IInv
<1>7. /\ th'[p].pc = "start" /\ th'[p].w = Nil /\ th'[p].ip = t.w /\ th'[p].put = Nil /\ th'[p].ok = "dirlink"
      /\ th'[p].op = "link" /\ th'[p].new = t.new /\ th'[p].path = t.new
  BY ZenonT(60), <1>1, <1>3, <1>4, <1>6 DEF Moves
<1>8. Where(th'[p]) = "start"
  BY <1>7 DEF Where
<1>9. Owes(th'[p]) /\ ~Dropping(th'[p])
  BY <1>7, <1>8 DEF Owes, Dropping, Linking, Looking
<1>10. disk.inode[i].nlink \in Int
  BY DEF IInv, TypeOK, InodeType
<1>11. /\ CacheStep(p) /\ (\A r \in Slots : icache'[r].inum = icache[r].inum) /\ disk'.bitmap = disk.bitmap
       /\ disk'.inode[i].type = disk.inode[i].type /\ disk'.inode[i].addr = disk.inode[i].addr
       /\ disk'.inode[i].ents = disk.inode[i].ents /\ disk'.inode[i].nlink = e.nlink
       /\ \A j \in Inums \ {i} : disk'.inode[j] = disk.inode[j]
  BY ZenonT(60), <1>1, <1>6, NlinkStep DEF LockStep
<1>12. disk'.inode[i].nlink = disk.inode[i].nlink + 1 /\ disk.inode[i].type # "dir"
  BY ZenonT(60), <1>11 DEF Node, Ino
<1>13. p \in Owing(i)' /\ \A j \in Inums : p \notin Owing(j) /\ (j # i => p \notin Owing(j)')
  <2>1. icache'[th'[p].ip].inum = i
    BY ZenonT(60), <1>1, <1>7, <1>11 DEF Ino
  <2> QED
    BY <1>1, <1>9, <2>1 DEF Owing, Ino
<1>14. disk.inode[i].type = "file"
  <2>1. t.w \in Uses(p) \ {Nil}
    BY <1>1 DEF Uses
  <2>2. disk.inode[i].type # "free" /\ disk.inode[i].type \in Types
    BY <1>2, <2>1 DEF CallOk, UseOk, Node, Ino, IInv, TypeOK, InodeType
  <2> QED
    BY <1>12, <2>2 DEF Types
<1>15. \A j \in Inums : disk'.inode[j].type = disk.inode[j].type
  BY <1>11
<1>16. Uses(p)' \subseteq Uses(p) \cup {Nil}
  BY <1>1, <1>6, <1>7 DEF Uses
<1>17. disk'.inode[i].nlink + (IF p \in Owing(i) THEN 1 ELSE 0) = disk.inode[i].nlink + (IF p \in Owing(i)' THEN 1 ELSE 0)
  BY <1>10, <1>12, <1>13
<1>18. ~Dropping(t)
  BY SMTT(60), <1>1 DEF Owes
<1>19. Kept' = Kept /\ TreeInv' /\ CountInv' /\ BlockInv'
  BY <1>9, <1>11, <1>12, <1>13, <1>14, <1>17, <1>18, CountStep
<1>20. DiskStep(p)
  <2>1. t.w \in Uses(p) \ {Nil}
    BY <1>1 DEF Uses
  <2> QED
    BY <2>1, <1>11, <1>15, <1>19, WriteStepIs
<1>21. UseOk(p)' /\ NewUses(p)
  BY <1>2, <1>11, <1>15, <1>16, UseStays
<1>22. WayOk(th'[p])
  <2>1. KeptPath(t.new)
    BY <1>2, <1>3 DEF CallOk, WayOk
  <2> QED
    BY <1>7, <1>8, <2>1 DEF WayOk, Parents
<1>23. WalkOk(p)'
  <2>1. icache'[cwd'[p]].inum \in Kept'
    BY <1>2, <1>6, <1>11, <1>19, CwdStays
  <2> QED
    BY <1>8, <2>1 DEF WalkOk, InDir, Walking, Parents, Ino
<1>24. HoldOk(p)' /\ FillOk(p)' /\ EraseOk(p)' /\ DropOk(p)' /\ FreeOk(p)'
  BY <1>7, <1>8 DEF HoldOk, Held, FillOk, EraseOk, DropOk, Dropping, FreeOk
<1>25. LinkOk(p)'
  <2>1. icache'[th'[p].ip].inum = i
    BY <1>1, <1>7, <1>11 DEF Ino
  <2>2. disk'.inode[icache'[th'[p].ip].inum].type = "file"
    BY <1>14, <1>15, <2>1
  <2> QED
    BY <2>2 DEF LinkOk, Node
<1>26. CallOk(p)' /\ NoPanic'
  BY <1>21, <1>22, <1>23, <1>24, <1>25 DEF CallOk, FsInv, NoPanic
<1> QED
  BY <1>11, <1>19, <1>20, <1>21, <1>26, DiskFs

\* sys_link looks at the inode it is to link.
LEMMA LinkFs == ASSUME IInv, IInv', FsInv, NEW p \in Procs, sys_link(p) PROVE FsInv'
<1> DEFINE t == th[p]
           l == Loaded(t.w)
           e == [l EXCEPT !.nlink = l.nlink + 1]
<1>1. t.pc = "link" /\ Lockable(t.w) /\ lock' = lock /\ cwd' = cwd /\ ofile' = ofile /\ panicked' = panicked
  BY DEF sys_link, At
<1>2. t.put = Nil /\ t.ip = Nil /\ t.w \in Slots /\ icache[t.w].ref > 0 /\ t.w # Nil /\ ~Owes(t)
  BY <1>1, HasW, HasNot, NilSlot, DebtIs DEF WithW, Leaves
<1>3. CASE e.type = "dir"
  <2>1. /\ icache' = [icache EXCEPT ![t.w] = l] /\ disk' = disk
        /\ th' = [th EXCEPT ![p] = Put([t EXCEPT !.w = Nil], t.w, "end")]
    BY <1>3 DEF sys_link
  <2>2. Only(p) /\ Moves(th'[p], t, "iput", t.path, Nil, t.ip, t.w, "end") /\ cwd'[p] = cwd[p] /\ ofile'[p] = ofile[p]
    BY <1>1, <2>1, PutWGoes, Labels
  <2>3. CacheStep(p)
    BY <1>1, <1>2, <2>1, <2>2, LoadCache DEF LockStep
  <2> QED
    BY <1>1, <1>2, <2>1, <2>2, <2>3, PutRest DEF Owes
<1>4. CASE e.type # "dir"
  <2>1. /\ icache' = [icache EXCEPT ![t.w] = e] /\ disk' = iupdate(disk, e)
        /\ th' = [th EXCEPT ![p] = Lookup([t EXCEPT !.w = Nil, !.ip = t.w], t.new, TRUE, "dirlink", "link_bad")]
    BY <1>4 DEF sys_link
  <2>2. Follows(l, icache[t.w]) /\ l.valid /\ Known(Node(t.w), l) /\ l \in EntryType
    BY <1>1, <1>2, LoadedIs DEF Follows, Node
  <2> HIDE DEF l
  <2>3. Follows(e, l) /\ e.valid = l.valid /\ e.type = l.type /\ e.addr = l.addr /\ e.nlink = l.nlink + 1
    <3>1. l.nlink + 1 \in Int
      BY <2>2 DEF EntryType
    <3> QED
      BY <2>2, <3>1, NlinkIs
  <2> HIDE DEF e
  <2>4. /\ Follows(e, icache[t.w]) /\ e.valid
        /\ e.type = Node(t.w).type /\ e.addr = Node(t.w).addr /\ e.nlink = Node(t.w).nlink + 1
    BY <2>2, <2>3 DEF Follows, Known, SameAttr
  <2>5. lock[t.w] = Nobody
    BY <1>1 DEF Lockable
  <2> QED
    BY <1>1, <1>4, <2>1, <2>4, <2>5, LinkFileFs
<1> QED
  BY <1>3, <1>4

-----------------------------------------------------------------------------
(***************************************************************************)
(* Steps that write names.                                                 *)
(***************************************************************************)
\* A directory k gets new entries; nothing else is written.
LEMMA EntsWritten ==
  ASSUME NEW d \in DiskType, NEW k \in Inums, NEW f \in [Entries -> Inums \cup {Nil}]
  PROVE  /\ [d EXCEPT !.inode[k].ents = f] \in DiskType
         /\ [d EXCEPT !.inode[k].ents = f].bitmap = d.bitmap
         /\ [d EXCEPT !.inode[k].ents = f].inode[k].ents = f
         /\ \A j \in Inums : SameAttr([d EXCEPT !.inode[k].ents = f].inode[j], d.inode[j])
         /\ \A j \in Inums \ {k} : [d EXCEPT !.inode[k].ents = f].inode[j] = d.inode[j]
<1> DEFINE x == d.inode[k]
           y == [x EXCEPT !.ents = f]
           r == [d EXCEPT !.inode[k].ents = f]
<1>1. d.inode \in [Inums -> InodeType] /\ x \in InodeType /\ d.bitmap \in SUBSET Blocks
  BY DEF DiskType
<1>2. d = [inode |-> d.inode, bitmap |-> d.bitmap]
  BY DEF DiskType
<1>3. r = [d EXCEPT !.inode = [d.inode EXCEPT ![k] = y]]
  OBVIOUS
<1>4. SUFFICES /\ r \in DiskType /\ r.bitmap = d.bitmap /\ r.inode[k].ents = f
               /\ \A j \in Inums : SameAttr(r.inode[j], d.inode[j])
               /\ \A j \in Inums \ {k} : r.inode[j] = d.inode[j]
  BY Zenon
<1> HIDE DEF r
<1>5. r = [inode |-> [d.inode EXCEPT ![k] = y], bitmap |-> d.bitmap]
  <2> HIDE DEF y
  <2> QED BY <1>2, <1>3
<1> HIDE DEF x
<1>6. y = [type |-> x.type, nlink |-> x.nlink, addr |-> x.addr, ents |-> f] /\ y \in InodeType
  BY <1>1 DEF InodeType
<1> HIDE DEF y
<1>7. r.inode = [d.inode EXCEPT ![k] = y] /\ r.bitmap = d.bitmap
  BY <1>5
<1>8. r.inode[k] = y /\ \A j \in Inums \ {k} : r.inode[j] = d.inode[j]
  BY <1>1, <1>7
<1>9. SameAttr(y, x)
  BY <1>6 DEF SameAttr
<1>10. r \in DiskType
  BY <1>1, <1>5, <1>6 DEF DiskType
<1>11. \A j \in Inums : SameAttr(r.inode[j], d.inode[j])
  BY <1>8, <1>9 DEF SameAttr, x
<1> QED
  BY <1>6, <1>7, <1>8, <1>10, <1>11

\* Disk e is disk d with v as the entry n of inode k.
Enters(e, d, k, n, v) ==
  /\ e \in DiskType /\ e.bitmap = d.bitmap /\ e.inode[k].ents = [d.inode[k].ents EXCEPT ![n] = v]
  /\ \A j \in Inums : SameAttr(e.inode[j], d.inode[j])
  /\ \A j \in Inums \ {k} : e.inode[j] = d.inode[j]

\* One entry of an inode is written.
LEMMA EntWritten ==
  ASSUME NEW d \in DiskType, NEW k \in Inums, NEW n, NEW v \in Inums \cup {Nil}
  PROVE  Enters([d EXCEPT !.inode[k].ents[n] = v], d, k, n, v)
<1> DEFINE f == [d.inode[k].ents EXCEPT ![n] = v]
<1>1. d.inode[k].ents \in [Entries -> Inums \cup {Nil}]
  BY DEF DiskType, InodeType
<1>2. f \in [Entries -> Inums \cup {Nil}]
  BY <1>1
<1>3. [d EXCEPT !.inode[k].ents[n] = v] = [d EXCEPT !.inode[k].ents = f]
  OBVIOUS
<1>4. f = [d.inode[k].ents EXCEPT ![n] = v]
  OBVIOUS
<1> HIDE DEF f
<1>5. /\ [d EXCEPT !.inode[k].ents = f] \in DiskType
      /\ [d EXCEPT !.inode[k].ents = f].bitmap = d.bitmap
      /\ [d EXCEPT !.inode[k].ents = f].inode[k].ents = f
      /\ \A j \in Inums : SameAttr([d EXCEPT !.inode[k].ents = f].inode[j], d.inode[j])
      /\ \A j \in Inums \ {k} : [d EXCEPT !.inode[k].ents = f].inode[j] = d.inode[j]
  BY <1>2, EntsWritten
<1> QED
  BY <1>3, <1>4, <1>5, Zenon DEF Enters

\* Names, links and debts of inode j after a step of p: a more names.
LEMMA CountMoved ==
  ASSUME IInv, IInv', CallInv, CountInv, NEW p \in Procs, CacheStep(p), NEW j \in Inums, NEW a \in Int,
         Cardinality(NamesOf(disk'.inode, Live', j)) = Cardinality(NamesOf(disk.inode, Live, j)) + a,
         disk'.inode[j].nlink + (IF p \in Owing(j) THEN 1 ELSE 0)
           = disk.inode[j].nlink + a + (IF p \in Owing(j)' THEN 1 ELSE 0)
  PROVE  disk'.inode[j].nlink = Cardinality(NamesOf(disk'.inode, Live', j)) + Cardinality(Owing(j)')
<1>1. disk.inode[j].nlink = Cardinality(NamesOf(disk.inode, Live, j)) + Cardinality(Owing(j))
  BY DEF CountInv
<1>2. /\ Cardinality(Owing(j)) \in Nat /\ Cardinality(Owing(j)') \in Nat
      /\ Cardinality(Owing(j)') + (IF p \in Owing(j) THEN 1 ELSE 0)
            = Cardinality(Owing(j)) + (IF p \in Owing(j)' THEN 1 ELSE 0)
  BY OwingCount
<1>3. Cardinality(NamesOf(disk.inode, Live, j)) \in Nat
  BY NamesFinite
<1>4. disk'.inode[j].nlink \in Int
  BY DEF IInv, TypeOK, InodeType
<1> DEFINE o == Cardinality(Owing(j))
           u == Cardinality(Owing(j)')
           b == IF p \in Owing(j) THEN 1 ELSE 0
           c == IF p \in Owing(j)' THEN 1 ELSE 0
<1>5. u + b = o + c /\ disk'.inode[j].nlink + b = disk.inode[j].nlink + a + c
  BY <1>2
<1>6. b \in Int /\ c \in Int /\ o \in Nat /\ u \in Nat
  BY <1>2
<1> HIDE DEF o, u, b, c
<1>7. disk.inode[j].nlink = Cardinality(NamesOf(disk.inode, Live, j)) + o
  BY <1>1 DEF o
<1>8. disk'.inode[j].nlink = Cardinality(NamesOf(disk.inode, Live, j)) + a + u
  BY <1>3, <1>4, <1>5, <1>6, <1>7
<1> QED
  BY <1>8 DEF u

\* Inodes that only get other names stay what they are.
LEMMA SoundStays ==
  ASSUME TreeInv, \A j \in Inums : disk'.inode[j].type = disk.inode[j].type,
         \A j \in Inums : disk'.inode[j] = disk.inode[j] \/ disk.inode[j].type = "dir"
                            \/ (disk.inode[j].type # "free" /\ disk'.inode[j].ents = disk.inode[j].ents)
  PROVE  Sound(disk'.inode)
BY SMTT(60) DEF TreeInv, IsTree, Sound

\* dirlink writes the name that link has counted.
LEMMA DirlinkFs == ASSUME IInv, IInv', FsInv, NEW p \in Procs, dirlink(p) PROVE FsInv'
<1> DEFINE t == th[p]
           n == Name(t)
           I == disk.inode
           J == disk'.inode
<1>1. /\ t.pc = "dirlink" /\ Lockable(t.w) /\ dirlookup(t.w, n) = Nil /\ icache' = [icache EXCEPT ![t.w] = Loaded(t.w)]
      /\ disk' = [disk EXCEPT !.inode[icache[t.w].inum].ents[n] = icache[t.ip].inum]
      /\ th' = [th EXCEPT ![p] = Put([t EXCEPT !.w = Nil], t.w, "link_done")]
      /\ lock' = lock /\ cwd' = cwd /\ ofile' = ofile /\ panicked' = panicked
  BY ZenonT(60) DEF dirlink, At
<1>2. /\ t.put = Nil /\ t.w \in Slots /\ icache[t.w].ref > 0 /\ t.w # Nil /\ Ino(t.w) \in Inums
      /\ t.ip # Nil /\ Ino(t.ip) \in Inums
  BY ZenonT(60), <1>1, HasW, HasIp, NilSlot DEF WithW, Parents, Ino
<1>3. Where(t) = "dirlink" /\ Linking(t) /\ ~Dropping(t) /\ Owes(t)
  BY ZenonT(60), <1>1, DebtIs DEF Putting, Owes
<1>4. CallOk(p) /\ CallInv /\ TreeInv /\ CountInv /\ BlockInv
  BY DEF FsInv, CallInv
<1> PICK d \in Inums : d = Ino(t.w)
  BY <1>2
<1> PICK i \in Inums : i = Ino(t.ip)
  BY <1>2
<1>5. d \in Kept /\ d \in Live /\ Live \in SUBSET Inums
  BY SMTT(60), <1>3, <1>4, KeptIs DEF CallOk, WalkOk, InDir, Parents
<1>6. n \in Entries /\ I[d].ents[n] = Nil
  BY ZenonT(60), <1>1, <1>3, <1>4 DEF CallOk, WayOk, Parents, Name, dirlookup, Ino
<1>7. n \in Names
  BY <1>4, <1>5, <1>6, FreeName DEF TreeInv
<1>8. I[i].type = "file"
  BY SMTT(60), <1>3, <1>4 DEF CallOk, LinkOk, Node, Ino
<1>9. Only(p) /\ Moves(th'[p], t, "iput", t.path, Nil, t.ip, t.w, "link_done") /\ cwd'[p] = cwd[p] /\ ofile'[p] = ofile[p]
  BY ZenonT(60), <1>1, PutWGoes DEF PCs
<1>10. CacheStep(p)
  BY ZenonT(60), <1>1, <1>2, <1>9, LoadCache DEF LockStep
<1>11. /\ disk'.bitmap = disk.bitmap /\ J[d].ents = [I[d].ents EXCEPT ![n] = i]
       /\ \A j \in Inums : SameAttr(J[j], I[j])
       /\ \A j \in Inums \ {d} : J[j] = I[j]
  <2>1. disk \in DiskType /\ disk' = [disk EXCEPT !.inode[d].ents[n] = i] /\ i \in Inums \cup {Nil}
    BY ZenonT(60), <1>1, TypesAre DEF Ino
  <2> HIDE DEF n
  <2>2. Enters([disk EXCEPT !.inode[d].ents[n] = i], disk, d, n, i)
    BY Zenon, <2>1, EntWritten
  <2>3. Enters(disk', disk, d, n, i)
    BY Zenon, <2>1, <2>2
  <2> QED
    BY SMTT(60), <2>3 DEF Enters
<1> HIDE DEF n
<1>12. I \in [Inums -> InodeType] /\ J \in [Inums -> InodeType]
  BY DEF IInv, TypeOK
<1>13. \A j \in Inums : J[j].type = I[j].type /\ J[j].nlink = I[j].nlink /\ J[j].addr = I[j].addr
  BY <1>11 DEF SameAttr
<1>14. I[d].type = "dir" /\ i \notin Live
  BY <1>4, <1>5, <1>8, KeptIs
<1>15. Sound(J)
  BY <1>4, <1>11, <1>13, <1>14, SoundStays
<1>16. /\ IsTree(J, Live) /\ KeptIn(J, Live) = KeptIn(I, Live)
       /\ \A j \in Inums \ {i} : NamesOf(J, Live, j) = NamesOf(I, Live, j)
       /\ NamesOf(J, Live, i) = NamesOf(I, Live, i) \cup {<<d, n>>}
       /\ <<d, n>> \notin NamesOf(I, Live, i)
  <2>1. IsTree(I, Live)
    BY <1>4 DEF TreeInv
  <2>2. J[i].type # "dir" /\ i \in Inums \ Live
    BY <1>8, <1>13, <1>14
  <2>3. /\ \A k \in Live \ {d} : J[k].ents = I[k].ents
        /\ \A k \in Inums : J[k].type = I[k].type
        /\ J[d].ents = [I[d].ents EXCEPT ![n] = i]
    BY <1>5, <1>11, <1>13
  <2> HIDE DEF I, J
  <2>4. Enrols(I, J, Live, d, n, i)
    BY ZenonT(60), <1>5, <1>6, <1>7, <1>12, <1>15, <2>1, <2>2, <2>3 DEF Enrols
  <2>5. Enrolled(I, J, Live, d, n, i)
    BY <2>4, TreeName
  <2> QED
    BY <2>5 DEF Enrolled
<1>17. /\ th'[p].pc = "iput" /\ th'[p].w = Nil /\ th'[p].ip = t.ip /\ th'[p].put = t.w /\ th'[p].ret = "link_done"
       /\ th'[p].op = t.op /\ th'[p].new = t.new
  BY <1>9 DEF Moves
<1>18. Where(th'[p]) = "link_done"
  BY <1>2, <1>17 DEF Where
<1>19. ~Owes(th'[p]) /\ ~Dropping(th'[p])
  BY <1>18 DEF Owes, Dropping, Linking, Looking, Parents, Leaves
<1>20. Live' = Live
  <2>1. \A j \in Inums : Dropped(j)' <=> Dropped(j)
    BY <1>3, <1>4, <1>10, <1>19, DroppedMoves
  <2> QED
    BY <1>13, <2>1, LiveIs
<1>21. Kept' = Kept /\ TreeInv'
  BY <1>16, <1>20 DEF Kept, TreeInv
<1>22. p \in Owing(i) /\ \A j \in Inums : p \notin Owing(j)' /\ (j # i => p \notin Owing(j))
  BY <1>3, <1>19 DEF Owing
<1>23. CountInv'
  <2>1. \A j \in Inums : J[j].nlink = I[j].nlink /\ I[j].nlink \in Int
    BY <1>12, <1>13 DEF InodeType
  <2>2. ASSUME NEW j \in Inums
        PROVE  J[j].nlink = Cardinality(NamesOf(J, Live', j)) + Cardinality(Owing(j)')
    <3>1. Cardinality(NamesOf(I, Live, j)) \in Nat
      BY NamesFinite
    <3>2. CASE j = i
      <4>1. Cardinality(NamesOf(J, Live, i)) = Cardinality(NamesOf(I, Live, i)) + 1
        BY ZenonT(60), <1>16, NamesFinite, FS_AddElement
      <4>2. J[i].nlink + (IF p \in Owing(i) THEN 1 ELSE 0) = I[i].nlink + 1 + (IF p \in Owing(i)' THEN 1 ELSE 0)
        BY <1>22, <2>1
      <4> QED
        BY <1>4, <1>10, <1>20, <3>2, <4>1, <4>2, CountMoved
    <3>3. CASE j # i
      <4>1. Cardinality(NamesOf(J, Live, j)) = Cardinality(NamesOf(I, Live, j)) + 0
        BY <1>16, <3>1, <3>3
      <4>2. J[j].nlink + (IF p \in Owing(j) THEN 1 ELSE 0) = I[j].nlink + 0 + (IF p \in Owing(j)' THEN 1 ELSE 0)
        BY <1>22, <2>1, <3>3
      <4> QED
        BY <1>4, <1>10, <1>20, <4>1, <4>2, CountMoved
    <3> QED
      BY <3>2, <3>3
  <2> QED
    BY <2>2 DEF CountInv
<1>24. BlockInv'
  BY <1>4, <1>11, <1>13, BlockSame
<1>25. Uses(p)' \subseteq Uses(p) \cup {Nil}
  BY <1>9, <1>17 DEF Uses
<1>26. th'[p].op = "link" => KeptPath(th'[p].new)
  BY <1>4, <1>17 DEF CallOk, WayOk
<1>27. DiskStep(p)
  <2>1. t.w \in Uses(p) \ {Nil} /\ lock[t.w] = Nobody
    BY ZenonT(60), <1>1, <1>2 DEF Uses, Lockable
  <2> QED
    BY SMTT(60), <2>1, <1>11, <1>13, <1>21, WriteStepIs
<1> QED
  BY ZenonT(60), <1>1, <1>9, <1>10, <1>13, <1>17, <1>18, <1>21, <1>23, <1>24, <1>25, <1>26, <1>27, RestFs

-----------------------------------------------------------------------------
(***************************************************************************)
(* Steps that give blocks and inodes away.                                 *)
(***************************************************************************)
\* No number of links, no name and no debt changes.
LEMMA SameTree ==
  ASSUME IInv, IInv', FsInv, NEW p \in Procs, CacheStep(p), Owes(th'[p]) <=> Owes(th[p]),
         Dropping(th'[p]) <=> Dropping(th[p]), Owes(th[p]) => th'[p].ip = th[p].ip,
         \A j \in Inums : /\ disk'.inode[j].type = disk.inode[j].type /\ disk'.inode[j].nlink = disk.inode[j].nlink
                          /\ disk'.inode[j].ents = disk.inode[j].ents
                          /\ disk.inode[j].type = "free" => disk'.inode[j] = disk.inode[j]
  PROVE  Live' = Live /\ Kept' = Kept /\ TreeInv' /\ CountInv'
<1> DEFINE I == disk.inode
           J == disk'.inode
<1>1. CallInv /\ TreeInv /\ CountInv
  BY DEF FsInv
<1>2. I \in [Inums -> InodeType] /\ J \in [Inums -> InodeType]
  BY DEF IInv, TypeOK
<1>3. \A j : Owing(j)' = Owing(j) /\ (Dropped(j)' <=> Dropped(j))
  BY <1>1, DebtsStay
<1>4. Live' = Live
  BY <1>3, LiveIs
<1>5. Live \in SUBSET Inums
  BY DEF Live
<1>6. Kept' = Kept /\ \A j : NamesOf(J, Live, j) = NamesOf(I, Live, j)
  BY <1>4, <1>5, SameNames DEF Kept
<1>7. TreeInv'
  <2>1. IsTree(I, Live)
    BY <1>1 DEF TreeInv
  <2>2. Sound(J)
    BY <2>1 DEF IsTree, Sound
  <2>3. \A d \in Live : \A n \in Names : I[d].ents[n] # Nil /\ J[I[d].ents[n]].type = "dir" => I[I[d].ents[n]].type = "dir"
    <3> SUFFICES ASSUME NEW d \in Live, NEW n \in Names, I[d].ents[n] # Nil PROVE J[I[d].ents[n]].type = I[I[d].ents[n]].type
      OBVIOUS
    <3>1. I[d].ents[n] \in Inums
      BY <1>2, <1>5, EntryOf DEF Entries
    <3> QED
      BY <3>1
  <2>4. IsTree(J, Live)
    BY SMTT(60), <1>2, <1>5, <2>1, <2>2, <2>3, TreeSame
  <2> QED
    BY <1>4, <2>4 DEF TreeInv
<1>8. CountInv'
  BY <1>1, <1>3, <1>4, <1>6 DEF CountInv
<1> QED
  BY <1>4, <1>6, <1>7, <1>8

\* A block goes to inode i, which had it or had none.
LEMMA BlockTaken ==
  ASSUME BlockInv, NEW i \in Inums, NEW a \in Blocks, \A j \in Inums \ {i} : disk'.inode[j] = disk.inode[j],
         disk'.inode[i].addr = a, disk'.bitmap = disk.bitmap \cup {a},
         disk.inode[i].addr = a \/ (disk.inode[i].addr = Nil /\ a \notin disk.bitmap)
  PROVE  BlockInv'
<1> DEFINE I == disk.inode
           J == disk'.inode
<1>1. a # Nil
  BY NilSlot
<1>2. \A j, k \in Inums : j # k /\ I[j].addr # Nil => I[j].addr # I[k].addr
  BY DEF BlockInv
<1>3. \A x : x \in disk.bitmap <=> x # Nil /\ \E j \in Inums : I[j].addr = x
  BY DEF BlockInv
<1>4. \A j \in Inums \ {i} : I[j].addr # a
  BY <1>1, <1>2, <1>3
<1>5. \A j, k \in Inums : j # k /\ J[j].addr # Nil => J[j].addr # J[k].addr
  BY <1>1, <1>2, <1>4
<1>6. \A x : x \in disk'.bitmap <=> x # Nil /\ \E j \in Inums : J[j].addr = x
  BY <1>1, <1>3, <1>4
<1> QED
  BY <1>5, <1>6 DEF BlockInv

\* filewrite: the file gets a block when it has none.
LEMMA FilewriteFs == ASSUME IInv, IInv', FsInv, NEW p \in Procs, filewrite(p) PROVE FsInv'
<1> DEFINE s == ofile[p].ip
           l == Loaded(s)
           e == bmap(l)
           b == iupdate(disk, e)
           I == disk.inode
           J == disk'.inode
<1>1. /\ th[p].pc = "write" /\ Lockable(s) /\ (l.addr = Nil => Blocks \ disk.bitmap # {})
      /\ icache' = [icache EXCEPT ![s] = e] /\ disk' = [b EXCEPT !.bitmap = @ \cup {e.addr}]
      /\ th' = [th EXCEPT ![p] = Idle]
      /\ lock' = lock /\ cwd' = cwd /\ ofile' = ofile /\ panicked' = panicked
  BY DEF filewrite, At
<1>2. s \in Slots /\ icache[s].ref > 0 /\ Ino(s) \in Inums /\ s # Nil
  <2>1. s \in Slots
    BY <1>1, ThreadIs DEF FileOk
  <2> QED
    BY <2>1, NilSlot, Referenced DEF IInv, Ino
<1> PICK i \in Inums : i = Ino(s)
  BY <1>2
<1>3. Follows(l, icache[s]) /\ l.valid /\ Known(I[i], l) /\ l \in EntryType
  BY <1>1, <1>2, LoadedIs DEF Follows, Ino
<1>4. l.addr = Nil => balloc \in Blocks \ disk.bitmap
  <2>1. SUFFICES ASSUME l.addr = Nil PROVE balloc \in Blocks \ disk.bitmap
    OBVIOUS
  <2>2. Blocks \ disk.bitmap \in SUBSET Nat /\ Blocks \ disk.bitmap # {}
    BY <1>1, <2>1 DEF Blocks
  <2> QED
    BY <2>2, FirstIs DEF balloc
<1> HIDE DEF l
<1>5. /\ Follows(e, l) /\ e.valid = l.valid /\ e.type = l.type /\ e.nlink = l.nlink /\ e.addr \in Blocks
      /\ e.addr = l.addr \/ (l.addr = Nil /\ e.addr \notin disk.bitmap)
  <2>1. CASE l.addr = Nil
    <3> DEFINE f == [l EXCEPT !.addr = balloc]
    <3>1. f = [inum |-> l.inum, ref |-> l.ref, valid |-> l.valid, type |-> l.type, nlink |-> l.nlink, addr |-> balloc]
      <4>1. l \in EntryType
        BY <1>3
      <4>2. ASSUME NEW a
            PROVE  [l EXCEPT !.addr = a] =
                     [inum |-> l.inum, ref |-> l.ref, valid |-> l.valid, type |-> l.type, nlink |-> l.nlink, addr |-> a]
        BY <4>1 DEF EntryType
      <4> QED
        BY <4>2
    <3>2. e = f
      BY <2>1 DEF bmap
    <3> HIDE DEF f, e
    <3>3. f \in EntryType
      BY <1>3, <1>4, <2>1, <3>1 DEF EntryType
    <3> QED
      BY <1>4, <2>1, <3>1, <3>2, <3>3 DEF Follows
  <2>2. CASE l.addr # Nil
    <3>1. e = l
      BY <2>2 DEF bmap
    <3> HIDE DEF e
    <3> QED
      BY <1>3, <2>2, <3>1 DEF Follows, EntryType
  <2> QED
    BY <2>1, <2>2
<1> HIDE DEF e
<1>6. e \in EntryType /\ e.inum = i /\ Follows(e, icache[s]) /\ e.valid
  BY <1>3, <1>5 DEF Follows, Ino
<1>7. /\ b \in DiskType /\ SameAttr(b.inode[i], e) /\ b.inode[i].ents = I[i].ents /\ b.bitmap = disk.bitmap
      /\ \A j \in Inums \ {i} : b.inode[j] = I[j]
  BY <1>6, TypesAre, UpdateIs
<1> HIDE DEF b
<1>8. disk' = [inode |-> b.inode, bitmap |-> b.bitmap \cup {e.addr}]
  BY <1>1, <1>7 DEF DiskType
<1>9. J = b.inode /\ disk'.bitmap = disk.bitmap \cup {e.addr}
  BY <1>7, <1>8
<1>10. Only(p) /\ th'[p] = Idle /\ cwd'[p] = cwd[p] /\ ofile'[p] = ofile[p]
  BY <1>1, IdleIs, ThreadSet DEF IInv
<1>11. CacheStep(p)
  <2>1. icache'[s] = e /\ \A r \in Slots \ {s} : icache'[r] = icache[r]
    BY <1>1, <1>2, TypesAre
  <2>2. \A r \in Slots : icache'[r].inum = icache[r].inum /\ (icache[r].valid => icache'[r].valid)
    BY <1>6, <2>1 DEF Ino
  <2> QED
    BY <1>1, <1>10, <2>2 DEF CacheStep
<1>12. ~Owes(th[p]) /\ ~Dropping(th[p]) /\ ~Owes(th'[p]) /\ ~Dropping(th'[p])
  <2>1. ~Owes(th[p])
    BY <1>1, DebtIs
  <2>2. Where(th'[p]) = "idle"
    BY <1>10 DEF Idle, Where
  <2> QED
    BY <2>1, <2>2 DEF Owes, Dropping, Linking, Looking, Parents, Leaves
<1>13. J[i].type = I[i].type /\ J[i].nlink = I[i].nlink /\ J[i].ents = I[i].ents /\ J[i].addr = e.addr /\ I[i].addr = l.addr
       /\ I[i].type # "free"
  BY <1>3, <1>5, <1>7, <1>9 DEF SameAttr, Known
<1>14. \A j \in Inums \ {i} : J[j] = I[j]
  BY <1>7, <1>9
<1>15. Live' = Live /\ Kept' = Kept /\ TreeInv' /\ CountInv'
  BY <1>11, <1>12, <1>13, <1>14, SameTree
<1>16. BlockInv'
  BY <1>5, <1>9, <1>13, <1>14, BlockTaken DEF FsInv
<1>17. \A j \in Inums : J[j].type = I[j].type
  BY <1>13, <1>14
<1>18. DiskStep(p)
  <2>1. s \in Uses(p) \ {Nil} /\ lock[s] = Nobody
    BY <1>1, <1>2 DEF Uses, Lockable
  <2> QED
    BY <2>1, <1>14, <1>15, <1>17, WriteStepIs
<1>19. /\ Uses(p)' \subseteq Uses(p) \cup {Nil} /\ Where(th'[p]) = "idle" /\ th'[p].pc # "ifree"
       /\ th'[p].op = "link" => KeptPath(th'[p].new)
  BY <1>10 DEF Uses, Idle, Where
<1> QED
  BY <1>1, <1>10, <1>11, <1>15, <1>16, <1>17, <1>18, <1>19, RestFs

\* An inode without links gets another type: it has no name.
LEMMA UnlinkedStep ==
  ASSUME IInv, IInv', FsInv, NEW p \in Procs, CacheStep(p), Owes(th'[p]) <=> Owes(th[p]),
         Dropping(th'[p]) <=> Dropping(th[p]), Owes(th[p]) => th'[p].ip = th[p].ip,
         NEW i \in Inums, disk.inode[i].nlink = 0, disk'.inode[i].nlink = 0, Sound(disk'.inode),
         \A j \in Inums \ {i} : disk'.inode[j] = disk.inode[j]
  PROVE  Kept' = Kept /\ TreeInv' /\ CountInv' /\ i \notin Live
<1> DEFINE I == disk.inode
           J == disk'.inode
<1>1. CallInv /\ TreeInv /\ CountInv
  BY DEF FsInv
<1>2. I \in [Inums -> InodeType] /\ J \in [Inums -> InodeType]
  BY DEF IInv, TypeOK
<1>3. \A j : Owing(j)' = Owing(j) /\ (Dropped(j)' <=> Dropped(j))
  BY <1>1, DebtsStay
<1>4. Live' = Live /\ i \notin Live
  BY <1>3, LiveIs
<1>5. Live \in SUBSET Inums
  BY DEF Live
<1>6. \A d \in Live : J[d].ents = I[d].ents
  BY <1>4, <1>5
<1>7. Kept' = Kept /\ \A j : NamesOf(J, Live, j) = NamesOf(I, Live, j)
  BY SMTT(60), <1>4, <1>5, <1>6, SameNames DEF Kept
<1>8. \A d \in Live : \A n \in Names : I[d].ents[n] # Nil => I[d].ents[n] \in Inums \ {i}
  BY <1>1, Named DEF Entries
<1>9. TreeInv'
  <2>1. IsTree(I, Live)
    BY <1>1 DEF TreeInv
  <2>2. \A d \in Live : \A n \in Names : I[d].ents[n] # Nil /\ J[I[d].ents[n]].type = "dir" => I[I[d].ents[n]].type = "dir"
    BY <1>8
  <2>3. IsTree(J, Live)
    BY <1>2, <1>5, <1>6, <2>1, <2>2, TreeSame
  <2> QED
    BY <1>4, <2>3 DEF TreeInv
<1>10. CountInv'
  <2>1. \A j \in Inums : J[j].nlink = I[j].nlink
    OBVIOUS
  <2> QED
    BY <1>1, <1>3, <1>4, <1>7, <2>1 DEF CountInv
<1> QED
  BY <1>4, <1>7, <1>9, <1>10

\* What ialloc writes.
LEMMA Allocated ==
  ASSUME NEW op
  PROVE  LET n == [Free EXCEPT !.type = TypeMade(op)] IN
         n.type \in {"dir", "file"} /\ n.nlink = 0 /\ n.addr = Nil /\ n.ents = NoEnts /\ n \in InodeType
<1>1. [Free EXCEPT !.type = TypeMade(op)] = [type |-> TypeMade(op), nlink |-> 0, addr |-> Nil, ents |-> NoEnts]
  BY DEF Free
<1>2. TypeMade(op) \in {"dir", "file"} /\ NoEnts \in [Entries -> Inums \cup {Nil}]
  BY DEF TypeMade, NoEnts
<1> QED
  BY <1>1, <1>2 DEF InodeType, Types

\* ialloc: the new inode has no name yet, and nobody else has it.
LEMMA IallocFs == ASSUME IInv, IInv', FsInv, NEW p \in Procs, ialloc(p) PROVE FsInv'
<1> DEFINE t == th[p]
           n == [Free EXCEPT !.type = TypeMade(t.op)]
           I == disk.inode
           J == disk'.inode
<1>1. /\ t.pc = "create" /\ Lockable(t.w) /\ dirlookup(t.w, Name(t)) = Nil /\ lock' = [lock EXCEPT ![t.w] = p]
      /\ cwd' = cwd /\ ofile' = ofile /\ panicked' = panicked
  BY DEF ialloc, At
<1>2. PICK i \in Inums :
        /\ disk.inode[i].type = "free" /\ ~Full(i) /\ disk' = [disk EXCEPT !.inode[i] = n]
        /\ icache' = [iget(i) EXCEPT ![t.w] = [Loaded(t.w) EXCEPT !.ref = iget(i)[t.w].ref]]
        /\ th' = [th EXCEPT ![p].pc = "create_fill", ![p].ip = SlotOf(i)]
  BY DEF ialloc
<1> PICK z : z = SlotOf(i)
  OBVIOUS
<1> DEFINE u == [t EXCEPT !.pc = "create_fill", !.ip = z]
<1>3. t.w \in Slots /\ icache[t.w].ref > 0 /\ t.w # Nil /\ t.put = Nil /\ t \in ThreadType /\ Ino(t.w) \in Inums
  BY <1>1, HasW, NilSlot, ThreadIs DEF WithW, Parents, Ino
<1>4. ~Owes(t) /\ Where(t) = "create"
  BY <1>1, DebtIs DEF Putting
<1>5. z \in Slots
  BY <1>2, SlotIs
<1>6. th' = [th EXCEPT ![p] = u]
  BY ZenonT(60), <1>2 DEF IInv, TypeOK
<1>7. Moves(u, t, "create_fill", t.path, t.w, z, t.put, t.ret)
  BY ZenonT(60), <1>3, <1>5, SetPcIp DEF PCs
<1> HIDE DEF u
<1>8. Only(p) /\ th'[p] = u /\ cwd'[p] = cwd[p] /\ ofile'[p] = ofile[p]
  BY <1>1, <1>6, <1>7, ThreadSet DEF Moves, IInv
<1>9. LockStep(p) /\ lock'[t.w] = p
  BY <1>1, <1>3, TypesAre DEF LockStep, Lockable
<1>10. CacheStep(p) /\ icache'[z].inum = i /\ icache'[t.w].valid /\ icache'[t.w].inum = Ino(t.w)
  BY <1>1, <1>2, <1>3, <1>8, <1>9, LoadGetCache DEF Ino
<1>11. /\ th'[p].pc = "create_fill" /\ th'[p].w = t.w /\ th'[p].ip = z /\ th'[p].put = Nil /\ th'[p].path = t.path
       /\ th'[p].op = t.op /\ th'[p].new = t.new
  BY <1>3, <1>7, <1>8 DEF Moves
<1>12. Where(th'[p]) = "create_fill"
  BY <1>11 DEF Where
<1>13. ~Owes(th'[p]) /\ ~Dropping(th'[p]) /\ ~Dropping(t)
  BY <1>4, <1>12 DEF Owes, Dropping, Linking, Looking, Parents, Leaves
<1>14. n.type \in {"dir", "file"} /\ n.nlink = 0 /\ n.addr = Nil /\ n.ents = NoEnts /\ n \in InodeType
  BY Allocated
<1>15. disk'.bitmap = disk.bitmap /\ J[i] = n /\ \A j \in Inums \ {i} : J[j] = I[j]
  <2> HIDE DEF n
  <2> QED
    BY <1>2, <1>14, TypesAre DEF DiskType
<1>16. CallInv /\ CallOk(p) /\ TreeInv /\ BlockInv
  BY DEF FsInv, CallInv
<1>17. I[i] = Free
  BY <1>2, <1>16 DEF TreeInv, IsTree
<1>18. I[i].nlink = 0 /\ I[i].addr = Nil
  BY <1>17 DEF Free
<1> HIDE DEF n
<1>19. Sound(J)
  BY <1>14, <1>15, <1>16 DEF TreeInv, IsTree, Sound
<1>20. Kept' = Kept /\ TreeInv' /\ CountInv'
  BY <1>4, <1>10, <1>13, <1>14, <1>15, <1>18, <1>19, UnlinkedStep
<1>21. BlockInv'
  BY <1>14, <1>15, <1>16, <1>18, BlockSame
<1>22. DiskStep(p)
  BY <1>2, <1>15, <1>20 DEF DiskStep
<1>23. NewUses(p)
  BY <1>2, <1>8, <1>10, <1>11 DEF NewUses, Uses
<1>24. Ino(t.w) \in Kept /\ Ino(t.w) # i
  BY <1>2, <1>4, <1>16, KeptIs DEF CallOk, WalkOk, InDir, Parents
<1>25. UseOk(p)'
  <2> SUFFICES ASSUME NEW s \in Uses(p)' \ {Nil} PROVE disk'.inode[icache'[s].inum].type # "free"
    BY DEF UseOk, Node
  <2>1. s \in Slots /\ icache'[s].ref > 0
    BY UsesNext
  <2>2. CASE s = z
    BY <1>10, <1>14, <1>15, <2>2
  <2>3. CASE s # z
    <3>1. s \in Uses(p) \ {Nil}
      BY <1>8, <1>11, <2>3 DEF Uses
    <3>2. icache[s].ref > 0 /\ Ino(s) \in Inums /\ I[Ino(s)].type # "free"
      BY <1>16, <3>1, UsesIs DEF CallOk, UseOk, Node, Ino
    <3>3. icache'[s].inum = Ino(s)
      BY <1>10, <2>1, <3>2 DEF CacheStep, Ino
    <3> QED
      BY <1>2, <1>15, <3>2, <3>3
  <2> QED
    BY <2>2, <2>3
<1>26. WayOk(th'[p])
  BY <1>4, <1>11, <1>12, <1>16 DEF CallOk, WayOk, Parents
<1>27. WalkOk(p)'
  <2>1. icache'[cwd'[p]].inum \in Kept'
    BY <1>8, <1>10, <1>16, <1>20, CwdStays
  <2> QED
    BY <1>10, <1>11, <1>12, <1>20, <1>24, <2>1 DEF WalkOk, Walking, Ino
<1>28. HoldOk(p)'
  BY <1>9, <1>10, <1>11, <1>12 DEF HoldOk, Held
<1>29. FillOk(p)'
  <2>1. disk'.inode[icache'[th'[p].w].inum].ents[Name(th'[p])] = Nil
    BY ZenonT(60), <1>1, <1>3, <1>10, <1>11, <1>15, <1>24 DEF dirlookup, Name, Ino
  <2>2. disk'.inode[icache'[th'[p].ip].inum] = [Free EXCEPT !.type = TypeMade(th'[p].op)]
    BY <1>10, <1>11, <1>15 DEF n
  <2>3. Alone(p, th[p].ip)'
    <3> SUFFICES ASSUME NEW q \in Procs \ {p}, z \in Uses(q)' PROVE FALSE
      BY <1>11 DEF Alone
    <3>1. z \in Uses(q) \ {Nil}
      BY <1>5, <1>8, NilSlot DEF Uses, Only
    <3>2. icache[z].ref > 0 /\ I[Ino(z)].type # "free"
      BY <1>16, <3>1, UsesIs DEF CallInv, CallOk, UseOk, Node, Ino
    <3>3. icache'[z].ref > 0
      BY <1>5, <1>11, ReferencedNext
    <3>4. icache'[z].inum = Ino(z)
      BY <1>5, <1>10, <3>2, <3>3 DEF CacheStep, Ino
    <3> QED
      BY <1>2, <1>10, <3>2, <3>4
  <2> QED
    BY SMTT(60), <2>1, <2>2, <2>3 DEF FillOk, Node
<1>30. EraseOk(p)' /\ DropOk(p)' /\ LinkOk(p)' /\ FreeOk(p)'
  BY <1>11, <1>12 DEF EraseOk, DropOk, LinkOk, FreeOk, Dropping, Linking, Looking, Parents, Leaves
<1>31. CallOk(p)' /\ NoPanic'
  BY <1>1, <1>25, <1>26, <1>27, <1>28, <1>29, <1>30 DEF CallOk, FsInv, NoPanic
<1> QED
  BY <1>10, <1>20, <1>21, <1>22, <1>23, <1>31, DiskFs

\* The block of inode i is free again.
LEMMA BlockGone ==
  ASSUME BlockInv, NEW i \in Inums, NEW a, disk.inode[i].addr = a, \A j \in Inums \ {i} : disk'.inode[j] = disk.inode[j],
         disk'.inode[i].addr = Nil, disk'.bitmap = disk.bitmap \ {a}
  PROVE  BlockInv'
<1> DEFINE I == disk.inode
           J == disk'.inode
<1>1. \A j, k \in Inums : j # k /\ I[j].addr # Nil => I[j].addr # I[k].addr
  BY DEF BlockInv
<1>2. \A x : x \in disk.bitmap <=> x # Nil /\ \E j \in Inums : I[j].addr = x
  BY DEF BlockInv
<1>3. \A j \in Inums \ {i} : I[j].addr # Nil => I[j].addr # a
  BY <1>1
<1>4. \A j, k \in Inums : j # k /\ J[j].addr # Nil => J[j].addr # J[k].addr
  BY <1>1
<1>5. \A x : x \in disk'.bitmap <=> x # Nil /\ \E j \in Inums : J[j].addr = x
  BY <1>2, <1>3
<1> QED
  BY <1>4, <1>5 DEF BlockInv

\* What ifree does, in short.
LEMMA IfreeIs ==
  ASSUME IInv, NEW p \in Procs, ifree(p)
  PROVE  LET s == th[p].put IN
         /\ th[p].pc = "ifree" /\ s \in Slots /\ icache[s].ref > 0 /\ s # Nil /\ Ino(s) \in Inums
         /\ \A r \in Slots \ {s} : icache'[r] = icache[r]
         /\ icache'[s].inum = icache[s].inum
         /\ lock' = [lock EXCEPT ![s] = Nobody]
         /\ disk'.bitmap = disk.bitmap \ {icache[s].addr} /\ disk'.inode[Ino(s)] = Free
         /\ \A j \in Inums \ {Ino(s)} : disk'.inode[j] = disk.inode[j]
         /\ icache[s].addr = Nil \/ icache[s].addr \in disk.bitmap => panicked' = "no"
         /\ Only(p) /\ Moves(th'[p], th[p], "unref", th[p].path, th[p].w, th[p].ip, th[p].put, th[p].ret)
         /\ cwd'[p] = cwd[p] /\ ofile'[p] = ofile[p]
<1> DEFINE t == th[p]
           s == t.put
           x == icache[s]
           a == x.addr
           b == bfree(disk, a)
           e == [x EXCEPT !.valid = FALSE, !.addr = Nil, !.type = "free"]
<1>1. /\ t.pc = "ifree" /\ th' = [th EXCEPT ![p].pc = "unref"] /\ cwd' = cwd /\ ofile' = ofile
      /\ lock' = [lock EXCEPT ![s] = Nobody]
      /\ panicked' = IF a # Nil /\ a \notin disk.bitmap THEN "freeing free block" ELSE "no"
      /\ disk' = [b EXCEPT !.inode[x.inum] = Free]
  BY DEF ifree, At
<1>2. s \in Slots /\ x.ref > 0 /\ x.inum \in Inums /\ s # Nil /\ t \in ThreadType
  BY <1>1, HasPut, NilSlot, ThreadIs DEF Putting
<1>3. disk \in DiskType /\ icache \in [Slots -> EntryType] /\ x \in EntryType
  BY SMTT(60), <1>2, TypesAre
<1>4. icache' = [icache EXCEPT ![s] = e]
  BY <1>2, <1>3 DEF ifree
<1>5. e.inum = x.inum
  <2> HIDE DEF x
  <2> QED
    BY <1>3 DEF EntryType
<1>6. b = [inode |-> disk.inode, bitmap |-> disk.bitmap \ {a}] /\ disk.inode \in [Inums -> InodeType]
  <2>1. disk \in DiskType
    BY <1>3
  <2>2. ASSUME NEW c PROVE bfree(disk, c) = [inode |-> disk.inode, bitmap |-> disk.bitmap \ {c}]
    BY <2>1 DEF bfree, DiskType
  <2> QED
    BY <2>1, <2>2 DEF DiskType
<1> HIDE DEF b, e
<1>7. icache'[s] = e /\ \A r \in Slots \ {s} : icache'[r] = icache[r]
  BY <1>2, <1>3, <1>4
<1>8. disk' = [inode |-> [disk.inode EXCEPT ![x.inum] = Free], bitmap |-> disk.bitmap \ {a}]
  BY <1>1, <1>6
<1>9. /\ disk'.bitmap = disk.bitmap \ {a} /\ disk'.inode[x.inum] = Free
      /\ \A j \in Inums \ {x.inum} : disk'.inode[j] = disk.inode[j]
  BY <1>2, <1>6, <1>8
<1>10. Moves([t EXCEPT !.pc = "unref"], t, "unref", t.path, t.w, t.ip, t.put, t.ret)
  BY <1>2, SetPc DEF PCs
<1>11. th' = [th EXCEPT ![p] = [t EXCEPT !.pc = "unref"]]
  BY <1>1
<1>12. /\ Only(p) /\ Moves(th'[p], t, "unref", t.path, t.w, t.ip, t.put, t.ret)
       /\ cwd'[p] = cwd[p] /\ ofile'[p] = ofile[p]
  <2> DEFINE u == [t EXCEPT !.pc = "unref"]
  <2>1. u \in ThreadType /\ th' = [th EXCEPT ![p] = u] /\ UNCHANGED <<cwd, ofile>>
    BY <1>1, <1>10, <1>11 DEF Moves
  <2> HIDE DEF u
  <2>2. Only(p) /\ th'[p] = u /\ cwd'[p] = cwd[p] /\ ofile'[p] = ofile[p]
    BY <2>1, ThreadSet DEF IInv
  <2> QED
    BY <1>10, <2>2 DEF u
<1> QED
  BY ZenonT(60), <1>1, <1>2, <1>5, <1>7, <1>9, <1>12 DEF Ino

\* ifree: nobody has the inode, which has no name, and its block was marked.
LEMMA IfreeFs == ASSUME IInv, IInv', FsInv, NEW p \in Procs, ifree(p) PROVE FsInv'
<1> DEFINE t == th[p]
           s == t.put
           I == disk.inode
           J == disk'.inode
<1>1. /\ t.pc = "ifree" /\ s \in Slots /\ icache[s].ref > 0 /\ s # Nil /\ Ino(s) \in Inums
      /\ \A r \in Slots \ {s} : icache'[r] = icache[r]
      /\ icache'[s].inum = icache[s].inum
      /\ lock' = [lock EXCEPT ![s] = Nobody]
      /\ disk'.bitmap = disk.bitmap \ {icache[s].addr} /\ J[Ino(s)] = Free
      /\ \A j \in Inums \ {Ino(s)} : J[j] = I[j]
      /\ icache[s].addr = Nil \/ icache[s].addr \in disk.bitmap => panicked' = "no"
      /\ Only(p) /\ Moves(th'[p], t, "unref", t.path, t.w, t.ip, t.put, t.ret)
      /\ cwd'[p] = cwd[p] /\ ofile'[p] = ofile[p]
  BY IfreeIs
<1> PICK i \in Inums : i = Ino(s)
  BY <1>1
<1>2. CallInv /\ CallOk(p) /\ TreeInv /\ CountInv /\ BlockInv
  BY DEF FsInv, CallInv
<1>3. lock[s] = p /\ icache[s].valid
  BY <1>1, <1>2 DEF CallOk, HoldOk, Held
<1>4. I[i].nlink = 0 /\ Alone(p, s) /\ s \notin {t.w, t.ip, cwd[p], ofile[p].ip}
  BY SMTT(60), <1>1, <1>2 DEF CallOk, FreeOk, Node, Ino
<1>5. icache[s].addr = I[i].addr
  BY <1>1, <1>3, EntryIs DEF Known, SameAttr, Ino
<1>6. panicked' = "no"
  BY <1>1, <1>2, <1>5 DEF BlockInv
<1>7. /\ th'[p].pc = "unref" /\ th'[p].w = t.w /\ th'[p].ip = t.ip /\ th'[p].put = s /\ th'[p].ret = t.ret
      /\ th'[p].path = t.path /\ th'[p].op = t.op /\ th'[p].new = t.new /\ th'[p].ok = t.ok /\ th'[p].par = t.par
  BY <1>1 DEF Moves
<1>8. Where(th'[p]) = Where(t)
  BY <1>1, <1>7 DEF Where
<1>9. /\ Owes(th'[p]) <=> Owes(t)
      /\ Dropping(th'[p]) <=> Dropping(t)
      /\ Linking(th'[p]) <=> Linking(t)
  BY <1>7, <1>8 DEF Owes, Dropping, Linking
<1>10. CacheStep(p)
  <2>1. \A r \in Slots : icache'[r].inum = icache[r].inum /\ (icache[r].valid /\ lock[r] # p => icache'[r].valid)
    BY <1>1, <1>3
  <2>2. \A r \in Slots : lock[r] \notin {p, Nobody} => lock'[r] = lock[r]
    BY SMTT(60), <1>1, <1>3, TypesAre
  <2> QED
    BY <1>1, <2>1, <2>2 DEF CacheStep
<1>11. Sound(J)
  BY <1>1, <1>2 DEF TreeInv, IsTree, Sound, Free
<1>12. J[i] = Free /\ J[i].nlink = 0 /\ J[i].addr = Nil /\ \A j \in Inums \ {i} : J[j] = I[j]
  BY <1>1 DEF Free
<1>13. Kept' = Kept /\ TreeInv' /\ CountInv'
  BY <1>4, <1>7, <1>9, <1>10, <1>11, <1>12, UnlinkedStep
<1>14. BlockInv'
  BY <1>1, <1>2, <1>5, <1>12, BlockGone
<1>15. s \in Uses(p) \ {Nil}
  BY <1>1 DEF Uses
<1>16. DiskStep(p)
  BY <1>1, <1>3, <1>12, <1>13, <1>15 DEF DiskStep
<1>17. Uses(p)' = {t.w, t.ip, cwd[p], ofile[p].ip}
  BY <1>1, <1>7 DEF Uses
<1>18. NewUses(p)
  BY <1>17 DEF NewUses, Uses
<1>19. ASSUME NEW r \in {t.w, t.ip, cwd[p], ofile[p].ip} \ {Nil}
       PROVE  r \in Slots /\ icache'[r] = icache[r] /\ J[icache'[r].inum] = Node(r) /\ Node(r).type # "free" /\ lock'[r] = lock[r]
  <2>1. r \in Uses(p) \ {Nil} /\ r # s
    BY <1>4 DEF Uses
  <2>2. r \in Slots /\ Ino(r) \in Inums /\ Ino(r) # i /\ Node(r).type # "free"
    BY <1>2, <1>15, <2>1, UsesIs, UsedOnce DEF CallOk, UseOk
  <2> QED
    BY <1>1, <1>12, <2>1, <2>2, TypesAre DEF Node, Ino
<1>20. UseOk(p)'
  BY <1>17, <1>19 DEF UseOk, Node
<1>21. WayOk(th'[p])
  BY <1>2, <1>7, <1>8 DEF CallOk, WayOk
<1>22. /\ Where(t) \in {"create_fill", "unlink_ip", "unlock_w"} => t.w # Nil
       /\ Where(t) \in {"opened", "unlink_drop", "create_fill", "unlink_ip"} => t.ip # Nil
       /\ Owes(t) => t.ip # Nil
       /\ InDir(t) \/ Walking(t) => t.w # Nil
       /\ cwd[p] # Nil
  BY HeldIs DEF Held
<1>23. WalkOk(p)'
  <2>1. icache'[cwd'[p]].inum \in Kept'
    BY <1>1, <1>2, <1>10, <1>13, CwdStays
  <2>2. InDir(th'[p]) <=> InDir(t)
    BY <1>8 DEF InDir
  <2>3. Walking(th'[p]) <=> Walking(t)
    BY <1>7, <1>8 DEF Walking
  <2>4. InDir(t) => icache'[t.w].inum \in Kept'
    BY <1>2, <1>13, <1>19, <1>22 DEF CallOk, WalkOk, Ino
  <2>5. Walking(t) /\ J[icache'[t.w].inum].type = "dir" => icache'[t.w].inum \in Kept'
    BY <1>2, <1>13, <1>19, <1>22 DEF CallOk, WalkOk, Ino, Node
  <2> QED
    BY <1>7, <2>1, <2>2, <2>3, <2>4, <2>5 DEF WalkOk, Ino, Node
<1>24. HoldOk(p)'
  <2> SUFFICES ASSUME NEW r \in Held(th'[p]) PROVE lock'[r] = p /\ icache'[r].valid
    BY DEF HoldOk
  <2>1. r \in Held(t) /\ r \in {t.w, t.ip} \ {Nil}
    BY SMTT(60), <1>7, <1>8, <1>22 DEF Held
  <2> QED
    BY <1>2, <1>19, <2>1 DEF CallOk, HoldOk
<1>25. FillOk(p)'
  <2> SUFFICES ASSUME Where(t) = "create_fill"
               PROVE  /\ J[icache'[t.w].inum].ents[Name(th'[p])] = Nil
                      /\ J[icache'[t.ip].inum] = [Free EXCEPT !.type = TypeMade(t.op)]
                      /\ \A q \in Procs \ {p} : t.ip \notin Uses(q)'
    BY <1>7, <1>8 DEF FillOk, Node, Alone
  <2>1. \A q \in Procs \ {p} : Uses(q)' = Uses(q)
    BY <1>1 DEF Only, Uses
  <2> QED
    BY SMTT(60), <1>2, <1>7, <1>19, <1>22, <2>1 DEF CallOk, FillOk, Alone, Name
<1>26. EraseOk(p)'
  <2> SUFFICES ASSUME Where(t) = "unlink_ip"
               PROVE  Name(th'[p]) \in Removable /\ J[icache'[t.w].inum].ents[Name(th'[p])] = icache'[t.ip].inum
    BY <1>7, <1>8 DEF EraseOk, Node, Ino
  <2>1. Name(t) \in Removable /\ Node(t.w).ents[Name(t)] = Ino(t.ip)
    BY <1>2 DEF CallOk, EraseOk
  <2>2. J[icache'[t.w].inum] = Node(t.w) /\ icache'[t.ip].inum = Ino(t.ip)
    BY <1>19, <1>22 DEF Ino
  <2>3. Name(th'[p]) = Name(t)
    BY <1>7 DEF Name
  <2> QED
    BY <2>1, <2>2, <2>3
<1>27. DropOk(p)'
  BY <1>2, <1>7, <1>9, <1>19, <1>22 DEF CallOk, DropOk, Node, Owes
<1>28. LinkOk(p)'
  BY <1>2, <1>7, <1>9, <1>19, <1>22 DEF CallOk, LinkOk, Node, Owes
<1>29. FreeOk(p)'
  BY <1>7 DEF FreeOk
<1>30. CallOk(p)' /\ NoPanic'
  BY <1>6, <1>20, <1>21, <1>23, <1>24, <1>25, <1>26, <1>27, <1>28, <1>29 DEF CallOk, NoPanic
<1> QED
  BY <1>10, <1>13, <1>14, <1>16, <1>18, <1>30, DiskFs

-----------------------------------------------------------------------------
(***************************************************************************)
(* Steps on a directory and an inode in it.                                *)
(***************************************************************************)
\* p takes the lock of entry s and gives back that of entry w.
LEMMA PairCache ==
  ASSUME IInv, NEW p \in Procs, Only(p), NEW s \in Slots, NEW w \in Slots, lock[s] = Nobody, lock[w] = p,
         NEW e, Follows(e, icache[s]), e.valid, NEW f, Follows(f, icache[w]), f.valid,
         icache' = [icache EXCEPT ![s] = e, ![w] = f], lock' = [lock EXCEPT ![s] = p, ![w] = Nobody]
  PROVE  /\ CacheStep(p) /\ s # w /\ icache'[s].valid /\ lock'[s] = p
         /\ \A r \in Slots : icache'[r].inum = icache[r].inum
<1>1. s # w
  BY InodeAssumption
<1>2. icache'[s] = e /\ icache'[w] = f /\ \A r \in Slots \ {s, w} : icache'[r] = icache[r]
  BY <1>1, TypesAre
<1>3. lock'[s] = p /\ \A r \in Slots \ {s, w} : lock'[r] = lock[r]
  BY <1>1, TypesAre
<1>4. \A r \in Slots : icache'[r].inum = icache[r].inum /\ (icache[r].valid => icache'[r].valid)
  BY <1>2 DEF Follows
<1>5. \A r \in Slots : lock[r] \notin {p, Nobody} => lock'[r] = lock[r]
  BY <1>3
<1>6. CacheStep(p)
  BY <1>4, <1>5 DEF CacheStep
<1> QED
  BY <1>1, <1>2, <1>3, <1>4, <1>6

\* An empty directory has one name: no other directory is in it.
LEMMA OnlyName ==
  ASSUME NEW I \in [Inums -> InodeType], NEW L \in SUBSET Inums, IsTree(I, L), NEW d \in L, NEW n \in Names,
         NEW i \in L, i # Nil, I[i].type = "dir", I[d].ents[n] = i, \A m \in Names : I[i].ents[m] = Nil
  PROVE  NamesOf(I, L, i) = {<<d, n>>}
<1>1. NamesOf(I, L, i) \subseteq {<<d, n>>}
  <2> SUFFICES ASSUME NEW e \in Inums \X (Entries \ {"."}), e[1] \in L, I[e[1]].ents[e[2]] = i PROVE e = <<d, n>>
    BY DEF NamesOf
  <2>1. i # ROOTINO /\ I[i].ents[".."] = d
    BY DEF IsTree
  <2>2. e[2] # ".."
    <3> SUFFICES ASSUME e[2] = ".." PROVE FALSE
      OBVIOUS
    <3>1. I[e[1]].ents[".."] = i
      OBVIOUS
    <3>2. e[1] # ROOTINO
      BY <2>1, <3>1 DEF IsTree
    <3>3. \E m \in Names : I[i].ents[m] = e[1]
      BY <3>1, <3>2 DEF IsTree
    <3>4. e[1] # Nil
      BY NilSlot
    <3> QED
      BY <3>3, <3>4
  <2>3. e[2] \in Names
    BY <2>2 DEF Entries
  <2>4. e[1] = d
    BY <2>1, <2>3 DEF IsTree
  <2>5. e[2] = n
    BY <2>3, <2>4 DEF IsTree
  <2> QED
    BY <2>4, <2>5, PairIs
<1>2. <<d, n>> \in NamesOf(I, L, i)
  <2>1. n \in Entries \ {"."}
    BY InodeAssumption DEF Entries
  <2> QED
    BY <2>1 DEF NamesOf
<1> QED
  BY <1>1, <1>2

\* A directory has a name: its own or, for the root, its "..".
LEMMA HasAName ==
  ASSUME NEW I, NEW L \in SUBSET Inums, IsTree(I, L), NEW d \in L
  PROVE  Cardinality(NamesOf(I, L, d)) >= 1
<1>1. \E e : e \in NamesOf(I, L, d)
  <2>1. CASE d = ROOTINO
    <3>1. I[d].ents[".."] = d /\ ".." \in Entries \ {"."}
      BY <2>1 DEF IsTree, Entries
    <3>2. <<d, "..">> \in NamesOf(I, L, d)
      BY <3>1 DEF NamesOf
    <3> QED
      BY <3>2
  <2>2. CASE d # ROOTINO
    <3>1. PICK n \in Names : I[I[d].ents[".."]].ents[n] = d
      BY <2>2 DEF IsTree
    <3>2. I[d].ents[".."] \in L /\ n \in Entries \ {"."}
      BY InodeAssumption DEF IsTree, KeptIn, Entries
    <3>3. <<I[d].ents[".."], n>> \in NamesOf(I, L, d)
      BY <3>1, <3>2 DEF NamesOf
    <3> QED
      BY <3>3
  <2> QED
    BY <2>1, <2>2
<1>2. Cardinality(NamesOf(I, L, d)) \in Nat /\ Cardinality(NamesOf(I, L, d)) # 0
  BY <1>1, NamesFinite, FS_EmptySet
<1> QED
  BY <1>2

\* What unlink_erase does, in short.
LEMMA EraseIs ==
  ASSUME IInv, NEW p \in Procs, unlink_erase(p), lock[th[p].w] = p, icache[th[p].w].valid,
         NEW d, d = Ino(th[p].w), NEW i, i = Ino(th[p].ip), NEW n, n = Name(th[p])
  PROVE  /\ th[p].pc = "unlink_ip" /\ th[p].put = Nil /\ th[p].w # Nil /\ th[p].ip # Nil
         /\ th[p].w \in Slots /\ th[p].ip \in Slots
         /\ d \in Inums /\ i \in Inums /\ d # i
         /\ CacheStep(p) /\ icache'[th[p].ip].valid /\ lock'[th[p].ip] = p
         /\ \A r \in Slots : icache'[r].inum = icache[r].inum
         /\ disk.inode[i].type = "dir" => \A m \in Names : disk.inode[i].ents[m] = Nil
         /\ disk'.bitmap = disk.bitmap /\ disk'.inode[d].ents = [disk.inode[d].ents EXCEPT ![n] = Nil]
         /\ disk'.inode[d].type = disk.inode[d].type /\ disk'.inode[d].addr = disk.inode[d].addr
         /\ disk'.inode[d].nlink = disk.inode[d].nlink - (IF disk.inode[i].type = "dir" THEN 1 ELSE 0)
         /\ \A j \in Inums \ {d} : disk'.inode[j] = disk.inode[j]
         /\ Moves(th'[p], th[p], "iput", th[p].path, Nil, th[p].ip, th[p].w, "unlink_drop")
         /\ cwd'[p] = cwd[p] /\ ofile'[p] = ofile[p] /\ panicked' = panicked
<1> DEFINE t == th[p]
           e == Loaded(t.ip)
           x == icache[t.w]
           f == IF e.type = "dir" THEN [x EXCEPT !.nlink = x.nlink - 1] ELSE x
           b == iupdate(disk, f)
<1>1. /\ t.pc = "unlink_ip" /\ Lockable(t.ip) /\ icache' = [icache EXCEPT ![t.ip] = e, ![t.w] = f]
      /\ (e.type = "dir" => isdirempty(t.ip))
      /\ lock' = [lock EXCEPT ![t.ip] = p, ![t.w] = Nobody]
      /\ th' = [th EXCEPT ![p] = Put([t EXCEPT !.w = Nil], t.w, "unlink_drop")]
      /\ cwd' = cwd /\ ofile' = ofile /\ panicked' = panicked
      /\ disk' = [b EXCEPT !.inode[f.inum].ents[Name(t)] = Nil]
  BY ZenonT(60) DEF unlink_erase, At
<1>2. /\ t.put = Nil /\ t.w \in Slots /\ icache[t.w].ref > 0 /\ t.w # Nil
      /\ t.ip \in Slots /\ icache[t.ip].ref > 0 /\ t.ip # Nil /\ lock[t.ip] = Nobody /\ t.ip # t.w
  BY ZenonT(60), <1>1, HasW, HasIp, NilSlot, InodeAssumption DEF WithW, WithIp, Lockable
<1>3. Only(p) /\ Moves(th'[p], t, "iput", t.path, Nil, t.ip, t.w, "unlink_drop") /\ cwd'[p] = cwd[p] /\ ofile'[p] = ofile[p]
  BY ZenonT(60), <1>1, PutWGoes DEF PCs
<1>4. Follows(e, icache[t.ip]) /\ e.valid /\ i \in Inums /\ Known(disk.inode[i], e)
  BY ZenonT(60), <1>1, <1>2, LoadedIs, EntryIs DEF Ino
<1>5. x \in EntryType /\ d \in Inums /\ d = x.inum /\ Known(disk.inode[d], x) /\ x.nlink \in Int
  <2>1. x \in EntryType /\ d \in Inums /\ d = x.inum /\ Known(disk.inode[d], x)
    BY <1>2, EntryIs DEF Ino
  <2> QED
    BY <2>1 DEF EntryType
<1>6. d # i
  BY SMTT(60), <1>2 DEF IInv, OneEntryPerInode, Ino
<1>7. disk.inode[i].type = e.type /\ (e.type = "dir" => \A m \in Names : disk.inode[i].ents[m] = Nil)
  BY ZenonT(60), <1>1, <1>4 DEF Known, SameAttr, isdirempty, dirlookup, Ino
<1> HIDE DEF e, x
<1>8. /\ Follows(f, x) /\ f.valid = x.valid /\ f.type = x.type /\ f.addr = x.addr
      /\ f.nlink = x.nlink - (IF e.type = "dir" THEN 1 ELSE 0)
  <2>1. CASE e.type = "dir"
    <3>1. x.nlink - 1 \in Int
      BY <1>5
    <3> QED
      BY <1>5, <2>1, <3>1, NlinkIs
  <2>2. CASE e.type # "dir"
    BY <1>5, <2>2 DEF Follows
  <2> QED
    BY <2>1, <2>2
<1> HIDE DEF f
<1>9. f \in EntryType /\ f.inum = d /\ disk \in DiskType /\ f.valid /\ Follows(f, icache[t.w])
  BY <1>5, <1>8, TypesAre DEF Follows, x
<1>10. /\ b \in DiskType /\ b.bitmap = disk.bitmap /\ SameAttr(b.inode[d], f) /\ b.inode[d].ents = disk.inode[d].ents
       /\ \A j \in Inums \ {d} : b.inode[j] = disk.inode[j]
  <2>1. f.inum \in Inums
    BY <1>5, <1>9
  <2>2. /\ b \in DiskType /\ b.bitmap = disk.bitmap /\ SameAttr(b.inode[f.inum], f)
        /\ b.inode[f.inum].ents = disk.inode[f.inum].ents
        /\ \A j \in Inums \ {f.inum} : b.inode[j] = disk.inode[j]
    BY <1>9, <2>1, UpdateIs
  <2> HIDE DEF b
  <2> QED
    BY <1>9, <2>2
<1> HIDE DEF b
<1>11. disk' = [b EXCEPT !.inode[d].ents[n] = Nil]
  BY ZenonT(60), <1>1, <1>9
<1>12. /\ disk'.bitmap = b.bitmap /\ disk'.inode[d].ents = [b.inode[d].ents EXCEPT ![n] = Nil]
       /\ \A j \in Inums : SameAttr(disk'.inode[j], b.inode[j])
       /\ \A j \in Inums \ {d} : disk'.inode[j] = b.inode[j]
  <2>1. Nil \in Inums \cup {Nil} /\ b \in DiskType /\ d \in Inums
    BY <1>5, <1>10
  <2>2. Enters([b EXCEPT !.inode[d].ents[n] = Nil], b, d, n, Nil)
    BY Zenon, <2>1, EntWritten
  <2>3. Enters(disk', b, d, n, Nil)
    BY ZenonT(60), <1>11, <2>2
  <2> QED
    BY <2>3 DEF Enters
<1>13. /\ disk'.inode[d].type = disk.inode[d].type /\ disk'.inode[d].addr = disk.inode[d].addr
       /\ disk'.inode[d].nlink = disk.inode[d].nlink - (IF disk.inode[i].type = "dir" THEN 1 ELSE 0)
  BY SMTT(60), <1>5, <1>7, <1>8, <1>10, <1>12 DEF SameAttr, Known
<1>14. /\ CacheStep(p) /\ icache'[t.ip].valid /\ lock'[t.ip] = p
       /\ \A r \in Slots : icache'[r].inum = icache[r].inum
  BY ZenonT(60), <1>1, <1>2, <1>3, <1>4, <1>9, PairCache
<1>15. disk'.bitmap = disk.bitmap /\ disk'.inode[d].ents = [disk.inode[d].ents EXCEPT ![n] = Nil]
       /\ \A j \in Inums \ {d} : disk'.inode[j] = disk.inode[j]
  BY <1>10, <1>12
<1>16. disk.inode[i].type = "dir" => \A m \in Names : disk.inode[i].ents[m] = Nil
  BY SMTT(60), <1>7
<1> QED
  BY <1>1, <1>2, <1>3, <1>4, <1>5, <1>6, <1>13, <1>14, <1>15, <1>16, Zenon

\* unlink erases a name: a directory that goes is empty and has no other name.
LEMMA UnlinkEraseFs == ASSUME IInv, IInv', FsInv, NEW p \in Procs, unlink_erase(p) PROVE FsInv'
<1> DEFINE t == th[p]
           I == disk.inode
           J == disk'.inode
<1>1. CallInv /\ CallOk(p) /\ TreeInv /\ CountInv /\ BlockInv
  BY SMTT(60) DEF FsInv, CallInv
<1>2. t.pc = "unlink_ip"
  BY ZenonT(60) DEF unlink_erase, At
<1>3. Where(t) = "unlink_ip" /\ ~Owes(t) /\ ~Dropping(t)
  BY <1>2, DebtIs DEF Putting, Owes
<1>4. lock[t.w] = p /\ icache[t.w].valid
  BY <1>1, <1>3 DEF CallOk, HoldOk, Held
<1> PICK d : d = Ino(t.w)
  OBVIOUS
<1> PICK i : i = Ino(t.ip)
  OBVIOUS
<1> PICK n : n = Name(t)
  OBVIOUS
<1>5. /\ t.put = Nil /\ t.w # Nil /\ t.ip # Nil /\ t.w \in Slots /\ t.ip \in Slots
      /\ d \in Inums /\ i \in Inums /\ d # i
      /\ CacheStep(p) /\ icache'[t.ip].valid /\ lock'[t.ip] = p
      /\ \A r \in Slots : icache'[r].inum = icache[r].inum
      /\ I[i].type = "dir" => \A m \in Names : I[i].ents[m] = Nil
      /\ disk'.bitmap = disk.bitmap /\ J[d].ents = [I[d].ents EXCEPT ![n] = Nil]
      /\ J[d].type = I[d].type /\ J[d].addr = I[d].addr
      /\ J[d].nlink = I[d].nlink - (IF I[i].type = "dir" THEN 1 ELSE 0)
      /\ \A j \in Inums \ {d} : J[j] = I[j]
      /\ Moves(th'[p], t, "iput", t.path, Nil, t.ip, t.w, "unlink_drop")
      /\ cwd'[p] = cwd[p] /\ ofile'[p] = ofile[p] /\ panicked' = panicked
  BY <1>4, EraseIs
<1>6. d \in Kept /\ d \in Live /\ Live \in SUBSET Inums
  BY SMTT(60), <1>1, <1>3, KeptIs DEF CallOk, WalkOk, InDir
<1>7. n \in Removable /\ n \in Names /\ I[d].ents[n] = i
  BY SMTT(60), <1>1, <1>3 DEF CallOk, EraseOk, Node, Ino, Removable
<1>8. /\ th'[p].pc = "iput" /\ th'[p].w = Nil /\ th'[p].ip = t.ip /\ th'[p].put = t.w /\ th'[p].ret = "unlink_drop"
      /\ th'[p].op = t.op /\ th'[p].new = t.new
  BY SMTT(60), <1>5 DEF Moves
<1>9. Where(th'[p]) = "unlink_drop"
  BY SMTT(60), <1>5, <1>8 DEF Where
<1>10. Owes(th'[p]) /\ Dropping(th'[p]) /\ icache'[th'[p].ip].inum = i
  BY ZenonT(60), <1>5, <1>8, <1>9 DEF Owes, Dropping, Ino
<1>11. I \in [Inums -> InodeType] /\ J \in [Inums -> InodeType] /\ IsTree(I, Live)
  BY <1>1 DEF IInv, TypeOK, TreeInv
<1>12. \A j \in Inums : J[j].type = I[j].type /\ J[j].addr = I[j].addr
  BY <1>5
<1>13. I[d].type = "dir"
  BY <1>1, <1>6, KeptIs
<1>14. Sound(J)
  BY <1>1, <1>5, <1>12, <1>13, SoundStays
<1>15. i \in Live <=> I[i].type = "dir"
  <2>1. i # Nil
    BY <1>5, NilSlot
  <2>2. I[i].type = "dir" => i \in Live
    BY <1>6, <1>7, <1>11, <2>1 DEF IsTree
  <2> QED
    BY <1>1, <2>2, KeptIs
<1>16. /\ IsTree(J, Live \ {i}) /\ KeptIn(J, Live \ {i}) = Kept
       /\ \A j \in Inums \ {i, d} : NamesOf(J, Live \ {i}, j) = NamesOf(I, Live, j)
       /\ NamesOf(J, Live \ {i}, i) = NamesOf(I, Live, i) \ {<<d, n>>} /\ <<d, n>> \in NamesOf(I, Live, i)
       /\ i \notin Live => NamesOf(J, Live \ {i}, d) = NamesOf(I, Live, d)
       /\ i \in Live => NamesOf(J, Live \ {i}, d) = NamesOf(I, Live, d) \ {<<i, "..">>} /\ <<i, "..">> \in NamesOf(I, Live, d)
  <2>1. /\ i \in Live => \A m \in Names : I[i].ents[m] = Nil
        /\ \A k \in Inums : J[k].type = I[k].type
        /\ \A k \in Inums \ {d} : J[k].ents = I[k].ents
        /\ d \in KeptIn(I, Live)
    BY <1>5, <1>6, <1>12, <1>15 DEF Kept
  <2>2. J[d].ents = [I[d].ents EXCEPT ![n] = Nil] /\ i \in Inums
    BY <1>5
  <2> HIDE DEF I, J
  <2>3. Erases(I, J, Live, d, n, i)
    BY ZenonT(60), <1>6, <1>7, <1>11, <1>14, <1>15, <2>1, <2>2 DEF Erases
  <2>4. Erased(I, J, Live, d, n, i)
    BY <2>3, TreeErase
  <2> QED
    BY <1>5, <2>4 DEF Erased, Kept, I
<1> PICK b \in {0, 1} : b = IF I[i].type = "dir" THEN 1 ELSE 0
  OBVIOUS
<1>17. Cardinality(NamesOf(J, Live \ {i}, d)) = Cardinality(NamesOf(I, Live, d)) - b
  <2>1. Cardinality(NamesOf(I, Live, d)) \in Nat /\ IsFiniteSet(NamesOf(I, Live, d))
    BY NamesFinite
  <2>2. CASE i \in Live
    <3> PICK S : S = NamesOf(I, Live, d)
      OBVIOUS
    <3> PICK x : x = <<i, "..">>
      OBVIOUS
    <3>1. Cardinality(S \ {x}) = Cardinality(S) - 1
      BY ZenonT(60), <1>16, <2>1, <2>2, FS_RemoveElement
    <3> QED
      BY <1>15, <1>16, <2>2, <3>1
  <2>3. CASE i \notin Live
    BY <1>15, <1>16, <2>1, <2>3
  <2> QED
    BY <2>2, <2>3
<1>18. J[d].nlink = I[d].nlink - b /\ J[d].nlink >= 1
  <2>1. Cardinality(NamesOf(J, Live \ {i}, d)) >= 1 /\ Cardinality(NamesOf(J, Live \ {i}, d)) \in Nat
    BY SMTT(60), <1>5, <1>6, <1>16, HasAName, NamesFinite
  <2>2. I[d].nlink = Cardinality(NamesOf(I, Live, d)) + Cardinality(Owing(d)) /\ Cardinality(Owing(d)) \in Nat
    BY <1>1, <1>5, OwingFinite DEF CountInv
  <2>3. Cardinality(NamesOf(I, Live, d)) \in Nat
    BY SMTT(60), NamesFinite
  <2>4. J[d].nlink = I[d].nlink - b
    BY <1>5
  <2> QED
    BY SMTT(60), <1>17, <2>1, <2>2, <2>3, <2>4
<1>19. Live' = Live \ {i}
  <2>1. \A j \in Inums \ {i} : Dropped(j)' <=> Dropped(j)
    BY <1>1, <1>3, <1>5, <1>10, DroppedMoves
  <2>2. Dropped(i)'
    BY <1>10 DEF Dropped, Ino
  <2>3. \A j \in Inums \ {i} : j \in Live' <=> j \in Live
    <3> SUFFICES ASSUME NEW j \in Inums \ {i} PROVE J[j].nlink > 0 <=> I[j].nlink > 0
      BY <1>12, <2>1, LiveIs
    <3>1. CASE j = d
      <4>1. I[d].nlink >= 1
        BY SMTT(60), <1>1, <1>6, KeptIs
      <4>2. I[d].nlink \in Int /\ J[d].nlink \in Int
        BY SMTT(60), <1>5, <1>11 DEF InodeType
      <4> HIDE DEF I, J
      <4> QED
        BY <1>18, <3>1, <4>1, <4>2
    <3>2. CASE j # d
      BY <1>5, <3>2
    <3> QED
      BY <3>1, <3>2
  <2>4. i \notin Live' /\ Live' \subseteq Inums /\ Live \subseteq Inums
    BY <2>2, LiveIs
  <2> QED
    BY SMTT(60), <2>3, <2>4
<1>20. Kept' = Kept /\ TreeInv'
  BY <1>16, <1>19 DEF Kept, TreeInv
<1>21. p \in Owing(i)' /\ \A j \in Inums : p \notin Owing(j) /\ (j # i => p \notin Owing(j)')
  BY <1>3, <1>10 DEF Owing, Ino
<1>22. CountInv'
  <2>1. \A j \in Inums : I[j].nlink \in Int
    BY <1>11 DEF InodeType
  <2>2. ASSUME NEW j \in Inums PROVE J[j].nlink = Cardinality(NamesOf(J, Live', j)) + Cardinality(Owing(j)')
    <3>1. Cardinality(NamesOf(I, Live, j)) \in Nat /\ IsFiniteSet(NamesOf(I, Live, j))
      BY SMTT(60), NamesFinite
    <3>2. CASE j = i
      <4>1. Cardinality(NamesOf(J, Live', i)) = Cardinality(NamesOf(I, Live, i)) + (-1)
        <5> PICK S : S = NamesOf(I, Live, i)
          OBVIOUS
        <5> PICK x : x = <<d, n>>
          OBVIOUS
        <5>1. Cardinality(S \ {x}) = Cardinality(S) - 1 /\ Cardinality(S) \in Nat
          BY <1>16, <3>1, <3>2, FS_RemoveElement
        <5>2. Cardinality(S \ {x}) = Cardinality(S) + (-1)
          BY <5>1
        <5> QED
          BY <1>16, <1>19, <5>2
      <4>2. J[i].nlink + (IF p \in Owing(i) THEN 1 ELSE 0) = I[i].nlink + (-1) + (IF p \in Owing(i)' THEN 1 ELSE 0)
        BY SMTT(60), <1>5, <1>21, <2>1
      <4> QED
        BY <1>1, <1>5, <3>2, <4>1, <4>2, CountMoved
    <3>3. CASE j = d
      <4>1. -b \in Int /\ Cardinality(NamesOf(J, Live', d)) = Cardinality(NamesOf(I, Live, d)) + (-b)
        BY SMTT(60), <1>17, <1>19, <3>1, <3>3
      <4>2. J[d].nlink + (IF p \in Owing(d) THEN 1 ELSE 0) = I[d].nlink + (-b) + (IF p \in Owing(d)' THEN 1 ELSE 0)
        BY SMTT(60), <1>5, <1>18, <1>21, <2>1
      <4> QED
        BY <1>1, <1>5, <3>3, <4>1, <4>2, CountMoved
    <3>4. CASE j \notin {i, d}
      <4>1. Cardinality(NamesOf(J, Live', j)) = Cardinality(NamesOf(I, Live, j)) + 0
        BY SMTT(60), <1>16, <1>19, <3>1, <3>4
      <4>2. J[j].nlink + (IF p \in Owing(j) THEN 1 ELSE 0) = I[j].nlink + 0 + (IF p \in Owing(j)' THEN 1 ELSE 0)
        BY <1>5, <1>21, <2>1, <3>4
      <4> QED
        BY <1>1, <1>5, <4>1, <4>2, CountMoved
    <3> QED
      BY <3>2, <3>3, <3>4
  <2> QED
    BY <2>2 DEF CountInv
<1>23. BlockInv'
  BY SMTT(60), <1>1, <1>5, <1>12, BlockSame
<1>24. DiskStep(p)
  <2>1. t.w \in Uses(p) \ {Nil}
    BY SMTT(60), <1>5 DEF Uses
  <2> QED
    BY SMTT(60), <1>4, <1>5, <1>12, <1>20, <2>1, WriteStepIs
<1>25. UseOk(p)' /\ NewUses(p)
  <2>1. Uses(p)' \subseteq Uses(p) \cup {Nil}
    BY <1>5, <1>8 DEF Uses
  <2> QED
    BY SMTT(60), <1>1, <1>5, <1>12, <2>1, UseStays
<1>26. WayOk(th'[p])
  BY <1>1, <1>8, <1>9 DEF CallOk, WayOk, Parents
<1>27. WalkOk(p)'
  <2>1. icache'[cwd'[p]].inum \in Kept'
    BY SMTT(60), <1>1, <1>5, <1>20, CwdStays
  <2> QED
    BY SMTT(60), <1>9, <2>1 DEF WalkOk, InDir, Walking, Parents, Ino
<1>28. HoldOk(p)'
  BY SMTT(60), <1>5, <1>8, <1>9 DEF HoldOk, Held
<1>29. DropOk(p)'
  <2> SUFFICES ASSUME I[i].type = "dir" PROVE J[i].nlink = 1
    BY <1>5, <1>10, <1>12 DEF DropOk, Node
  <2>1. NamesOf(I, Live, i) = {<<d, n>>}
    <3>1. i \in Live /\ i # Nil /\ \A m \in Names : I[i].ents[m] = Nil
      BY <1>5, <1>15, NilSlot
    <3> HIDE DEF I
    <3> QED
      BY SMTT(60), <1>6, <1>7, <1>11, <3>1, OnlyName
  <2>2. Owing(i) = {}
    <3> SUFFICES ASSUME NEW q \in Owing(i) PROVE FALSE
      OBVIOUS
    <3>1. q \in Procs /\ Owes(th[q]) /\ Ino(th[q].ip) = i
      BY DEF Owing
    <3>2. ~Dropping(th[q])
      BY <1>15, <3>1 DEF Live
    <3>3. Node(th[q].ip).type = "file"
      BY <1>1, <3>1, <3>2 DEF CallInv, CallOk, LinkOk, Owes
    <3> QED
      BY <3>1, <3>3 DEF Node, Ino
  <2>3. Cardinality(NamesOf(I, Live, i)) = 1 /\ Cardinality(Owing(i)) = 0
    BY <2>1, <2>2, FS_EmptySet, FS_Singleton
  <2>4. I[i].nlink = 1
    BY <1>1, <1>5, <2>3 DEF CountInv
  <2> QED
    BY SMTT(60), <1>5, <2>4
<1>30. FillOk(p)' /\ EraseOk(p)' /\ LinkOk(p)' /\ FreeOk(p)'
  BY SMTT(60), <1>8, <1>9 DEF FillOk, EraseOk, LinkOk, FreeOk, Linking, Looking, Parents, Leaves
<1>31. CallOk(p)' /\ NoPanic'
  BY <1>5, <1>25, <1>26, <1>27, <1>28, <1>29, <1>30 DEF CallOk, FsInv, NoPanic
<1> QED
  BY <1>5, <1>20, <1>22, <1>23, <1>24, <1>25, <1>31, DiskFs

\* Disk e is disk d with other entries f in inode k.
Refills(e, d, k, f) ==
  /\ e \in DiskType /\ e.bitmap = d.bitmap /\ e.inode[k].ents = f
  /\ \A j \in Inums : SameAttr(e.inode[j], d.inode[j])
  /\ \A j \in Inums \ {k} : e.inode[j] = d.inode[j]

\* The entries of an inode are written.
LEMMA EntsRefilled ==
  ASSUME NEW d \in DiskType, NEW k \in Inums, NEW f \in [Entries -> Inums \cup {Nil}]
  PROVE  Refills([d EXCEPT !.inode[k].ents = f], d, k, f)
<1> DEFINE r == [d EXCEPT !.inode[k].ents = f]
<1>1. /\ r \in DiskType /\ r.bitmap = d.bitmap /\ r.inode[k].ents = f
      /\ \A j \in Inums : SameAttr(r.inode[j], d.inode[j])
      /\ \A j \in Inums \ {k} : r.inode[j] = d.inode[j]
  BY ZenonT(60), EntsWritten
<1> HIDE DEF r
<1>2. Refills(r, d, k, f)
  BY ZenonT(60), <1>1 DEF Refills
<1> QED
  BY ZenonT(60), <1>2 DEF r

\* create fills the new inode i and enters it in the directory d.
LEMMA FillIs ==
  ASSUME IInv, NEW p \in Procs, create_fill(p), lock[th[p].w] = p, icache[th[p].w].valid,
         NEW d, d = Ino(th[p].w), NEW i, i = Ino(th[p].ip), NEW n, n = Name(th[p])
  PROVE  /\ th[p].pc = "create_fill" /\ th[p].put = Nil /\ th[p].w # Nil /\ th[p].ip # Nil
         /\ th[p].w \in Slots /\ th[p].ip \in Slots /\ lock[th[p].ip] = Nobody
         /\ d \in Inums /\ i \in Inums /\ d # i
         /\ CacheStep(p) /\ icache'[th[p].ip].valid /\ lock'[th[p].ip] = p
         /\ \A r \in Slots : icache'[r].inum = icache[r].inum
         /\ disk'.bitmap = disk.bitmap
         /\ disk'.inode[d].ents = [disk.inode[d].ents EXCEPT ![n] = i]
         /\ disk'.inode[d].type = disk.inode[d].type /\ disk'.inode[d].addr = disk.inode[d].addr
         /\ disk'.inode[d].nlink = disk.inode[d].nlink + (IF th[p].op = "mkdir" THEN 1 ELSE 0)
         /\ disk'.inode[i].type = disk.inode[i].type /\ disk'.inode[i].addr = disk.inode[i].addr
         /\ disk'.inode[i].nlink = 1
         /\ disk'.inode[i].ents = IF th[p].op = "mkdir" THEN [disk.inode[i].ents EXCEPT !["."] = i, ![".."] = d]
                                                        ELSE disk.inode[i].ents
         /\ \A j \in Inums \ {d, i} : disk'.inode[j] = disk.inode[j]
         /\ Moves(th'[p], th[p], "iput", th[p].path, Nil, th[p].ip, th[p].w, "opened")
         /\ cwd'[p] = cwd[p] /\ ofile'[p] = ofile[p] /\ panicked' = panicked
<1> DEFINE t == th[p]
           l == Loaded(t.ip)
           x == icache[t.w]
           e == [l EXCEPT !.nlink = 1]
           f == IF t.op = "mkdir" THEN [x EXCEPT !.nlink = x.nlink + 1] ELSE x
           a == iupdate(disk, e)
           b == iupdate(a, f)
           g == IF t.op = "mkdir" THEN [b.inode[e.inum].ents EXCEPT !["."] = e.inum, ![".."] = f.inum]
                                  ELSE b.inode[e.inum].ents
           c == [b EXCEPT !.inode[e.inum].ents = g]
<1>1. /\ t.pc = "create_fill" /\ Lockable(t.ip) /\ icache' = [icache EXCEPT ![t.ip] = e, ![t.w] = f]
      /\ lock' = [lock EXCEPT ![t.ip] = p, ![t.w] = Nobody]
      /\ th' = [th EXCEPT ![p] = Put([t EXCEPT !.w = Nil], t.w, "opened")]
      /\ cwd' = cwd /\ ofile' = ofile /\ panicked' = panicked
  BY ZenonT(60) DEF create_fill, At
<1>2. disk' = [c EXCEPT !.inode[f.inum].ents[Name(t)] = e.inum]
  BY ZenonT(60) DEF create_fill
<1>3. /\ t.put = Nil /\ t.w \in Slots /\ icache[t.w].ref > 0 /\ t.w # Nil
      /\ t.ip \in Slots /\ icache[t.ip].ref > 0 /\ t.ip # Nil /\ lock[t.ip] = Nobody /\ t.ip # t.w
  BY ZenonT(60), <1>1, HasW, HasIp, NilSlot, InodeAssumption DEF WithW, WithIp, Lockable
<1>4. Only(p) /\ Moves(th'[p], t, "iput", t.path, Nil, t.ip, t.w, "opened") /\ cwd'[p] = cwd[p] /\ ofile'[p] = ofile[p]
  BY <1>1, <1>3, PutWGoes DEF PCs
<1>5. Follows(l, icache[t.ip]) /\ l.valid /\ l \in EntryType /\ l.inum = i /\ i \in Inums /\ Known(disk.inode[i], l)
  BY <1>1, <1>3, LoadedIs, EntryIs DEF Ino, Follows
<1>6. x \in EntryType /\ d \in Inums /\ d = x.inum /\ Known(disk.inode[d], x) /\ x.nlink \in Int
  <2>1. x \in EntryType /\ d \in Inums /\ d = x.inum /\ Known(disk.inode[d], x)
    BY <1>3, EntryIs DEF Ino
  <2> QED
    BY <2>1 DEF EntryType
<1>7. d # i
  BY <1>3 DEF IInv, OneEntryPerInode, Ino
<1> HIDE DEF l, x
<1>8. Follows(e, l) /\ e.valid = l.valid /\ e.type = l.type /\ e.addr = l.addr /\ e.nlink = 1
  <2>1. 1 \in Int
    OBVIOUS
  <2> QED
    BY ZenonT(60), <1>5, <2>1, NlinkIs
<1>9. /\ Follows(f, x) /\ f.valid = x.valid /\ f.type = x.type /\ f.addr = x.addr
      /\ f.nlink = x.nlink + (IF t.op = "mkdir" THEN 1 ELSE 0)
  <2>1. CASE t.op = "mkdir"
    <3>1. x.nlink + 1 \in Int
      BY <1>6
    <3> QED
      BY <1>6, <2>1, <3>1, NlinkIs
  <2>2. CASE t.op # "mkdir"
    BY <1>6, <2>2 DEF Follows
  <2> QED
    BY <2>1, <2>2
<1> HIDE DEF e, f
<1>10. /\ e \in EntryType /\ e.inum = i /\ e.valid /\ Follows(e, icache[t.ip])
       /\ f \in EntryType /\ f.inum = d /\ f.valid /\ Follows(f, icache[t.w]) /\ disk \in DiskType
  BY <1>5, <1>6, <1>8, <1>9, TypesAre DEF Follows, x
<1>11. /\ a \in DiskType /\ a.bitmap = disk.bitmap /\ SameAttr(a.inode[i], e) /\ a.inode[i].ents = disk.inode[i].ents
       /\ \A j \in Inums \ {i} : a.inode[j] = disk.inode[j]
  <2>1. e.inum \in Inums
    BY <1>5, <1>10
  <2>2. /\ a \in DiskType /\ a.bitmap = disk.bitmap /\ SameAttr(a.inode[e.inum], e)
        /\ a.inode[e.inum].ents = disk.inode[e.inum].ents
        /\ \A j \in Inums \ {e.inum} : a.inode[j] = disk.inode[j]
    BY <1>10, <2>1, UpdateIs
  <2> HIDE DEF a
  <2> QED
    BY <1>10, <2>2
<1> HIDE DEF a
<1>12. /\ b \in DiskType /\ b.bitmap = a.bitmap /\ SameAttr(b.inode[d], f) /\ b.inode[d].ents = a.inode[d].ents
       /\ \A j \in Inums \ {d} : b.inode[j] = a.inode[j]
  <2>1. f.inum \in Inums
    BY <1>6, <1>10
  <2>2. /\ b \in DiskType /\ b.bitmap = a.bitmap /\ SameAttr(b.inode[f.inum], f)
        /\ b.inode[f.inum].ents = a.inode[f.inum].ents
        /\ \A j \in Inums \ {f.inum} : b.inode[j] = a.inode[j]
    BY <1>10, <1>11, <2>1, UpdateIs
  <2> HIDE DEF b
  <2> QED
    BY <1>10, <2>2
<1> HIDE DEF b
<1>13. /\ b.bitmap = disk.bitmap /\ b.inode[i].ents = disk.inode[i].ents /\ b.inode[d].ents = disk.inode[d].ents
       /\ SameAttr(b.inode[i], e) /\ SameAttr(b.inode[d], f) /\ \A j \in Inums \ {d, i} : b.inode[j] = disk.inode[j]
  BY <1>5, <1>6, <1>7, <1>11, <1>12
<1>14. g = IF t.op = "mkdir" THEN [disk.inode[i].ents EXCEPT !["."] = i, ![".."] = d] ELSE disk.inode[i].ents
  <2>1. b.inode[e.inum].ents = disk.inode[i].ents /\ e.inum = i /\ f.inum = d
    BY ZenonT(60), <1>10, <1>13
  <2> QED
    BY Zenon, <2>1
<1>15. g \in [Entries -> Inums \cup {Nil}]
  <2>1. b.inode[e.inum].ents \in [Entries -> Inums \cup {Nil}]
    BY <1>5, <1>10, <1>12 DEF DiskType, InodeType
  <2> QED
    BY <1>5, <1>6, <1>10, <2>1
<1> HIDE DEF g
<1>16. /\ c \in DiskType /\ c.bitmap = b.bitmap /\ c.inode[i].ents = g
       /\ \A j \in Inums : SameAttr(c.inode[j], b.inode[j])
       /\ \A j \in Inums \ {i} : c.inode[j] = b.inode[j]
  <2>1. e.inum = i
    BY <1>10
  <2>2. c = [b EXCEPT !.inode[i].ents = g]
    BY Zenon, <2>1
  <2> HIDE DEF c
  <2>3. b \in DiskType /\ i \in Inums
    BY <1>5, <1>12
  <2>4. Refills([b EXCEPT !.inode[i].ents = g], b, i, g)
    BY Zenon, <1>15, <2>3, EntsRefilled
  <2>5. Refills(c, b, i, g)
    BY Zenon, <2>2, <2>4
  <2> QED
    BY <2>5 DEF Refills
<1> HIDE DEF c
<1>17. disk' = [c EXCEPT !.inode[d].ents[n] = i]
  BY ZenonT(60), <1>2, <1>10
<1>18. /\ disk'.bitmap = c.bitmap /\ disk'.inode[d].ents = [c.inode[d].ents EXCEPT ![n] = i]
       /\ \A j \in Inums : SameAttr(disk'.inode[j], c.inode[j])
       /\ \A j \in Inums \ {d} : disk'.inode[j] = c.inode[j]
  <2>1. i \in Inums \cup {Nil} /\ c \in DiskType /\ d \in Inums
    BY <1>5, <1>6, <1>16
  <2>2. Enters([c EXCEPT !.inode[d].ents[n] = i], c, d, n, i)
    BY ZenonT(60), <2>1, EntWritten
  <2>3. Enters(disk', c, d, n, i)
    BY Zenon, <1>17, <2>2
  <2> QED
    BY <2>3 DEF Enters
<1>19. /\ disk'.inode[d].type = disk.inode[d].type /\ disk'.inode[d].addr = disk.inode[d].addr
       /\ disk'.inode[d].nlink = disk.inode[d].nlink + (IF t.op = "mkdir" THEN 1 ELSE 0)
  BY SMTT(60), <1>6, <1>9, <1>13, <1>16, <1>18 DEF SameAttr, Known
<1>20. disk'.inode[i].type = disk.inode[i].type /\ disk'.inode[i].addr = disk.inode[i].addr /\ disk'.inode[i].nlink = 1
  BY SMTT(60), <1>5, <1>8, <1>13, <1>16, <1>18 DEF SameAttr, Known
<1>21. disk'.inode[i].ents = g /\ \A j \in Inums \ {d, i} : disk'.inode[j] = disk.inode[j]
  BY <1>5, <1>7, <1>13, <1>16, <1>18
<1>22. disk'.inode[d].ents = [disk.inode[d].ents EXCEPT ![n] = i] /\ disk'.bitmap = disk.bitmap
  <2>1. c.inode[d].ents = disk.inode[d].ents /\ c.bitmap = disk.bitmap
    BY <1>6, <1>7, <1>13, <1>16
  <2> QED
    BY Zenon, <1>18, <2>1
<1>23. /\ CacheStep(p) /\ icache'[t.ip].valid /\ lock'[t.ip] = p
       /\ \A r \in Slots : icache'[r].inum = icache[r].inum
  BY ZenonT(60), <1>1, <1>3, <1>4, <1>10, PairCache
<1> QED
  BY <1>1, <1>3, <1>4, <1>5, <1>6, <1>7, <1>14, <1>19, <1>20, <1>21, <1>22, <1>23, Zenon

\* create enters a new inode: it had no name, no link and nobody who owes one.
LEMMA CreateFillFs == ASSUME IInv, IInv', FsInv, NEW p \in Procs, create_fill(p) PROVE FsInv'
<1> DEFINE t == th[p]
           I == disk.inode
           J == disk'.inode
<1>1. CallInv /\ CallOk(p) /\ TreeInv /\ CountInv /\ BlockInv
  BY DEF FsInv, CallInv
<1>2. t.pc = "create_fill"
  BY ZenonT(60) DEF create_fill, At
<1>3. Where(t) = "create_fill" /\ ~Owes(t) /\ ~Dropping(t)
  BY <1>2, DebtIs DEF Putting, Owes
<1>4. lock[t.w] = p /\ icache[t.w].valid
  BY <1>1, <1>3 DEF CallOk, HoldOk, Held
<1> PICK d : d = Ino(t.w)
  OBVIOUS
<1> PICK i : i = Ino(t.ip)
  OBVIOUS
<1> PICK n : n = Name(t)
  OBVIOUS
<1> PICK b \in {0, 1} : b = IF t.op = "mkdir" THEN 1 ELSE 0
  BY SMTT(60)
<1>5. /\ t.put = Nil /\ t.w # Nil /\ t.ip # Nil /\ t.w \in Slots /\ t.ip \in Slots /\ lock[t.ip] = Nobody
      /\ d \in Inums /\ i \in Inums /\ d # i
      /\ CacheStep(p) /\ icache'[t.ip].valid /\ lock'[t.ip] = p
      /\ \A r \in Slots : icache'[r].inum = icache[r].inum
      /\ disk'.bitmap = disk.bitmap /\ J[d].ents = [I[d].ents EXCEPT ![n] = i]
      /\ J[d].type = I[d].type /\ J[d].addr = I[d].addr /\ J[d].nlink = I[d].nlink + b
      /\ J[i].type = I[i].type /\ J[i].addr = I[i].addr /\ J[i].nlink = 1
      /\ J[i].ents = IF t.op = "mkdir" THEN [I[i].ents EXCEPT !["."] = i, ![".."] = d] ELSE I[i].ents
      /\ \A j \in Inums \ {d, i} : J[j] = I[j]
      /\ Moves(th'[p], t, "iput", t.path, Nil, t.ip, t.w, "opened")
      /\ cwd'[p] = cwd[p] /\ ofile'[p] = ofile[p] /\ panicked' = panicked
  <2>1. lock[th[p].w] = p /\ icache[th[p].w].valid
    BY <1>4
  <2> QED
    BY <2>1, FillIs
<1>6. d \in Kept /\ d \in Live /\ Live \in SUBSET Inums
  BY <1>1, <1>3, KeptIs DEF CallOk, WalkOk, InDir
<1>7. I[d].ents[n] = Nil /\ n \in Names
  <2>1. I[d].ents[n] = Nil /\ n \in Entries
    BY <1>1, <1>3 DEF CallOk, FillOk, WayOk, Node, Ino, Name
  <2> QED
    BY SMTT(60), <1>1, <1>6, <2>1, FreeName DEF TreeInv
<1>8. I[i].nlink = 0 /\ I[i].ents = NoEnts /\ I[i].type = IF t.op = "mkdir" THEN "dir" ELSE "file"
  <2>1. I[i] = [Free EXCEPT !.type = TypeMade(t.op)]
    BY <1>1, <1>3 DEF CallOk, FillOk, Node, Ino
  <2> QED
    BY <2>1 DEF Free, TypeMade
<1>9. i \notin Live /\ NamesOf(I, Live, i) = {} /\ Owing(i) = {}
  <2>1. Cardinality(NamesOf(I, Live, i)) \in Nat /\ Cardinality(Owing(i)) \in Nat
    BY SMTT(60), NamesFinite, OwingFinite
  <2>2. 0 = Cardinality(NamesOf(I, Live, i)) + Cardinality(Owing(i))
    BY <1>1, <1>5, <1>8 DEF CountInv
  <2>3. Cardinality(NamesOf(I, Live, i)) = 0 /\ Cardinality(Owing(i)) = 0
    BY <2>1, <2>2
  <2>4. NamesOf(I, Live, i) = {}
    BY <2>3, NamesFinite, FS_EmptySet
  <2>5. Owing(i) = {}
    BY <2>3, OwingFinite, FS_EmptySet
  <2> QED
    BY <1>8, <2>4, <2>5 DEF Live
<1>10. I \in [Inums -> InodeType] /\ J \in [Inums -> InodeType] /\ IsTree(I, Live)
  BY SMTT(60), <1>1 DEF IInv, TypeOK, TreeInv
<1>11. \A j \in Inums : J[j].type = I[j].type /\ J[j].addr = I[j].addr
  BY SMTT(60), <1>5
<1>12. I[d].type = "dir" /\ I[d].nlink >= 1 /\ I[d].nlink \in Int
  <2>1. I[d].type = "dir" /\ I[d].nlink >= 1
    BY <1>1, <1>6, KeptIs
  <2> QED
    BY <1>5, <1>10, <2>1 DEF InodeType
<1>13. Sound(J)
  <2>1. I[i].type = "dir" \/ (I[i].type # "free" /\ J[i].ents = I[i].ents)
    BY SMTT(60), <1>5, <1>8
  <2>2. \A j \in Inums : J[j] = I[j] \/ I[j].type = "dir" \/ (I[j].type # "free" /\ J[j].ents = I[j].ents)
    BY <1>5, <1>12, <2>1
  <2> QED
    BY SMTT(60), <1>1, <1>11, <2>2, SoundStays
<1> PICK M : M = IF t.op = "mkdir" THEN Live \cup {i} ELSE Live
  OBVIOUS
<1>14. /\ IsTree(J, M) /\ Kept \subseteq KeptIn(J, M) /\ NamesOf(J, M, i) = {<<d, n>>}
       /\ \A j \in Inums \ {i, d} : NamesOf(J, M, j) = NamesOf(I, Live, j)
       /\ Cardinality(NamesOf(J, M, d)) = Cardinality(NamesOf(I, Live, d)) + b
  <2>1. Cardinality(NamesOf(I, Live, d)) \in Nat /\ IsFiniteSet(NamesOf(I, Live, d)) /\ d \in KeptIn(I, Live)
    BY <1>6, NamesFinite DEF Kept
  <2>2. CASE t.op = "mkdir"
    <3>1. /\ \A k \in Live \ {d} : J[k].ents = I[k].ents
          /\ \A k \in Inums : J[k].type = I[k].type
          /\ i \in Inums \ Live /\ J[d].ents = [I[d].ents EXCEPT ![n] = i]
      BY <1>5, <1>6, <1>9, <1>11
    <3>2. J[i].ents["."] = i /\ J[i].ents[".."] = d /\ \A m \in Names : J[i].ents[m] = Nil
      <4>1. J[i].ents = [NoEnts EXCEPT !["."] = i, ![".."] = d]
        BY <1>5, <1>8, <2>2
      <4>2. "." \in Entries /\ ".." \in Entries /\ Names \subseteq Entries /\ {".", ".."} \cap Names = {}
        BY InodeAssumption DEF Entries
      <4> QED
        BY SMTT(60), <4>1, <4>2 DEF NoEnts
    <3> HIDE DEF I, J
    <3>3. Fills(I, J, Live, d, n, i)
      BY ZenonT(60), <1>6, <1>7, <1>9, <1>10, <1>13, <2>1, <3>1, <3>2 DEF Fills
    <3>4. Filled(I, J, Live, d, n, i)
      BY <3>3, TreeFill
    <3> PICK S : S = NamesOf(I, Live, d)
      OBVIOUS
    <3> PICK x : x = <<i, "..">>
      OBVIOUS
    <3>5. Cardinality(S \cup {x}) = Cardinality(S) + 1
      BY <2>1, <3>4, FS_AddElement DEF Filled
    <3>6. M = Live \cup {i} /\ b = 1
      BY SMTT(60), <2>2
    <3> QED
      BY <3>4, <3>5, <3>6 DEF Filled, Kept, I
  <2>3. CASE t.op # "mkdir"
    <3>1. /\ \A k \in Live \ {d} : J[k].ents = I[k].ents
          /\ \A k \in Inums : J[k].type = I[k].type
          /\ i \in Inums \ Live /\ J[d].ents = [I[d].ents EXCEPT ![n] = i] /\ J[i].type # "dir"
      BY <1>5, <1>6, <1>8, <1>9, <1>11, <2>3
    <3> HIDE DEF I, J
    <3>2. Enrols(I, J, Live, d, n, i)
      BY ZenonT(60), <1>6, <1>7, <1>10, <1>13, <3>1 DEF Enrols
    <3>4. Enrolled(I, J, Live, d, n, i)
      BY <3>2, TreeName
    <3>3. M = Live /\ b = 0
      BY SMTT(60), <2>3
    <3> QED
      BY SMTT(60), <1>5, <1>9, <2>1, <3>3, <3>4 DEF Enrolled, Kept, I
  <2> QED
    BY <2>2, <2>3
<1>15. /\ th'[p].pc = "iput" /\ th'[p].w = Nil /\ th'[p].ip = t.ip /\ th'[p].put = t.w /\ th'[p].ret = "opened"
       /\ th'[p].op = t.op /\ th'[p].new = t.new
  BY SMTT(60), <1>5 DEF Moves
<1>16. Where(th'[p]) = "opened"
  BY <1>5, <1>15 DEF Where
<1>17. ~Owes(th'[p]) /\ ~Dropping(th'[p])
  BY <1>16 DEF Owes, Dropping, Linking, Looking, Parents, Leaves
<1>18. Live' = M
  <2>1. \A j \in Inums : Dropped(j)' <=> Dropped(j)
    BY <1>1, <1>3, <1>5, <1>17, DroppedMoves
  <2>2. ~Dropped(i)
    BY <1>9 DEF Dropped, Owing, Owes
  <2>3. \A j \in Inums \ {i} : j \in Live' <=> j \in Live
    <3> SUFFICES ASSUME NEW j \in Inums \ {i} PROVE J[j].nlink > 0 <=> I[j].nlink > 0
      BY <1>11, <2>1, LiveIs
    <3>1. CASE j = d
      <4>1. J[d].nlink = I[d].nlink + b
        BY SMTT(60), <1>5
      <4> HIDE DEF I, J
      <4> QED
        BY SMTT(60), <1>12, <3>1, <4>1
    <3>2. CASE j # d
      BY SMTT(60), <1>5, <3>2
    <3> QED
      BY <3>1, <3>2
  <2>4. i \in Live' <=> t.op = "mkdir"
    <3>1. J[i].nlink > 0 /\ (J[i].type = "dir" <=> t.op = "mkdir")
      BY <1>5, <1>8
    <3> QED
      BY SMTT(60), <1>5, <2>1, <2>2, <3>1, LiveIs
  <2>5. Live' \subseteq Inums /\ Live \subseteq Inums
    BY SMTT(60), LiveIs
  <2>6. \A j \in Inums : j \in Live' <=> j \in M
    BY SMTT(60), <1>5, <1>9, <2>3, <2>4
  <2>7. M \subseteq Inums
    BY <1>5, <2>5
  <2> QED
    BY SMTT(60), <2>5, <2>6, <2>7
<1>19. Kept \subseteq Kept' /\ TreeInv'
  BY <1>14, <1>18 DEF Kept, TreeInv
<1>20. \A j \in Inums : p \notin Owing(j) /\ p \notin Owing(j)'
  BY <1>3, <1>17 DEF Owing
<1>21. CountInv'
  <2>1. \A j \in Inums : I[j].nlink \in Int /\ J[j].nlink \in Int
    BY <1>10 DEF InodeType
  <2>2. ASSUME NEW j \in Inums PROVE J[j].nlink = Cardinality(NamesOf(J, Live', j)) + Cardinality(Owing(j)')
    <3>1. Cardinality(NamesOf(I, Live, j)) \in Nat
      BY SMTT(60), NamesFinite
    <3>2. CASE j = i
      <4>1. Cardinality(NamesOf(J, Live', i)) = Cardinality(NamesOf(I, Live, i)) + 1
        <5>1. Cardinality({<<d, n>>}) = 1 /\ Cardinality({}) = 0
          BY FS_Singleton, FS_EmptySet
        <5> QED
          BY <1>9, <1>14, <1>18, <5>1
      <4>2. J[i].nlink + (IF p \in Owing(i) THEN 1 ELSE 0) = I[i].nlink + 1 + (IF p \in Owing(i)' THEN 1 ELSE 0)
        BY SMTT(60), <1>5, <1>8, <1>20
      <4> QED
        BY <1>1, <1>5, <3>2, <4>1, <4>2, CountMoved
    <3>3. CASE j = d
      <4>1. b \in Int /\ Cardinality(NamesOf(J, Live', d)) = Cardinality(NamesOf(I, Live, d)) + b
        BY SMTT(60), <1>14, <1>18
      <4>2. J[d].nlink + (IF p \in Owing(d) THEN 1 ELSE 0) = I[d].nlink + b + (IF p \in Owing(d)' THEN 1 ELSE 0)
        BY SMTT(60), <1>5, <1>20, <2>1
      <4> QED
        BY <1>1, <1>5, <3>3, <4>1, <4>2, CountMoved
    <3>4. CASE j \notin {i, d}
      <4>1. Cardinality(NamesOf(J, Live', j)) = Cardinality(NamesOf(I, Live, j)) + 0
        <5>1. NamesOf(J, Live', j) = NamesOf(I, Live, j)
          BY SMTT(60), <1>14, <1>18, <3>4
        <5> QED
          BY <3>1, <5>1
      <4>2. J[j].nlink + (IF p \in Owing(j) THEN 1 ELSE 0) = I[j].nlink + 0 + (IF p \in Owing(j)' THEN 1 ELSE 0)
        BY SMTT(60), <1>5, <1>20, <2>1, <3>4
      <4> QED
        BY <1>1, <1>5, <4>1, <4>2, CountMoved
    <3> QED
      BY <3>2, <3>3, <3>4
  <2> QED
    BY <2>2 DEF CountInv
<1>22. BlockInv'
  BY <1>1, <1>5, <1>11, BlockSame
<1>23. DiskStep(p)
  <2>1. t.w \in Uses(p) \ {Nil} /\ t.ip \in Uses(p) \ {Nil}
    BY SMTT(60), <1>5 DEF Uses
  <2>2. ASSUME NEW j \in Inums
        PROVE J[j] = I[j] \/ \E z \in Uses(p) \ {Nil} : Ino(z) = j /\ lock[z] \in {p, Nobody}
    BY SMTT(60), <1>4, <1>5, <2>1
  <2> QED
    BY SMTT(60), <1>11, <1>19, <2>2 DEF DiskStep
<1>24. UseOk(p)' /\ NewUses(p)
  <2>1. Uses(p)' \subseteq Uses(p) \cup {Nil}
    BY <1>5, <1>15 DEF Uses
  <2> QED
    BY SMTT(60), <1>1, <1>5, <1>11, <2>1, UseStays
<1>25. WayOk(th'[p])
  BY <1>1, <1>15, <1>16 DEF CallOk, WayOk, Parents
<1>26. WalkOk(p)'
  <2>1. icache'[cwd'[p]].inum \in Kept'
    BY SMTT(60), <1>1, <1>5, <1>19, CwdStays
  <2> QED
    BY SMTT(60), <1>16, <2>1 DEF WalkOk, InDir, Walking, Parents, Ino
<1>27. HoldOk(p)'
  BY <1>5, <1>15, <1>16 DEF HoldOk, Held
<1>28. FillOk(p)' /\ EraseOk(p)' /\ DropOk(p)' /\ LinkOk(p)' /\ FreeOk(p)'
  BY SMTT(60), <1>15, <1>16, <1>17 DEF FillOk, EraseOk, DropOk, LinkOk, FreeOk, Owes
<1>29. CallOk(p)' /\ NoPanic'
  BY <1>5, <1>24, <1>25, <1>26, <1>27, <1>28 DEF CallOk, FsInv, NoPanic
<1> QED
  BY <1>5, <1>19, <1>21, <1>22, <1>23, <1>24, <1>29, DiskFs

-----------------------------------------------------------------------------
(***************************************************************************)
(* Panics, crashes and the first state.                                    *)
(***************************************************************************)
\* Nothing but the message of a panic changes.
LEMMA SameFs ==
  ASSUME FsInv, disk' = disk, icache' = icache, lock' = lock, cwd' = cwd, ofile' = ofile, th' = th, NoPanic'
  PROVE  FsInv'
<1>1. Live' = Live
  BY Zenon DEF Live, Dropping, Where, Ino
<1>2. Kept' = Kept /\ TreeInv' /\ BlockInv'
  BY <1>1, Zenon DEF Kept, FsInv, TreeInv, BlockInv
<1>3. \A i : Owing(i)' = Owing(i)
  BY Zenon DEF Owing, Owes, Dropping, Linking, Where, Ino
<1>4. CountInv'
  BY <1>1, <1>3, Zenon DEF FsInv, CountInv
<1>5. ASSUME NEW p \in Procs PROVE CallOk(p)'
  <2>1. CallOk(p) /\ th'[p] = th[p] /\ cwd'[p] = cwd[p] /\ ofile'[p] = ofile[p]
    BY DEF FsInv, CallInv
  <2>2. \A q \in Procs : Uses(q)' = Uses(q)
    BY Zenon DEF Uses
  <2>3. \A s : Node(s)' = Node(s) /\ Ino(s)' = Ino(s)
    BY Zenon DEF Node, Ino
  <2>4. UseOk(p)' /\ WayOk(th'[p]) /\ HoldOk(p)'
    BY <2>1, <2>2, <2>3 DEF CallOk, UseOk, HoldOk
  <2>5. WalkOk(p)'
    BY SMTT(60), <1>2, <2>1 DEF CallOk, WalkOk, Ino, Node
  <2>6. FillOk(p)' /\ FreeOk(p)'
    BY SMTT(60), <2>1, <2>2 DEF CallOk, FillOk, FreeOk, Alone, Node
  <2>7. EraseOk(p)' /\ DropOk(p)' /\ LinkOk(p)'
    BY <2>1 DEF CallOk, EraseOk, DropOk, LinkOk, Node, Ino
  <2> QED
    BY <2>4, <2>5, <2>6, <2>7 DEF CallOk
<1> QED
  BY <1>2, <1>4, <1>5 DEF FsInv, CallInv

\* What a call is about to lock is in use, and so not free; what it looks up a
\* name in is a directory; what it unlinks has the link of that name.
LEMMA PanicFs == ASSUME IInv, FsInv, NEW p \in Procs, panic(p) PROVE FsInv'
<1> DEFINE t == th[p]
           s == Wanted(p)
<1>1. TreeInv /\ CountInv /\ CallOk(p) /\ NoPanic
  BY DEF FsInv, CallInv
<1>2. /\ disk' = disk /\ icache' = icache /\ lock' = lock /\ cwd' = cwd /\ ofile' = ofile /\ th' = th
      /\ \/ s # Nil /\ t.pc # "iput" /\ NoType(s)
         \/ t.pc \in {"create", "unlink", "dirlink"} /\ Lockable(s) /\ Loaded(s).type # "dir"
         \/ t.pc = "unlink_ip" /\ Lockable(s) /\ Loaded(s).nlink < 1
         \/ panicked' \in {"iget: no inodes", "ialloc: no inodes", "balloc: out of blocks"}
  BY DEF panic
<1>3. t.pc \in {"create", "unlink", "dirlink", "unlink_ip"} =>
        /\ t.w \in Slots /\ icache[t.w].ref > 0 /\ Ino(t.w) \in Kept /\ Ino(t.w) \in Inums /\ Where(t) = t.pc
  <2> SUFFICES ASSUME t.pc \in {"create", "unlink", "dirlink", "unlink_ip"}
               PROVE  /\ t.w \in Slots /\ icache[t.w].ref > 0 /\ Ino(t.w) \in Kept /\ Ino(t.w) \in Inums
                      /\ Where(t) = t.pc
    OBVIOUS
  <2>1. Where(t) = t.pc
    BY DebtIs DEF Putting
  <2>2. t.w \in Slots /\ icache[t.w].ref > 0 /\ Ino(t.w) \in Inums
    BY HasW DEF WithW, Parents, Ino
  <2> QED
    BY <1>1, <2>1, <2>2 DEF CallOk, WalkOk, InDir, Parents
<1>4. ~(s # Nil /\ t.pc # "iput" /\ NoType(s))
  <2> SUFFICES ASSUME s # Nil, t.pc # "iput", NoType(s) PROVE FALSE
    OBVIOUS
  <2>1. s \in {t.w, t.ip, ofile[p].ip}
    BY DEF Wanted
  <2>2. s \in Uses(p) \ {Nil}
    BY <2>1 DEF Uses
  <2> HIDE DEF s
  <2> QED
    BY <1>1, <2>2 DEF CallOk, UseOk, Node, NoType
<1>5. ~(t.pc \in {"create", "unlink", "dirlink"} /\ Lockable(s) /\ Loaded(s).type # "dir")
  <2> SUFFICES ASSUME t.pc \in {"create", "unlink", "dirlink"}, Lockable(s), Loaded(s).type # "dir" PROVE FALSE
    OBVIOUS
  <2>1. s = t.w
    BY DEF Wanted
  <2>2. disk.inode[Ino(t.w)].type = "dir"
    BY <1>1, <1>3, KeptIs
  <2>3. Known(disk.inode[icache[t.w].inum], Loaded(t.w))
    BY <1>3, <2>1, LoadedIs
  <2> QED
    BY <2>1, <2>2, <2>3 DEF Known, SameAttr, Ino
<1>6. ~(t.pc = "unlink_ip" /\ Lockable(s) /\ Loaded(s).nlink < 1)
  <2> SUFFICES ASSUME t.pc = "unlink_ip", Lockable(s), Loaded(s).nlink < 1 PROVE FALSE
    OBVIOUS
  <2>1. s = t.ip
    BY DEF Wanted
  <2>2. t.ip \in Slots /\ icache[t.ip].ref > 0 /\ Ino(t.ip) \in Inums
    BY HasIp DEF WithIp, Ino
  <2>3. Known(disk.inode[Ino(t.ip)], Loaded(t.ip))
    BY SMTT(60), <2>1, <2>2, LoadedIs DEF Ino
  <2>4. disk.inode[Ino(t.w)].ents[Name(t)] = Ino(t.ip) /\ Name(t) \in Names
    BY <1>1, <1>3 DEF CallOk, EraseOk, Node, Ino, Removable
  <2>5. Ino(t.w) \in Live /\ Name(t) \in Entries /\ Ino(t.ip) # Nil
    BY <1>1, <1>3, <2>2, <2>4, KeptIs, NilSlot DEF Entries
  <2>6. disk.inode[Ino(t.ip)].nlink >= 1
    BY <1>1, <2>4, <2>5, Named
  <2>7. Loaded(t.ip).nlink = disk.inode[Ino(t.ip)].nlink /\ disk.inode[Ino(t.ip)].nlink \in Int
    <3>1. disk.inode[Ino(t.ip)] \in InodeType
      BY <2>2, EntryIs DEF Ino
    <3> QED
      BY <2>3, <3>1 DEF Known, SameAttr, InodeType
  <2> QED
    BY <2>1, <2>6, <2>7
<1>7. NoPanic'
  BY <1>2, <1>4, <1>5, <1>6 DEF NoPanic
<1> QED
  BY <1>2, <1>7, SameFs

\* A process between two calls owes nothing and has no lock.
LEMMA RestingIs ==
  ASSUME NEW t \in ThreadType, t.pc = "idle", t.put = Nil
  PROVE  /\ Where(t) = "idle" /\ ~Owes(t) /\ ~Dropping(t) /\ ~Linking(t) /\ ~InDir(t) /\ ~Walking(t) /\ Held(t) = {}
         /\ t.op # "link" \/ KeptPath(t.new) => WayOk(t)
<1>1. Where(t) = "idle"
  BY DEF Where
<1>2. ~Owes(t) /\ ~Dropping(t) /\ ~Linking(t) /\ ~InDir(t) /\ ~Walking(t) /\ Held(t) = {}
  BY <1>1 DEF Owes, Dropping, Linking, InDir, Walking, Held, Looking, Parents, Leaves
<1> QED
  BY <1>1, <1>2 DEF WayOk, Parents

\* A restart finds the tree that the calls before it have left.
LEMMA CrashFs == ASSUME IInv, IInv', FsInv, Crash PROVE FsInv'
<1>1. /\ icache' = BootCache /\ cwd' = [p \in Procs |-> 1] /\ ofile' = [p \in Procs |-> NoFile]
      /\ disk' = disk /\ lock' = lock /\ th' = th /\ panicked' = panicked
      /\ \A p \in Procs : th[p].pc = "idle"
  BY DEF Crash, Quiescent
<1>2. TreeInv /\ CountInv /\ BlockInv /\ CallInv /\ NoPanic
  BY DEF FsInv
<1>3. ASSUME NEW p \in Procs
      PROVE  /\ Where(th[p]) = "idle" /\ ~Owes(th[p]) /\ ~Dropping(th[p]) /\ ~Linking(th[p]) /\ ~InDir(th[p])
             /\ ~Walking(th[p]) /\ Held(th[p]) = {} /\ th[p].w = Nil /\ th[p].ip = Nil /\ th[p].put = Nil
  <2>1. th[p] \in ThreadType /\ th[p].w = Nil /\ th[p].ip = Nil /\ th[p].put = Nil
    BY <1>1, ThreadIs DEF LocalOk, RefsOk, Where, Putting, WithW, WithIp, Looking, Parents, Leaves
  <2> QED
    BY <1>1, <2>1, RestingIs
<1>4. Live' = Live
  BY <1>1, <1>3 DEF Live
<1>5. Kept' = Kept /\ TreeInv' /\ BlockInv'
  BY <1>1, <1>2, <1>4, Zenon DEF Kept, TreeInv, BlockInv
<1>6. \A i \in Inums : Owing(i)' = Owing(i)
  BY <1>1, <1>3 DEF Owing
<1>7. CountInv'
  BY <1>1, <1>2, <1>4, <1>6, Zenon DEF CountInv
<1>8. ROOTINO \in Kept /\ disk.inode[ROOTINO].type = "dir"
  BY <1>2, KeptIs
<1>9. 1 \in Slots /\ icache'[1].inum = ROOTINO
  BY <1>1, InodeAssumption DEF BootCache, Slots, NoEntry
<1>10. ASSUME NEW p \in Procs PROVE CallOk(p)'
  <2>1. cwd'[p] = 1 /\ ofile'[p].ip = Nil /\ th'[p] = th[p] /\ th[p].pc = "idle"
    BY <1>1 DEF NoFile
  <2>2. Uses(p)' \subseteq {1, Nil}
    BY <1>3, <2>1 DEF Uses
  <2>3. UseOk(p)'
    BY <1>1, <1>8, <1>9, <2>2 DEF UseOk, Node
  <2>4. WayOk(th'[p])
    <3>1. CallOk(p)
      BY <1>2 DEF CallInv
    <3> QED
      BY <2>1, <3>1 DEF CallOk
  <2>5. WalkOk(p)'
    BY <1>3, <1>5, <1>8, <1>9, <2>1 DEF WalkOk, Ino
  <2>6. HoldOk(p)' /\ FillOk(p)' /\ EraseOk(p)' /\ DropOk(p)' /\ LinkOk(p)' /\ FreeOk(p)'
    BY <1>3, <2>1 DEF HoldOk, FillOk, EraseOk, DropOk, LinkOk, FreeOk
  <2> QED
    BY <2>3, <2>4, <2>5, <2>6 DEF CallOk
<1>11. NoPanic'
  BY <1>1, <1>2 DEF NoPanic
<1> QED
  BY <1>5, <1>7, <1>10, <1>11 DEF FsInv, CallInv

\* mkfs has made a tree, and no call is under way.
LEMMA InitFs == ASSUME MkfsTree, Init PROVE FsInv
<1> DEFINE D == {i \in Inums : FirstInodes[i].type = "dir" /\ FirstInodes[i].nlink > 0}
<1>1. /\ icache = BootCache /\ cwd = [p \in Procs |-> 1] /\ ofile = [p \in Procs |-> NoFile]
      /\ disk = [inode |-> FirstInodes, bitmap |-> {}]
      /\ lock = [s \in Slots |-> Nobody] /\ th = [p \in Procs |-> Idle] /\ panicked = "no"
  BY DEF Init
<1>2. disk.inode = FirstInodes /\ disk.bitmap = {} /\ \A p \in Procs : th[p] = Idle
  BY <1>1
<1>3. /\ Where(Idle) = "idle" /\ ~Owes(Idle) /\ ~Dropping(Idle) /\ ~Linking(Idle) /\ ~InDir(Idle) /\ ~Walking(Idle)
      /\ Held(Idle) = {} /\ WayOk(Idle) /\ Idle.w = Nil /\ Idle.ip = Nil /\ Idle.put = Nil /\ Idle.pc = "idle"
  <2>1. Idle.op # "link"
    BY DEF Idle
  <2> QED
    BY <2>1, IdleIs, RestingIs
<1>4. /\ IsTree(FirstInodes, D)
      /\ \A i \in Inums : FirstInodes[i].addr = Nil /\ FirstInodes[i].nlink = Cardinality(NamesOf(FirstInodes, D, i))
  BY DEF MkfsTree
<1>5. Live = D
  BY <1>2, <1>3 DEF Live
<1>6. TreeInv
  BY <1>2, <1>4, <1>5 DEF TreeInv
<1>7. CountInv
  <2>1. \A i \in Inums : Owing(i) = {}
    BY <1>2, <1>3 DEF Owing
  <2>2. Cardinality({}) = 0
    BY FS_EmptySet
  <2>3. \A i \in Inums : Cardinality(NamesOf(FirstInodes, D, i)) \in Nat
    BY NamesFinite
  <2> HIDE DEF D
  <2> QED
    BY <1>2, <1>4, <1>5, <2>1, <2>2, <2>3 DEF CountInv
<1>8. BlockInv
  BY <1>2, <1>4 DEF BlockInv
<1>9. ROOTINO \in Kept /\ disk.inode[ROOTINO].type = "dir"
  <2>1. ROOTINO \in D
    BY <1>4 DEF IsTree
  <2> QED
    BY <1>2, <1>5, <2>1 DEF Kept, KeptIn
<1>10. 1 \in Slots /\ icache[1].inum = ROOTINO
  BY <1>1, InodeAssumption DEF BootCache, Slots, NoEntry
<1>11. ASSUME NEW p \in Procs PROVE CallOk(p)
  <2>1. cwd[p] = 1 /\ ofile[p].ip = Nil /\ th[p] = Idle
    BY <1>1 DEF NoFile
  <2>2. Uses(p) \subseteq {1, Nil}
    BY <1>3, <2>1 DEF Uses
  <2>3. UseOk(p)
    BY <1>9, <1>10, <2>2 DEF UseOk, Node
  <2>4. WalkOk(p)
    BY <1>3, <1>9, <1>10, <2>1 DEF WalkOk, Ino
  <2>5. WayOk(th[p]) /\ HoldOk(p) /\ FillOk(p) /\ EraseOk(p) /\ DropOk(p) /\ LinkOk(p) /\ FreeOk(p)
    BY <1>3, <2>1 DEF HoldOk, FillOk, EraseOk, DropOk, LinkOk, FreeOk
  <2> QED
    BY <2>3, <2>4, <2>5 DEF CallOk
<1>12. NoPanic
  BY <1>1 DEF NoPanic
<1> QED
  BY <1>6, <1>7, <1>8, <1>11, <1>12 DEF FsInv, CallInv

\* Every step keeps the tree, the counts, the blocks and what calls rely on.
LEMMA FsStep == ASSUME CallsStayOut, IInv, FsInv, [Next]_vars PROVE FsInv'
<1>0. IInv'
  BY Inductive
<1>1. CASE Crash
  BY <1>0, <1>1, CrashFs
<1>2. ASSUME NEW p \in Procs, Run(p) PROVE FsInv'
  <2>1. CASE \E c \in Calls : begin(p, c)
    BY <1>0, <2>1, BeginFs
  <2>2. CASE start(p) \/ namex_end(p) \/ namex_step(p) \/ namex_parent(p) \/ namex_fail(p)
    BY <1>0, <2>2, StartFs, NamexEndFs, NamexStepFs, NamexParentFs, NamexFailFs
  <2>3. CASE iput(p) \/ ifree(p) \/ unref(p)
    BY <1>0, <2>3, IputFs, IfreeFs, UnrefFs
  <2>4. CASE create_found(p) \/ create_lock(p) \/ ialloc(p) \/ create_fill(p) \/ sys_open(p) \/ opened(p)
    BY <1>0, <2>4, CreateFoundFs, CreateLockFs, IallocFs, CreateFillFs, OpenFs, OpenedFs
  <2>5. CASE \/ unlink_fail(p) \/ unlink_found(p) \/ unlink_busy(p) \/ unlink_erase(p) \/ unlink_drop(p)
             \/ unlock_w(p)
    BY <1>0, <2>5, UnlinkFailFs, UnlinkFoundFs, UnlinkBusyFs, UnlinkEraseFs, UnlinkDropFs, UnlockFs
  <2>6. CASE sys_link(p) \/ dirlink_taken(p) \/ dirlink(p) \/ link_done(p) \/ link_bad(p)
    BY <1>0, <2>6, LinkFs, DirlinkTakenFs, DirlinkFs, LinkDoneFs, LinkBadFs
  <2>7. CASE sys_chdir(p) \/ filewrite(p) \/ panic(p)
    BY <1>0, <2>7, ChdirFs, FilewriteFs, PanicFs
  <2> QED
    BY <1>2, <2>1, <2>2, <2>3, <2>4, <2>5, <2>6, <2>7, ZenonT(60) DEF Run
<1>3. CASE UNCHANGED vars
  <2>1. /\ disk' = disk /\ icache' = icache /\ lock' = lock /\ cwd' = cwd /\ ofile' = ofile /\ th' = th
        /\ panicked' = panicked
    BY <1>3 DEF vars
  <2>2. NoPanic'
    BY <2>1 DEF FsInv, NoPanic
  <2> QED
    BY <2>1, <2>2, SameFs
<1> QED
  BY <1>1, <1>2, <1>3 DEF Next

\* Between calls nobody owes a link, and the directories are those with one.
LEMMA QuiescentIs ==
  ASSUME IInv, FsInv, Quiescent
  PROVE  CrashConsistent
<1> DEFINE I == disk.inode
           L == {d \in Inums : I[d].nlink > 0}
<1>1. TreeInv /\ CountInv /\ BlockInv
  BY DEF FsInv
<1>2. ASSUME NEW p \in Procs PROVE ~Owes(th[p]) /\ ~Dropping(th[p])
  <2>1. th[p] \in ThreadType /\ th[p].pc = "idle" /\ th[p].put = Nil
    BY ThreadIs DEF Quiescent, LocalOk, RefsOk, Putting
  <2> QED
    BY <2>1, RestingIs
<1>3. \A d \in Inums : d \in Live <=> d \in L /\ I[d].type = "dir"
  BY <1>2 DEF Live
<1>4. ASSUME NEW i \in Inums PROVE I[i].nlink = Links(i)
  <2>1. ASSUME NEW d \in L, NEW n \in Entries, I[d].ents[n] = i PROVE d \in Live
    <3>1. i # Nil
      BY NilSlot
    <3>2. I[d].type # "dir" => I[d].ents = NoEnts
      BY <1>1 DEF TreeInv, IsTree
    <3>3. I[d].type = "dir"
      BY <2>1, <3>1, <3>2 DEF NoEnts
    <3> QED
      BY <1>3, <3>3
  <2>2. Live \subseteq L
    BY DEF Live
  <2>3. NamesOf(I, L, i) = NamesOf(I, Live, i)
    <3> HIDE DEF I, L
    <3>1. ASSUME NEW e \in Inums \X (Entries \ {"."})
          PROVE  e[1] \in L /\ I[e[1]].ents[e[2]] = i <=> e[1] \in Live /\ I[e[1]].ents[e[2]] = i
      <4>1. e[2] \in Entries
        OBVIOUS
      <4> QED
        BY <2>1, <2>2, <4>1
    <3> QED
      BY <3>1, Zenon DEF NamesOf
  <2>4. Owing(i) = {}
    BY <1>2 DEF Owing
  <2>5. Cardinality(NamesOf(I, Live, i)) \in Nat /\ Cardinality({}) = 0
    BY NamesFinite, FS_EmptySet
  <2>6. I[i].nlink = Cardinality(NamesOf(I, Live, i))
    <3>1. I[i].nlink = Cardinality(NamesOf(I, Live, i)) + Cardinality(Owing(i))
      BY <1>1 DEF CountInv
    <3>2. Cardinality(Owing(i)) = 0
      BY <2>4, <2>5
    <3> QED
      BY <2>5, <3>1, <3>2
  <2> QED
    BY <2>3, <2>6 DEF Links
<1> QED
  BY <1>1, <1>4 DEF CrashConsistent, BlockInv

\* From a tree that mkfs made, with calls that stay out of directories that may
\* go, the directories stay a tree and no call loses what it relies on.
THEOREM FsInvariant == MkfsTree /\ CallsStayOut => (Spec => []FsInv)
<1> SUFFICES ASSUME MkfsTree, CallsStayOut PROVE Spec => []FsInv
  OBVIOUS
<1>1. Init => IInv /\ FsInv
  BY InitInv, InitFs
<1>2. IInv /\ FsInv /\ [Next]_vars => (IInv /\ FsInv)'
  BY Inductive, FsStep
<1> QED
  BY <1>1, <1>2, PTL DEF Spec

\* At every moment the log may commit, and so after every crash, a link count
\* is the number of names, and a block is marked when one file has it.
THEOREM CrashConsistentHolds == MkfsTree /\ CallsStayOut => (Spec => []CrashConsistent)
<1> SUFFICES ASSUME MkfsTree, CallsStayOut PROVE Spec => []CrashConsistent
  OBVIOUS
<1>1. IInv /\ FsInv => CrashConsistent
  BY QuiescentIs DEF CrashConsistent
<1>2. Spec => []FsInv
  BY FsInvariant
<1> QED
  BY <1>1, <1>2, Invariant, PTL

\* An open file and a current directory are not freed, whoever unlinks them.
THEOREM InUseIsAllocatedHolds == MkfsTree /\ CallsStayOut => (Spec => []InUseIsAllocated)
<1> SUFFICES ASSUME MkfsTree, CallsStayOut PROVE Spec => []InUseIsAllocated
  OBVIOUS
<1>1. FsInv => InUseIsAllocated
  <2> SUFFICES ASSUME FsInv, NEW p \in Procs, NEW s \in {cwd[p], ofile[p].ip} \ {Nil}
               PROVE  disk.inode[icache[s].inum].type # "free"
    BY DEF InUseIsAllocated
  <2>1. UseOk(p)
    BY DEF FsInv, CallInv, CallOk
  <2> QED
    BY <2>1 DEF UseOk, Uses, Node
<1>2. Spec => []FsInv
  BY FsInvariant
<1> QED
  BY <1>1, <1>2, PTL

\* ilock never finds an inode without a type, dirlookup never what is no
\* directory, unlink never a link count of zero, bfree never a free block.
THEOREM NoPanicHolds == MkfsTree /\ CallsStayOut => (Spec => []NoPanic)
<1> SUFFICES ASSUME MkfsTree, CallsStayOut PROVE Spec => []NoPanic
  OBVIOUS
<1>1. FsInv => NoPanic
  BY DEF FsInv
<1>2. Spec => []FsInv
  BY FsInvariant
<1> QED
  BY <1>1, <1>2, PTL
=============================================================================
