---------------------------- MODULE MemoryProofs ----------------------------
(* Proofs about Memory for any number of processes, CPUs, pages and sizes. *)
EXTENDS Memory, TLAPS, FiniteSetTheorems

(***************************************************************************)
(* The inductive invariant.                                                *)
(*                                                                         *)
(* Holders are the free list and the places where the kernel keeps pages;  *)
(* Has is the set of pages of one.  OwnInv: every page that the allocator  *)
(* manages has exactly one holder, and no other page has one.              *)
(***************************************************************************)
Holders ==
  ({"free", "kvm", "code4"} \X {0}) \cup ({"ap"} \X APs) \cup ({"kstack", "space", "new", "mem"} \X Procs)

Has(h) ==
  CASE h[1] = "free"   -> free
    [] h[1] = "kvm"    -> PagesOf(kvm)
    [] h[1] = "code4"  -> {code4} \ {Nil}
    [] h[1] = "ap"     -> {aps[h[2]].stack} \ {Nil}
    [] h[1] = "kstack" -> {kstack[h[2]]} \ {Nil}
    [] h[1] = "space"  -> PagesOf(space[h[2]])
    [] h[1] = "new"    -> IF job[h[2]].op = "grow" THEN {} ELSE PagesOf(job[h[2]].new)
    [] h[1] = "mem"    -> {job[h[2]].mem} \ {Nil}

OwnInv ==
  /\ \A h, k \in Holders : h # k => Has(h) \cap Has(k) = {}
  /\ \A g \in Pages : g \in Managed <=> \E h \in Holders : g \in Has(h)

\* No page is in two places of one page table.
Distinct(s) ==
  /\ \A t \in DOMAIN s.tabs : s.tabs[t] # Nil => s.tabs[t] # s.pgdir /\ \A a \in PageNos : s.pg[a] # s.tabs[t]
  /\ \A a \in PageNos : s.pg[a] # Nil => s.pg[a] # s.pgdir
  /\ \A t, u \in DOMAIN s.tabs : s.tabs[t] = s.tabs[u] /\ s.tabs[t] # Nil => t = u
  /\ \A a, b \in PageNos : s.pg[a] = s.pg[b] /\ s.pg[a] # Nil => a = b

(***************************************************************************)
(* BootInv: the CPUs start one after the other, each takes the stack that  *)
(* code-4 names before the next one is put there, and nothing allocates    *)
(* between the two halves of the kfree of kinit2 that has no lock.         *)
(***************************************************************************)
BootInv ==
  /\ boot.pc \in {"userinit", "sched"} <=> useLock
  /\ boot.pc = "kvmalloc" => kvm = NoSpace
  /\ boot.pc \in {"startothers", "wait"} => boot.ap \in 1..(NAPS + 1)
  /\ boot.pc = "kinit2_write" => boot.seen = free
  /\ boot.pc # "sched" => \A p \in Procs : state[p] = "unused"
  /\ code4 # Nil => boot.pc = "wait" /\ boot.ap \in APs /\ aps[boot.ap].pc = "entry"
  /\ boot.pc = "wait" => boot.ap \in APs /\ aps[boot.ap].pc # "off"
  /\ \A c \in APs :
       /\ aps[c].pc \in {"off", "entry"} => aps[c].stack = Nil
       /\ aps[c].pc \in {"entry", "mpenter"} => boot.pc = "wait" /\ boot.ap = c
       /\ boot.pc \in {"kvmalloc", "startothers"} /\ c >= boot.ap => aps[c].pc = "off"
       /\ boot.pc = "wait" /\ c > boot.ap => aps[c].pc = "off"

(***************************************************************************)
(* ProcInv: what the state of a slot and the step of its call say of its   *)
(* memory.  ChildInv: the slot that a fork fills belongs to it alone.      *)
(***************************************************************************)
Mapped(s) == {a \in PageNos : s.pg[a] # Nil}

ProcOk(p) ==
  LET j == job[p] IN
  /\ state[p] # "alive" => j = NoJob
  /\ state[p] \in {"unused", "embryo"} => space[p] = NoSpace
  /\ state[p] = "unused" => kstack[p] = Nil
  /\ state[p] \in {"alive", "zombie"} => kstack[p] # Nil
  /\ j.pc = "idle" => j = NoJob
  /\ j.op = "none" => j.pc = "idle"
  /\ j.mem # Nil <=> j.pc \in {"map", "kfree"}

\* S is what there should be.  Of a process that shrank to size 0 the pages are
\* gone, the first for good, and the size is not.
Covers(M, S) == M \subseteq S /\ (M = S \/ (0 \in ShrinkSizes /\ 0 \notin M))

\* How far the page table of a call is.
BuildOk(p) ==
  LET j == job[p] IN
  /\ j.pc = "kstack" => j.op = "fork"
  /\ j.pc \in {"switchuvm", "freevm"} => j.op = "exec"
  /\ j.pc \in {"setupkvm", "kmap"} => j.op # "grow"
  /\ j.pc \in {"kstack", "setupkvm"} => j.new = NoSpace /\ j.at = 0
  /\ j.pc = "kmap" => j.new = [NoSpace EXCEPT !.pgdir = j.new.pgdir] /\ j.at = 0
  /\ j.pc \in {"page", "map", "kfree"} => Covers(Mapped(j.new), 0..(j.at - 1))
  /\ j.pc = "bad" /\ j.op = "grow" => Covers(Mapped(j.new), 0..(j.at - 1))
  /\ j.at <= Target(j) /\ (j.pc \in {"map", "kfree"} => j.at < Target(j))
  /\ j.op = "fork" => j.size = sz[p]
  /\ j.op = "grow" => j.new = space[p] /\ PGROUNDUP(sz[p]) <= j.at

\* Between growproc's first and its last page its process has more than its size.
SizeOk(p) == state[p] = "alive" /\ job[p].op # "grow" => Covers(Mapped(space[p]), Sized(sz[p]))

Cr3Ok(p) ==
  state[p] = "alive" =>
    /\ job[p].pc # "switchuvm" => cr3[p] = space[p].pgdir
    /\ job[p].pc = "switchuvm" => cr3[p] \in {space[p].pgdir, job[p].new.pgdir}

LocalOk(p) ==
  ProcOk(p) /\ BuildOk(p) /\ SizeOk(p) /\ Cr3Ok(p) /\ Distinct(space[p]) /\ Distinct(job[p].new)

ProcInv == \A p \in Procs : LocalOk(p)

ForkOk(p) ==
  job[p].op = "fork" =>
    /\ job[p].child \in Procs /\ state[job[p].child] = "embryo"
    /\ kstack[job[p].child] = Nil <=> job[p].pc = "kstack"

ChildInv ==
  /\ \A p \in Procs : ForkOk(p)
  /\ \A p, q \in Procs : job[p].op = "fork" /\ job[q].op = "fork" /\ job[p].child = job[q].child => p = q

IInv == TypeOK /\ BootInv /\ ProcInv /\ ChildInv /\ Distinct(kvm) /\ OwnInv

-----------------------------------------------------------------------------
(***************************************************************************)
(* Sizes in bytes and in pages.                                            *)
(***************************************************************************)
\* Division is monotonic, ...
LEMMA DivMono ==
  ASSUME NEW d \in Nat \ {0}, NEW m \in Nat, NEW n \in Nat, m <= n
  PROVE  m \div d <= n \div d
OBVIOUS

\* ... and bounded.
LEMMA DivBound ==
  ASSUME NEW d \in Nat \ {0}, NEW k \in Nat, NEW n \in Nat, n < k * d
  PROVE  (n + d - 1) \div d <= k
OBVIOUS

\* One page is one page, and no bytes are none.
LEMMA DivOne == ASSUME NEW d \in Nat \ {0} PROVE (d + d - 1) \div d = 1 /\ (0 + d - 1) \div d = 0 /\ 0 \div d = 0
OBVIOUS

\* The quotient is a natural number.
LEMMA DivNat == ASSUME NEW d \in Nat \ {0}, NEW n \in Nat PROVE n \div d \in Nat
OBVIOUS

\* There is room for more than one page below KERNBASE.
LEMMA RoomForOne == KERNBASE \in Nat /\ PGSIZE < KERNBASE
<1>1. PGSIZE \in Nat /\ PGSIZE > 0 /\ MaxPages \in Nat /\ MaxPages > 1
  BY MemoryAssumption
<1>2. ASSUME NEW m \in Nat, NEW d \in Nat, m > 1, d > 0 PROVE m * d \in Nat /\ d < m * d
  BY <1>2
<1> QED
  BY <1>1, <1>2 DEF KERNBASE

\* A size that fits has its pages below KERNBASE.
LEMMA PagesFit == ASSUME NEW n \in 0..(KERNBASE - 1) PROVE PGROUNDUP(n) \in 0..MaxPages /\ Sized(n) \subseteq PageNos
<1>1. PGSIZE \in Nat \ {0} /\ MaxPages \in Nat /\ n \in Nat /\ n < MaxPages * PGSIZE
  BY MemoryAssumption, RoomForOne DEF KERNBASE
<1>2. PGROUNDUP(n) <= MaxPages
  BY <1>1, DivBound DEF PGROUNDUP
<1>3. n + PGSIZE - 1 \in Nat
  BY <1>1
<1>4. PGROUNDUP(n) \in Nat
  BY <1>1, <1>3, DivNat DEF PGROUNDUP
<1> QED
  BY <1>1, <1>2, <1>4 DEF Sized, PageNos

\* A larger size has at least the pages of a smaller one.
LEMMA PagesMono == ASSUME NEW m \in Nat, NEW n \in Nat, m <= n PROVE PGROUNDUP(m) <= PGROUNDUP(n)
<1>1. PGSIZE \in Nat \ {0} /\ m + PGSIZE - 1 \in Nat /\ n + PGSIZE - 1 \in Nat /\ m + PGSIZE - 1 <= n + PGSIZE - 1
  BY MemoryAssumption
<1> QED
  BY <1>1, DivMono DEF PGROUNDUP

\* The first process of userinit has one page.
LEMMA PagesOfOne == PGROUNDUP(PGSIZE) = 1 /\ Sized(PGSIZE) = {0} /\ PGROUNDUP(0) = 0 /\ Sized(0) = {}
<1>1. PGROUNDUP(PGSIZE) = 1 /\ PGROUNDUP(0) = 0
  BY MemoryAssumption, DivOne DEF PGROUNDUP
<1> QED
  BY <1>1 DEF Sized

\* Every user page has its table; the table of the first is 0.
LEMMA TableOf == 0 \in PageNos /\ 0 \in Tables /\ \A a \in PageNos : a \div PTPAGES \in Tables
<1>1. 0 \in PageNos
  BY MemoryAssumption DEF PageNos
<1>2. 0 \div PTPAGES = 0
  BY MemoryAssumption, DivOne
<1> QED
  BY <1>1, <1>2 DEF Tables

-----------------------------------------------------------------------------
(***************************************************************************)
(* kalloc returns pages of the free list, one after the other.             *)
(***************************************************************************)
\* A set of pages that is not empty has a first one.
LEMMA FirstOf == ASSUME NEW S \in SUBSET Nat, S # {} PROVE \E x \in S : \A y \in S : x <= y
<1>1. \E x \in S : \A y \in S : ~(<<y, x>> \in OpToRel(<, Nat))
  BY NatLessThanWellFounded, WFMin
<1>2. \A x, y \in S : ~(<<y, x>> \in OpToRel(<, Nat)) => x <= y
  BY DEF OpToRel
<1> QED
  BY <1>1, <1>2

\* T is the set of the n smallest elements of S.
Smallest(T, S, n) ==
  T \subseteq S /\ IsFiniteSet(T) /\ Cardinality(T) = n /\ \A x \in T : \A y \in S \ T : x < y

\* After the n smallest elements of S comes the next one.
LEMMA NextSmallest ==
  ASSUME NEW S \in SUBSET Nat, IsFiniteSet(S), NEW T, NEW n \in Nat, Smallest(T, S, n), Cardinality(S) > n
  PROVE  \E p \in S \ T : {q \in S : q < p} = T /\ Smallest(T \cup {p}, S, n + 1)
<1>1. S \ T # {}
  <2>1. S # T
    BY DEF Smallest
  <2> QED
    BY <2>1 DEF Smallest
<1>2. PICK p \in S \ T : \A y \in S \ T : p <= y
  BY <1>1, FirstOf
<1>3. {q \in S : q < p} = T
  <2>1. ASSUME NEW q \in T PROVE q \in S /\ q < p
    BY <1>2 DEF Smallest
  <2>2. ASSUME NEW q \in S, q < p, q \notin T PROVE FALSE
    <3>1. p <= q /\ p \in Nat /\ q \in Nat
      BY <1>2, <2>2
    <3> QED
      BY <2>2, <3>1
  <2> QED
    BY <2>1, <2>2
<1>4. IsFiniteSet(T \cup {p}) /\ Cardinality(T \cup {p}) = n + 1
  BY <1>2, FS_AddElement DEF Smallest
<1>5. \A x \in T \cup {p} : \A y \in S \ (T \cup {p}) : x < y
  BY <1>2 DEF Smallest
<1>6. T \cup {p} \subseteq S
  BY <1>2 DEF Smallest
<1>7. Smallest(T \cup {p}, S, n + 1)
  BY <1>4, <1>5, <1>6 DEF Smallest
<1> QED
  BY <1>2, <1>3, <1>7

\* The free list is finite.
LEMMA FreeFinite == TypeOK => free \in SUBSET Nat /\ IsFiniteSet(free) /\ Cardinality(free) \in Nat
<1> SUFFICES ASSUME TypeOK PROVE free \in SUBSET Nat /\ IsFiniteSet(free) /\ Cardinality(free) \in Nat
  OBVIOUS
<1>1. NLow + NHigh \in Int /\ 1 \in Int
  BY MemoryAssumption
<1>2. IsFiniteSet(Pages)
  BY <1>1, FS_Interval DEF Pages
<1>3. Pages \subseteq Nat /\ free \in SUBSET Pages
  BY MemoryAssumption DEF Pages, TypeOK
<1> QED
  BY <1>2, <1>3, FS_Subset, FS_CardinalityType

\* The n-th page that kalloc returns, when the free list has it.
LEMMA KallocIs ==
  ASSUME NEW n \in Nat, NEW p \in free, Cardinality({q \in free : q < p}) = n
  PROVE  kalloc(n + 1) \in free /\ Cardinality({q \in free : q < kalloc(n + 1)}) = n
BY DEF kalloc

\* The page that kalloc returns after n others; the pages below it are those.
Nth(n) == kalloc(n + 1) \in free /\ Cardinality({q \in free : q < kalloc(n + 1)}) = n

\* There is one as long as there are more than n.
LEMMA KallocNext ==
  ASSUME TypeOK, NEW n \in Nat, Cardinality(free) > n, NEW T, Smallest(T, free, n)
  PROVE  Nth(n) /\ \E U : Smallest(U, free, n + 1)
<1>1. PICK p \in free : {q \in free : q < p} = T /\ Smallest(T \cup {p}, free, n + 1)
  <2>1. free \in SUBSET Nat /\ IsFiniteSet(free)
    BY FreeFinite
  <2> QED
    BY <2>1, NextSmallest
<1>2. Cardinality({q \in free : q < p}) = n
  BY <1>1 DEF Smallest
<1>3. Nth(n)
  BY <1>2, KallocIs DEF Nth
<1> QED
  BY <1>1, <1>3

\* The first one.
LEMMA KallocFirst == ASSUME TypeOK, Cardinality(free) > 0 PROVE Nth(0) /\ \E U : Smallest(U, free, 1)
<1>1. Smallest({}, free, 0)
  BY FS_EmptySet DEF Smallest
<1>2. Nth(0) /\ \E U : Smallest(U, free, 0 + 1)
  BY <1>1, KallocNext
<1> QED
  BY <1>2

\* With a page on the list kalloc returns it.
LEMMA KallocOne == ASSUME TypeOK, free # {} PROVE kalloc(1) \in free
<1>1. Cardinality(free) > 0
  BY FreeFinite, FS_EmptySet
<1> QED
  BY <1>1, KallocFirst DEF Nth

\* The first two pages.
LEMMA KallocTwo ==
  ASSUME TypeOK, Cardinality(free) >= 2
  PROVE  kalloc(1) \in free /\ kalloc(2) \in free /\ kalloc(1) # kalloc(2)
<1>1. Nth(0) /\ \E U : Smallest(U, free, 1)
  BY FreeFinite, KallocFirst
<1>2. Nth(1)
  <2>1. PICK T : Smallest(T, free, 1)
    BY <1>1
  <2>2. Cardinality(free) > 1
    BY FreeFinite
  <2> QED
    BY <2>1, <2>2, KallocNext
<1> QED
  BY <1>1, <1>2 DEF Nth

\* The first five pages.
LEMMA KallocFive ==
  ASSUME TypeOK, Cardinality(free) >= 5
  PROVE  /\ {kalloc(1), kalloc(2), kalloc(3), kalloc(4), kalloc(5)} \subseteq free
         /\ kalloc(1) \notin {kalloc(2), kalloc(3), kalloc(4), kalloc(5)}
         /\ kalloc(2) \notin {kalloc(3), kalloc(4), kalloc(5)}
         /\ kalloc(3) \notin {kalloc(4), kalloc(5)} /\ kalloc(4) # kalloc(5)
<1>0. ASSUME NEW n \in 0..4, NEW T, Smallest(T, free, n) PROVE Nth(n) /\ \E U : Smallest(U, free, n + 1)
  <2>1. n \in Nat /\ Cardinality(free) > n
    BY FreeFinite
  <2> QED
    BY <1>0, <2>1, KallocNext
<1>1. Nth(0) /\ \E U : Smallest(U, free, 1)
  BY FreeFinite, KallocFirst
<1>2. Nth(1) /\ \E U : Smallest(U, free, 2)
  <2>1. PICK T : Smallest(T, free, 1)
    BY <1>1
  <2>2. Nth(1) /\ \E U : Smallest(U, free, 1 + 1)
    BY <1>0, <2>1
  <2> QED
    BY <2>2
<1>3. Nth(2) /\ \E U : Smallest(U, free, 3)
  <2>1. PICK T : Smallest(T, free, 2)
    BY <1>2
  <2>2. Nth(2) /\ \E U : Smallest(U, free, 2 + 1)
    BY <1>0, <2>1
  <2> QED
    BY <2>2
<1>4. Nth(3) /\ \E U : Smallest(U, free, 4)
  <2>1. PICK T : Smallest(T, free, 3)
    BY <1>3
  <2>2. Nth(3) /\ \E U : Smallest(U, free, 3 + 1)
    BY <1>0, <2>1
  <2> QED
    BY <2>2
<1>5. Nth(4)
  <2>1. PICK T : Smallest(T, free, 4)
    BY <1>4
  <2> QED
    BY <1>0, <2>1
<1> QED
  BY <1>1, <1>2, <1>3, <1>4, <1>5 DEF Nth

-----------------------------------------------------------------------------
(***************************************************************************)
(* Page tables.                                                            *)
(***************************************************************************)
\* x is in one of the places of s.
Points(s, x) == x = s.pgdir \/ (\E t \in Tables \cup {KTable} : x = s.tabs[t]) \/ \E a \in PageNos : x = s.pg[a]

\* The pages of a page table.
LEMMA InPagesOf ==
  ASSUME NEW s \in SpaceType, NEW x
  PROVE  (x \in PagesOf(s) <=> x # Nil /\ Points(s, x)) /\ PagesOf(s) \subseteq Pages
<1>1. /\ s.pgdir \in Pages \cup {Nil} /\ DOMAIN s.tabs = Tables \cup {KTable}
      /\ \A t \in Tables \cup {KTable} : s.tabs[t] \in Pages \cup {Nil}
      /\ \A a \in PageNos : s.pg[a] \in Pages \cup {Nil}
  BY DEF SpaceType
<1> QED
  BY <1>1 DEF PagesOf, Points

\* Pages are not the null pointer.
LEMMA NilNoPage == Nil \notin Pages
BY MemoryAssumption DEF Nil, Pages

\* A page table with one more page.
LEMMA OneMore ==
  ASSUME NEW s \in SpaceType, NEW m \in SpaceType, NEW g \in Pages,
         \A x : Points(s, x) => x = Nil \/ Points(m, x), \A x : Points(m, x) => x = g \/ Points(s, x),
         Points(m, g)
  PROVE  PagesOf(m) = PagesOf(s) \cup {g}
<1>1. \A x : x \in PagesOf(s) <=> x # Nil /\ Points(s, x)
  BY InPagesOf
<1>2. \A x : x \in PagesOf(m) <=> x # Nil /\ Points(m, x)
  BY InPagesOf
<1> QED
  BY <1>1, <1>2, NilNoPage

\* NoSpace has none.
LEMMA NoSpaceIs ==
  /\ NoSpace \in SpaceType /\ PagesOf(NoSpace) = {} /\ Distinct(NoSpace) /\ Mapped(NoSpace) = {}
  /\ NoSpace.pgdir = Nil /\ NoSpace.tabs = [t \in Tables \cup {KTable} |-> Nil]
  /\ NoSpace.pg = [a \in PageNos |-> Nil]
<1>1. /\ NoSpace.pgdir = Nil /\ NoSpace.tabs = [t \in Tables \cup {KTable} |-> Nil]
      /\ NoSpace.pg = [a \in PageNos |-> Nil]
  BY DEF NoSpace
<1>2. NoSpace \in SpaceType
  BY DEF NoSpace, SpaceType
<1>3. PagesOf(NoSpace) = {}
  BY <1>1, <1>2, InPagesOf DEF Points
<1>4. Distinct(NoSpace)
  BY <1>1 DEF Distinct
<1>5. Mapped(NoSpace) = {}
  BY <1>1 DEF Mapped
<1> QED
  BY <1>1, <1>2, <1>3, <1>4, <1>5

\* A directory is added, ...
LEMMA AddDir ==
  ASSUME NEW s \in SpaceType, Distinct(s), s.pgdir = Nil, NEW g \in Pages \ PagesOf(s), NEW m,
         m = [s EXCEPT !.pgdir = g]
  PROVE  /\ m \in SpaceType /\ m.pgdir = g /\ m.tabs = s.tabs /\ m.pg = s.pg
         /\ PagesOf(m) = PagesOf(s) \cup {g} /\ Distinct(m) /\ Mapped(m) = Mapped(s)
<1>1. m.pgdir = g /\ m.tabs = s.tabs /\ m.pg = s.pg
  BY DEF SpaceType
<1>2. m \in SpaceType
  BY DEF SpaceType
<1>3. PagesOf(m) = PagesOf(s) \cup {g}
  <2>1. \A x : Points(s, x) => x = Nil \/ Points(m, x)
    BY <1>1 DEF Points
  <2>2. (\A x : Points(m, x) => x = g \/ Points(s, x)) /\ Points(m, g)
    BY <1>1 DEF Points
  <2> QED
    BY <1>2, <2>1, <2>2, OneMore
<1>4. Distinct(m)
  <2>1. DOMAIN s.tabs = Tables \cup {KTable}
    BY DEF SpaceType
  <2>2. \A t \in DOMAIN s.tabs : s.tabs[t] # Nil => s.tabs[t] # g
    BY <2>1, InPagesOf DEF Points
  <2>3. \A a \in PageNos : s.pg[a] # Nil => s.pg[a] # g
    BY InPagesOf DEF Points
  <2> QED
    BY <1>1, <2>2, <2>3 DEF Distinct
<1>5. Mapped(m) = Mapped(s)
  BY <1>1 DEF Mapped
<1> QED
  BY <1>1, <1>2, <1>3, <1>4, <1>5

\* ... a table, ...
WithTab(s, t, g) == [s EXCEPT !.tabs[t] = g]
CanAdd(s, g)     == s \in SpaceType /\ Distinct(s) /\ g \in Pages \ PagesOf(s)
AddsTab(s, t, g) ==
  LET m == WithTab(s, t, g) IN
  /\ m \in SpaceType /\ m.pgdir = s.pgdir /\ m.tabs = [s.tabs EXCEPT ![t] = g] /\ m.pg = s.pg
  /\ PagesOf(m) = PagesOf(s) \cup {g} /\ Distinct(m) /\ Mapped(m) = Mapped(s)

\* (at a place that was free)
LEMMA AddTab ==
  ASSUME NEW s, NEW t, NEW g, CanAdd(s, g), t \in Tables \cup {KTable}, s.tabs[t] = Nil
  PROVE  AddsTab(s, t, g)
<1>a. PICK m : m = WithTab(s, t, g)
  OBVIOUS
<1>b. s \in SpaceType /\ Distinct(s) /\ g \in Pages \ PagesOf(s)
  BY DEF CanAdd
<1>0. s.tabs \in [Tables \cup {KTable} -> Pages \cup {Nil}]
  BY <1>a, <1>b DEF SpaceType
<1>1. m.pgdir = s.pgdir /\ m.tabs = [s.tabs EXCEPT ![t] = g] /\ m.pg = s.pg
  BY <1>a, <1>b DEF SpaceType, WithTab
<1>2. m \in SpaceType
  <2>1. [s.tabs EXCEPT ![t] = g] \in [Tables \cup {KTable} -> Pages \cup {Nil}]
    BY <1>a, <1>b, <1>0
  <2>2. m = [s EXCEPT !.tabs = [s.tabs EXCEPT ![t] = g]]
    BY <1>a, <1>b DEF WithTab
  <2> QED
    BY <1>a, <1>b, <2>1, <2>2 DEF SpaceType
<1>3. PagesOf(m) = PagesOf(s) \cup {g}
  <2>1. m.tabs[t] = g /\ \A u \in (Tables \cup {KTable}) \ {t} : m.tabs[u] = s.tabs[u]
    BY <1>a, <1>b, <1>0, <1>1
  <2>2. \A x : Points(s, x) => x = Nil \/ Points(m, x)
    BY <1>a, <1>b, <1>1, <2>1 DEF Points
  <2>3. (\A x : Points(m, x) => x = g \/ Points(s, x)) /\ Points(m, g)
    BY <1>a, <1>b, <1>1, <2>1 DEF Points
  <2> QED
    BY <1>a, <1>b, <1>2, <2>2, <2>3, OneMore
<1>4. Distinct(m)
  <2>1. DOMAIN s.tabs = Tables \cup {KTable} /\ DOMAIN m.tabs = Tables \cup {KTable}
    BY <1>a, <1>b, <1>0, <1>1
  <2>2. m.tabs[t] = g /\ \A u \in (Tables \cup {KTable}) \ {t} : m.tabs[u] = s.tabs[u]
    BY <1>a, <1>b, <1>0, <1>1
  <2>3. g # Nil /\ g # s.pgdir /\ (\A u \in Tables \cup {KTable} : s.tabs[u] # g) /\ \A a \in PageNos : s.pg[a] # g
    BY <1>a, <1>b, InPagesOf, NilNoPage DEF Points
  <2>4. ASSUME NEW u \in DOMAIN m.tabs, m.tabs[u] # Nil
        PROVE  m.tabs[u] # m.pgdir /\ \A a \in PageNos : m.pg[a] # m.tabs[u]
    BY <1>a, <1>b, <1>1, <2>1, <2>2, <2>3, <2>4 DEF Distinct
  <2>5. ASSUME NEW u \in DOMAIN m.tabs, NEW v \in DOMAIN m.tabs, m.tabs[u] = m.tabs[v], m.tabs[u] # Nil
        PROVE  u = v
    BY <1>a, <1>b, <2>1, <2>2, <2>3, <2>5 DEF Distinct
  <2> QED
    BY <1>a, <1>b, <1>1, <2>4, <2>5 DEF Distinct
<1>5. Mapped(m) = Mapped(s) /\ m.tabs[t] = g
  BY <1>a, <1>b, <1>0, <1>1 DEF Mapped
<1> QED
  BY <1>a, <1>b, <1>1, <1>2, <1>3, <1>4, <1>5 DEF AddsTab

\* ... or a user page.
WithPage(s, a, g) == [s EXCEPT !.pg[a] = g]
AddsPage(s, a, g) ==
  LET m == WithPage(s, a, g) IN
  /\ m \in SpaceType /\ m.pgdir = s.pgdir
  /\ PagesOf(m) = PagesOf(s) \cup {g} /\ Distinct(m) /\ Mapped(m) = Mapped(s) \cup {a}

\* (at a place that was free)
LEMMA AddPage ==
  ASSUME NEW s, NEW a, NEW g, CanAdd(s, g), a \in PageNos, s.pg[a] = Nil
  PROVE  AddsPage(s, a, g)
<1>a. PICK m : m = WithPage(s, a, g)
  OBVIOUS
<1>b. s \in SpaceType /\ Distinct(s) /\ g \in Pages \ PagesOf(s)
  BY DEF CanAdd
<1>0. s.pg \in [PageNos -> Pages \cup {Nil}]
  BY <1>a, <1>b DEF SpaceType
<1>1. m.pgdir = s.pgdir /\ m.tabs = s.tabs /\ m.pg = [s.pg EXCEPT ![a] = g]
  BY <1>a, <1>b DEF SpaceType, WithPage
<1>2. m \in SpaceType
  <2>1. [s.pg EXCEPT ![a] = g] \in [PageNos -> Pages \cup {Nil}]
    BY <1>a, <1>b, <1>0
  <2>2. m = [s EXCEPT !.pg = [s.pg EXCEPT ![a] = g]]
    BY <1>a, <1>b DEF WithPage
  <2> QED
    BY <1>a, <1>b, <2>1, <2>2 DEF SpaceType
<1>3. m.pg[a] = g /\ \A b \in PageNos \ {a} : m.pg[b] = s.pg[b]
  BY <1>a, <1>b, <1>0, <1>1
<1>4. PagesOf(m) = PagesOf(s) \cup {g}
  <2>1. \A x : Points(s, x) => x = Nil \/ Points(m, x)
    BY <1>a, <1>b, <1>1, <1>3 DEF Points
  <2>2. (\A x : Points(m, x) => x = g \/ Points(s, x)) /\ Points(m, g)
    BY <1>a, <1>b, <1>1, <1>3 DEF Points
  <2> QED
    BY <1>a, <1>b, <1>2, <2>1, <2>2, OneMore
<1>5. Distinct(m)
  <2>1. DOMAIN s.tabs = Tables \cup {KTable}
    BY <1>a, <1>b DEF SpaceType
  <2>2. g # Nil /\ g # s.pgdir /\ (\A u \in Tables \cup {KTable} : s.tabs[u] # g) /\ \A b \in PageNos : s.pg[b] # g
    BY <1>a, <1>b, InPagesOf, NilNoPage DEF Points
  <2>3. ASSUME NEW u \in DOMAIN m.tabs, m.tabs[u] # Nil
        PROVE  m.tabs[u] # m.pgdir /\ \A b \in PageNos : m.pg[b] # m.tabs[u]
    BY <1>a, <1>b, <1>1, <1>3, <2>1, <2>2, <2>3 DEF Distinct
  <2>4. ASSUME NEW b \in PageNos, m.pg[b] # Nil
        PROVE  m.pg[b] # m.pgdir /\ \A c \in PageNos : m.pg[b] = m.pg[c] => b = c
    BY <1>a, <1>b, <1>1, <1>3, <2>2, <2>4 DEF Distinct
  <2> QED
    BY <1>a, <1>b, <1>1, <2>3, <2>4 DEF Distinct
<1>6. Mapped(m) = Mapped(s) \cup {a}
  BY <1>a, <1>b, <1>3, NilNoPage DEF Mapped
<1> QED
  BY <1>a, <1>b, <1>1, <1>2, <1>4, <1>5, <1>6 DEF AddsPage

\* deallocuvm takes the pages from newsz on, and nothing else.
LEMMA DeallocIs ==
  ASSUME NEW s \in SpaceType, Distinct(s), NEW n \in 0..(KERNBASE - 1), NEW m, m = Dealloc(s, n)
  PROVE  /\ m \in SpaceType /\ m.pgdir = s.pgdir
         /\ PagesOf(m) \subseteq PagesOf(s) /\ Distinct(m) /\ Mapped(m) = Mapped(s) \cap Sized(n)
<1> DEFINE f == [a \in PageNos |-> IF a \in Sized(n) THEN s.pg[a] ELSE Nil]
<1>1. m = [s EXCEPT !.pg = f]
  BY DEF Dealloc
<1>2. f \in [PageNos -> Pages \cup {Nil}]
  BY DEF SpaceType
<1>3. m.pgdir = s.pgdir /\ m.tabs = s.tabs /\ m.pg = f
  BY <1>1 DEF SpaceType
<1>4. m \in SpaceType
  BY <1>1, <1>2 DEF SpaceType
<1>5. \A a \in PageNos : m.pg[a] = IF a \in Sized(n) THEN s.pg[a] ELSE Nil
  BY <1>3
<1> HIDE DEF f
<1>6. PagesOf(m) \subseteq PagesOf(s)
  <2>1. \A x : Points(m, x) => x = Nil \/ Points(s, x)
    BY <1>3, <1>5 DEF Points
  <2>2. \A x : x \in PagesOf(m) => x # Nil /\ Points(m, x)
    BY <1>4, InPagesOf
  <2>3. \A x : x # Nil /\ Points(s, x) => x \in PagesOf(s)
    BY InPagesOf
  <2> QED
    BY <2>1, <2>2, <2>3
<1>7. Distinct(m)
  <2>1. DOMAIN m.tabs = DOMAIN s.tabs
    BY <1>3
  <2>2. \A a \in PageNos : m.pg[a] # Nil => m.pg[a] = s.pg[a]
    BY <1>5
  <2>3. ASSUME NEW u \in DOMAIN m.tabs, m.tabs[u] # Nil
        PROVE  m.tabs[u] # m.pgdir /\ \A b \in PageNos : m.pg[b] # m.tabs[u]
    BY <1>3, <2>2, <2>3 DEF Distinct
  <2>4. ASSUME NEW b \in PageNos, m.pg[b] # Nil
        PROVE  m.pg[b] # m.pgdir /\ \A c \in PageNos : m.pg[b] = m.pg[c] => b = c
    BY <1>3, <2>2, <2>4 DEF Distinct
  <2> QED
    BY <1>3, <2>3, <2>4 DEF Distinct
<1>8. Mapped(m) = Mapped(s) \cap Sized(n)
  BY <1>5 DEF Mapped
<1> QED
  BY <1>3, <1>4, <1>6, <1>7, <1>8

-----------------------------------------------------------------------------
(***************************************************************************)
(* Holders.                                                                *)
(***************************************************************************)
\* What each holder has, now ...
LEMMA HasIs ==
  ASSUME NEW h
  PROVE  /\ h[1] = "free" => Has(h) = free
         /\ h[1] = "kvm" => Has(h) = PagesOf(kvm)
         /\ h[1] = "code4" => Has(h) = {code4} \ {Nil}
         /\ h[1] = "ap" => Has(h) = {aps[h[2]].stack} \ {Nil}
         /\ h[1] = "kstack" => Has(h) = {kstack[h[2]]} \ {Nil}
         /\ h[1] = "space" => Has(h) = PagesOf(space[h[2]])
         /\ h[1] = "new" => Has(h) = IF job[h[2]].op = "grow" THEN {} ELSE PagesOf(job[h[2]].new)
         /\ h[1] = "mem" => Has(h) = {job[h[2]].mem} \ {Nil}
BY SMTT(60) DEF Has

\* ... and after a step.
LEMMA HasNext ==
  ASSUME NEW h
  PROVE  /\ h[1] = "free" => Has(h)' = free'
         /\ h[1] = "kvm" => Has(h)' = PagesOf(kvm')
         /\ h[1] = "code4" => Has(h)' = {code4'} \ {Nil}
         /\ h[1] = "ap" => Has(h)' = {aps'[h[2]].stack} \ {Nil}
         /\ h[1] = "kstack" => Has(h)' = {kstack'[h[2]]} \ {Nil}
         /\ h[1] = "space" => Has(h)' = PagesOf(space'[h[2]])
         /\ h[1] = "new" => Has(h)' = IF job'[h[2]].op = "grow" THEN {} ELSE PagesOf(job'[h[2]].new)
         /\ h[1] = "mem" => Has(h)' = {job'[h[2]].mem} \ {Nil}
BY ZenonT(60) DEF Has, PagesOf

\* The holders are the free list, the kernel's and those of the processes.
LEMMA HolderIs ==
  ASSUME NEW h \in Holders
  PROVE  \/ h = <<"free", 0>>
         \/ h[1] \in {"kvm", "code4"} /\ h[2] = 0
         \/ h[1] = "ap" /\ h[2] \in APs
         \/ h[1] \in {"kstack", "space", "new", "mem"} /\ h[2] \in Procs
BY DEF Holders

\* The kernel's own memory stays.
KernelSame == UNCHANGED <<useLock, kvm, code4>> /\ \A c \in APs : aps'[c].stack = aps[c].stack

\* A process slot and its call stay.
Same(q) ==
  /\ state'[q] = state[q] /\ kstack'[q] = kstack[q] /\ sz'[q] = sz[q] /\ space'[q] = space[q]
  /\ cr3'[q] = cr3[q] /\ job'[q] = job[q]

\* What a holder has stays when the variable does.
LEMMA HasKept ==
  ASSUME NEW h \in Holders,
         h[1] = "free" => free' = free,
         h[1] = "kvm" => kvm' = kvm,
         h[1] = "code4" => code4' = code4,
         h[1] = "ap" => aps'[h[2]].stack = aps[h[2]].stack,
         h[1] = "kstack" => kstack'[h[2]] = kstack[h[2]],
         h[1] = "space" => space'[h[2]] = space[h[2]],
         h[1] = "new" => job'[h[2]].op = job[h[2]].op /\ job'[h[2]].new = job[h[2]].new,
         h[1] = "mem" => job'[h[2]].mem = job[h[2]].mem
  PROVE  Has(h)' = Has(h)
<1>1. CASE h[1] = "free"
  BY <1>1, HasIs, HasNext
<1>2. CASE h[1] = "kvm"
  BY <1>2, HasIs, HasNext
<1>3. CASE h[1] = "code4"
  BY <1>3, HasIs, HasNext
<1>4. CASE h[1] = "ap"
  BY SMTT(60), <1>4, HasIs, HasNext
<1>5. CASE h[1] = "kstack"
  BY <1>5, HasIs, HasNext
<1>6. CASE h[1] = "space"
  BY <1>6, HasIs, HasNext
<1>7. CASE h[1] = "new"
  <2>1. Has(h) = IF job[h[2]].op = "grow" THEN {} ELSE PagesOf(job[h[2]].new)
    BY <1>7, HasIs
  <2>2. Has(h)' = IF job'[h[2]].op = "grow" THEN {} ELSE PagesOf(job'[h[2]].new)
    BY <1>7, HasNext
  <2> QED
    BY <1>7, <2>1, <2>2
<1>8. CASE h[1] = "mem"
  BY <1>8, HasIs, HasNext
<1> QED
  BY <1>1, <1>2, <1>3, <1>4, <1>5, <1>6, <1>7, <1>8, HolderIs

\* Holders exchange pages, and no page is lost or in two of them.
LEMMA Exchange ==
  ASSUME OwnInv, UNCHANGED useLock, NEW C, C \subseteq Holders,
         \A i \in Holders \ C : Has(i)' = Has(i),
         \A i, j \in C : i # j => Has(i)' \cap Has(j)' = {},
         \A g : (\E i \in C : g \in Has(i)) <=> (\E i \in C : g \in Has(i)')
  PROVE  OwnInv'
<1>1. ASSUME NEW i \in Holders \ C, NEW j \in C PROVE Has(i)' \cap Has(j)' = {}
  <2>1. Has(i)' = Has(i) /\ \A k \in C : Has(i) \cap Has(k) = {}
    BY DEF OwnInv
  <2>2. ASSUME NEW g \in Has(i)', g \in Has(j)' PROVE FALSE
    <3>1. PICK k \in C : g \in Has(k)
      BY <2>2
    <3> QED
      BY <2>1, <2>2, <3>1
  <2> QED
    BY <2>2
<1>2. ASSUME NEW i \in Holders, NEW j \in Holders, i # j PROVE Has(i)' \cap Has(j)' = {}
  <2>1. CASE i \in C /\ j \in C
    BY <1>2, <2>1
  <2>2. CASE i \notin C /\ j \notin C
    BY <1>2, <2>2 DEF OwnInv
  <2>3. CASE (i \in C) # (j \in C)
    BY <1>1, <2>3
  <2> QED
    BY <2>1, <2>2, <2>3
<1>3. ASSUME NEW g \in Pages
      PROVE  (\E i \in Holders : g \in Has(i)) <=> (\E i \in Holders : g \in Has(i)')
  <2>1. (\E i \in C : g \in Has(i)) <=> (\E i \in C : g \in Has(i)')
    OBVIOUS
  <2>2. (\E i \in Holders \ C : g \in Has(i)) <=> (\E i \in Holders \ C : g \in Has(i)')
    OBVIOUS
  <2> QED
    BY <2>1, <2>2
<1>4. Managed' = Managed
  BY DEF Managed
<1> QED
  BY <1>2, <1>3, <1>4 DEF OwnInv

\* Nobody's pages change.
LEMMA OwnSame == ASSUME OwnInv, UNCHANGED useLock, \A i \in Holders : Has(i)' = Has(i) PROVE OwnInv'
<1>1. Managed' = Managed
  BY DEF Managed
<1> QED
  BY <1>1 DEF OwnInv

-----------------------------------------------------------------------------
(***************************************************************************)
(* What the steps of processes do.                                         *)
(***************************************************************************)
\* The slot q after a step, ...
Slot(q, st, ks, n, s, c3) ==
  state'[q] = st /\ kstack'[q] = ks /\ sz'[q] = n /\ space'[q] = s /\ cr3'[q] = c3

\* ... which may be what it was, ...
SlotSame(q) == Slot(q, state[q], kstack[q], sz[q], space[q], cr3[q])

\* ... and its call.
Call(q, op, pc, child, new, at, size, mem) ==
  /\ job'[q].op = op /\ job'[q].pc = pc /\ job'[q].child = child /\ job'[q].new = new
  /\ job'[q].at = at /\ job'[q].size = size /\ job'[q].mem = mem

\* Its call goes on at another step.
GoesOn(q, pc) ==
  Call(q, job[q].op, pc, job[q].child, job[q].new, job[q].at, job[q].size, job[q].mem)

\* Processes outside S keep everything.
Only(S) == \A q \in Procs \ S : Same(q)

\* No call has no page table, no page and no size.
LEMMA NoJobIs ==
  /\ NoJob.op = "none" /\ NoJob.pc = "idle" /\ NoJob.child = Nil /\ NoJob.new = NoSpace
  /\ NoJob.at = 0 /\ NoJob.size = 0 /\ NoJob.mem = Nil
BY DEF NoJob

\* The parts of a call.
LEMMA JobIs ==
  ASSUME TypeOK, NEW p \in Procs
  PROVE  /\ job[p] \in JobType /\ job[p].new \in SpaceType /\ job[p].mem \in Pages \cup {Nil}
         /\ job[p].child \in Procs \cup {Nil} /\ job[p].at \in 0..MaxPages /\ job[p].size \in 0..(KERNBASE - 1)
         /\ space[p] \in SpaceType /\ sz[p] \in 0..(KERNBASE - 1) /\ kstack[p] \in Pages \cup {Nil}
         /\ cr3[p] \in Pages \cup {Nil} /\ state[p] \in {"unused", "embryo", "alive", "zombie"}
BY DEF TypeOK, JobType


\* fork claims an unused slot.
LEMMA ForkIs ==
  ASSUME TypeOK, NEW p \in Procs, fork(p)
  PROVE  /\ Idle(p) /\ UNCHANGED <<free, cpus>>
         /\ \E q \in Procs \ {p} :
              /\ state[q] = "unused" /\ Only({p, q}) /\ SlotSame(p) /\ job'[q] = job[q]
              /\ Slot(q, "embryo", kstack[q], sz[q], space[q], cr3[q])
              /\ Call(p, "fork", "kstack", q, NoSpace, 0, sz[p], Nil)
BY JobIs, NoJobIs DEF fork, Idle, NoJob, Slot, SlotSame, Call, GoesOn, Only, Same, TypeOK, JobType

\* It gets a kernel stack, or is given back.
LEMMA AllocprocIs ==
  ASSUME TypeOK, NEW p \in Procs, allocproc(p)
  PROVE  /\ AtPc(p, "kstack") /\ UNCHANGED cpus
         /\ \A q \in Procs \ {p} : q = job[p].child =>
              /\ SlotSame(p) /\ job'[q] = job[q] /\ Only({p, q})
              /\ \/ /\ free = {} /\ free' = free /\ job'[p] = NoJob
                    /\ Slot(q, "unused", kstack[q], sz[q], space[q], cr3[q])
                 \/ /\ free # {} /\ free' = free \ {kalloc(1)} /\ GoesOn(p, "setupkvm")
                    /\ Slot(q, state[q], kalloc(1), sz[q], space[q], cr3[q])
BY JobIs, NoJobIs DEF allocproc, Slot, SlotSame, Call, GoesOn, Only, Same, TypeOK, JobType

\* exec starts with an empty page table.
LEMMA ExecIs ==
  ASSUME TypeOK, NEW p \in Procs, NEW n \in Sizes, exec(p, n)
  PROVE  /\ Idle(p) /\ UNCHANGED <<free, cpus>> /\ Only({p}) /\ SlotSame(p)
         /\ \E size \in 0..(KERNBASE - 1) : Call(p, "exec", "setupkvm", Nil, NoSpace, 0, size, Nil)
<1> DEFINE size == (PGROUNDUP(n) + StackPages) * PGSIZE
<1>1. size \in 0..(KERNBASE - 1)
  <2>1. PGROUNDUP(n) \in Nat
    <3>1. n + PGSIZE - 1 \in Nat /\ PGSIZE \in Nat \ {0}
      BY MemoryAssumption, RoomForOne DEF Sizes
    <3> QED
      BY <3>1, DivNat DEF PGROUNDUP
  <2>2. size \in Nat
    <3>1. ASSUME NEW a \in Nat, NEW b \in Nat, NEW c \in Nat PROVE (a + b) * c \in Nat
      BY <3>1
    <3> QED
      BY <2>1, <3>1, MemoryAssumption
  <2>3. size < KERNBASE
    BY DEF exec, Fits
  <2> QED
    BY <2>2, <2>3, RoomForOne
<1> HIDE DEF size
<1>2. job' = [job EXCEPT ![p] = [NoJob EXCEPT !.op = "exec", !.pc = "setupkvm", !.size = size]]
  BY DEF exec, size
<1>3. Call(p, "exec", "setupkvm", Nil, NoSpace, 0, size, Nil)
  BY <1>2, JobIs, NoJobIs DEF Call, NoJob, TypeOK
<1> QED
  BY <1>1, <1>2, <1>3 DEF exec, Idle, Slot, SlotSame, Call, GoesOn, Only, Same, TypeOK, JobType

\* growproc works on the process's own page table.
LEMMA GrowIs ==
  ASSUME TypeOK, NEW p \in Procs, NEW n \in Sizes, grow(p, n)
  PROVE  /\ Idle(p) /\ UNCHANGED <<free, cpus>> /\ Only({p}) /\ SlotSame(p)
         /\ \E size \in 0..(KERNBASE - 1) :
              /\ sz[p] <= size
              /\ Call(p, "grow", "page", Nil, space[p], PGROUNDUP(sz[p]), size, Nil)
<1>1. sz[p] + n \in 0..(KERNBASE - 1) /\ sz[p] <= sz[p] + n
  BY JobIs, RoomForOne DEF grow, Fits, Sizes
<1>2. Call(p, "grow", "page", Nil, space[p], PGROUNDUP(sz[p]), sz[p] + n, Nil)
  BY JobIs, NoJobIs DEF grow, Call, NoJob, TypeOK
<1> QED
  BY <1>1, <1>2 DEF grow, Idle, Slot, SlotSame, Call, GoesOn, Only, Same, TypeOK, JobType

\* growproc gives pages back.
LEMMA ShrinkIs ==
  ASSUME TypeOK, NEW p \in Procs, NEW n \in ShrinkSizes, shrink(p, n)
  PROVE  /\ Idle(p) /\ UNCHANGED cpus /\ Only({p}) /\ job'[p] = job[p] /\ n \in 0..(sz[p] - 1)
         /\ free' = free \cup (PagesOf(space[p]) \ PagesOf(Dealloc(space[p], n)))
         /\ IF n = 0 THEN Slot(p, state[p], kstack[p], sz[p], Dealloc(space[p], n), cr3[p])
                     ELSE Slot(p, state[p], kstack[p], n, Dealloc(space[p], n), space[p].pgdir)
<1>1. n \in 0..(sz[p] - 1)
  BY JobIs, RoomForOne, MemoryAssumption DEF shrink
<1> QED
  BY <1>1 DEF shrink, Idle, Slot, SlotSame, Call, GoesOn, Only, Same, TypeOK, JobType

\* A page for the directory.
LEMMA SetupkvmIs ==
  ASSUME TypeOK, NEW p \in Procs, setupkvm(p)
  PROVE  /\ AtPc(p, "setupkvm") /\ UNCHANGED cpus /\ Only({p}) /\ SlotSame(p)
         /\ \/ free' = free /\ GoesOn(p, "bad")
            \/ /\ free # {} /\ free' = free \ {kalloc(1)}
               /\ Call(p, job[p].op, "kmap", job[p].child, [job[p].new EXCEPT !.pgdir = kalloc(1)], job[p].at,
                       job[p].size, job[p].mem)
BY JobIs, NoJobIs DEF setupkvm, Slot, SlotSame, Call, GoesOn, Only, Same, TypeOK, JobType

\* A page for the kernel's table.
LEMMA KmapIs ==
  ASSUME TypeOK, NEW p \in Procs, kmap(p)
  PROVE  /\ AtPc(p, "kmap") /\ UNCHANGED cpus /\ Only({p}) /\ SlotSame(p)
         /\ \/ free' = free /\ GoesOn(p, "bad")
            \/ /\ free # {} /\ free' = free \ {kalloc(1)}
               /\ Call(p, job[p].op, "page", job[p].child, [job[p].new EXCEPT !.tabs[KTable] = kalloc(1)], job[p].at,
                       job[p].size, job[p].mem)
<1>1. CASE free = {}
  BY <1>1, JobIs DEF kmap, Slot, SlotSame, Call, GoesOn, Only, Same, TypeOK, JobType
<1>2. CASE free # {}
  <2> DEFINE m == [job[p].new EXCEPT !.tabs[KTable] = kalloc(1)]
  <2>1. job' = [job EXCEPT ![p].pc = "page", ![p].new = m]
    BY <1>2 DEF kmap
  <2> HIDE DEF m
  <2>2. Call(p, job[p].op, "page", job[p].child, m, job[p].at, job[p].size, job[p].mem)
    BY <2>1, JobIs DEF Call, TypeOK, JobType
  <2>3. Only({p}) /\ SlotSame(p)
    BY <2>1 DEF kmap, Only, Same, SlotSame, Slot, TypeOK
  <2> QED
    BY <1>2, <2>2, <2>3 DEF kmap, m
<1> QED
  BY <1>1, <1>2

\* A page of user memory ...
LEMMA UvmPageIs ==
  ASSUME TypeOK, NEW p \in Procs, uvm_page(p)
  PROVE  /\ AtPc(p, "page") /\ job[p].at < Target(job[p]) /\ UNCHANGED cpus /\ Only({p}) /\ SlotSame(p)
         /\ \/ free' = free /\ GoesOn(p, "bad")
            \/ free' = free /\ GoesOn(p, "panic") /\ job[p].op = "fork"
            \/ /\ free # {} /\ free' = free \ {kalloc(1)}
               /\ Call(p, job[p].op, "map", job[p].child, job[p].new, job[p].at, job[p].size, kalloc(1))
BY JobIs, NoJobIs DEF uvm_page, Missing, Slot, SlotSame, Call, GoesOn, Only, Same, TypeOK, JobType

\* ... is mapped, in a table that may be new, or is not.
LEMMA MappagesIs ==
  ASSUME TypeOK, NEW p \in Procs, job[p].at \in PageNos, mappages(p)
  PROVE  /\ AtPc(p, "map") /\ UNCHANGED cpus /\ Only({p})
         /\ \E s : LET t == job[p].at \div PTPAGES
                       m == [s EXCEPT !.pg[job[p].at] = job[p].mem] IN
              /\ \/ s = job[p].new
                 \/ job[p].new.tabs[t] = Nil /\ free # {} /\ s = [job[p].new EXCEPT !.tabs[t] = kalloc(1)]
              /\ free' = free \ PagesOf(s)
              /\ \/ s = job[p].new /\ SlotSame(p) /\ GoesOn(p, "kfree")
                 \/ /\ Call(p, job[p].op, "page", job[p].child, m, job[p].at + 1, job[p].size, Nil)
                    /\ Slot(p, state[p], kstack[p], sz[p], IF job[p].op = "grow" THEN m ELSE space[p], cr3[p])
<1> DEFINE j == job[p]
           t == j.at \div PTPAGES
           s == IF j.new.tabs[t] = Nil /\ free # {} THEN [j.new EXCEPT !.tabs[t] = kalloc(1)] ELSE j.new
           m == [s EXCEPT !.pg[j.at] = j.mem]
<1>1. /\ AtPc(p, "map") /\ free' = free \ PagesOf(s)
      /\ UNCHANGED <<cpus, state, kstack, sz, cr3>>
      /\ IF s.tabs[t] = Nil
           THEN /\ job' = [job EXCEPT ![p].pc = "kfree"]
                /\ UNCHANGED space
           ELSE /\ job' = [job EXCEPT ![p] = [j EXCEPT !.pc = "page", !.new = m, !.at = @ + 1, !.mem = Nil]]
                /\ space' = IF j.op = "grow" THEN [space EXCEPT ![p] = m] ELSE space
  BY ZenonT(60) DEF mappages
<1>2. \/ s = j.new
      \/ j.new.tabs[t] = Nil /\ free # {} /\ s = [j.new EXCEPT !.tabs[t] = kalloc(1)]
  OBVIOUS
<1>3. s.tabs[t] = Nil => s = j.new
  <2>1. CASE j.new.tabs[t] = Nil /\ free # {}
    <3>1. s = [j.new EXCEPT !.tabs[t] = kalloc(1)]
      BY <2>1
    <3>2. j.new \in SpaceType /\ kalloc(1) # Nil
      BY <2>1, JobIs, KallocOne, NilNoPage DEF TypeOK
    <3>3. s.tabs = [j.new.tabs EXCEPT ![t] = kalloc(1)]
      BY <3>1, <3>2 DEF SpaceType
    <3>4. t \in Tables
      BY TableOf
    <3>5. s.tabs[t] # Nil
      BY <3>2, <3>3, <3>4 DEF SpaceType
    <3> QED
      BY <3>5
  <2> QED
    BY <2>1
<1> HIDE DEF s, m
<1>4. Only({p})
  BY SMTT(60), <1>1 DEF Only, Same, TypeOK
<1>5. CASE s.tabs[t] = Nil
  <2>1. SlotSame(p) /\ GoesOn(p, "kfree")
    BY SMTT(60), <1>1, <1>5, JobIs DEF SlotSame, Slot, GoesOn, Call, TypeOK, JobType
  <2> QED
    BY ZenonT(60), <1>1, <1>2, <1>3, <1>4, <1>5, <2>1
<1>6. CASE s.tabs[t] # Nil
  <2>1. Call(p, j.op, "page", j.child, m, j.at + 1, j.size, Nil)
    <3>1. job' = [job EXCEPT ![p] = [job[p] EXCEPT !.pc = "page", !.new = m, !.at = job[p].at + 1, !.mem = Nil]]
      BY <1>1, <1>6
    <3> QED
      BY <3>1, JobIs DEF Call, TypeOK, JobType
  <2>2. Slot(p, state[p], kstack[p], sz[p], IF j.op = "grow" THEN m ELSE space[p], cr3[p])
    BY <1>1, <1>6 DEF Slot, TypeOK
  <2> QED
    BY ZenonT(60), <1>1, <1>2, <1>4, <2>1, <2>2 DEF m
<1> QED
  BY <1>5, <1>6

\* The page that could not be mapped goes back.
LEMMA UnmappedIs ==
  ASSUME TypeOK, NEW p \in Procs, unmapped(p)
  PROVE  /\ AtPc(p, "kfree") /\ UNCHANGED cpus /\ Only({p}) /\ SlotSame(p)
         /\ free' = free \cup {job[p].mem}
         /\ Call(p, job[p].op, "bad", job[p].child, job[p].new, job[p].at, job[p].size, Nil)
BY JobIs, NoJobIs DEF unmapped, Slot, SlotSame, Call, GoesOn, Only, Same, TypeOK, JobType

\* exec gives up.
LEMMA ExecErrorIs ==
  ASSUME TypeOK, NEW p \in Procs, exec_error(p)
  PROVE  /\ AtPc(p, "page") /\ job[p].op = "exec" /\ UNCHANGED <<free, cpus>> /\ Only({p}) /\ SlotSame(p)
         /\ GoesOn(p, "bad")
BY JobIs, NoJobIs DEF exec_error, Slot, SlotSame, Call, GoesOn, Only, Same, TypeOK, JobType

\* The new page table goes back, and what fork had.
LEMMA BadNewIs ==
  ASSUME TypeOK, NEW p \in Procs, bad_new(p)
  PROVE  /\ AtPc(p, "bad") /\ job[p].op # "grow" /\ UNCHANGED cpus /\ job'[p] = NoJob
         /\ job[p].op # "fork" => Only({p}) /\ SlotSame(p) /\ free' = free \cup PagesOf(job[p].new)
         /\ \A q \in Procs \ {p} : job[p].op = "fork" /\ q = job[p].child =>
              /\ SlotSame(p) /\ job'[q] = job[q] /\ Only({p, q})
              /\ free' = free \cup PagesOf(job[p].new) \cup {kstack[q]}
              /\ Slot(q, "unused", Nil, sz[q], space[q], cr3[q])
BY JobIs, NoJobIs DEF bad_new, Slot, SlotSame, Call, GoesOn, Only, Same, TypeOK, JobType

\* allocuvm undoes what it did.
LEMMA BadGrowIs ==
  ASSUME TypeOK, NEW p \in Procs, bad_grow(p)
  PROVE  /\ AtPc(p, "bad") /\ job[p].op = "grow" /\ UNCHANGED cpus /\ Only({p}) /\ job'[p] = NoJob
         /\ free' = free \cup (PagesOf(space[p]) \ PagesOf(Dealloc(space[p], sz[p])))
         /\ Slot(p, state[p], kstack[p], sz[p], Dealloc(space[p], sz[p]), cr3[p])
BY JobIs, NoJobIs DEF bad_grow, Slot, SlotSame, Call, GoesOn, Only, Same, TypeOK, JobType

\* The child gets the page table.
LEMMA ForkDoneIs ==
  ASSUME TypeOK, NEW p \in Procs, fork_done(p)
  PROVE  /\ Built(p) /\ job[p].op = "fork" /\ UNCHANGED <<free, cpus>> /\ job'[p] = NoJob
         /\ \A q \in Procs \ {p} : q = job[p].child =>
              /\ SlotSame(p) /\ job'[q] = job[q] /\ Only({p, q})
              /\ Slot(q, "alive", kstack[q], sz[p], job[p].new, job[p].new.pgdir)
BY JobIs, NoJobIs DEF fork_done, Slot, SlotSame, Call, GoesOn, Only, Same, TypeOK, JobType

\* The process has its new size.
LEMMA GrowDoneIs ==
  ASSUME TypeOK, NEW p \in Procs, grow_done(p)
  PROVE  /\ Built(p) /\ job[p].op = "grow" /\ UNCHANGED <<free, cpus>> /\ Only({p}) /\ job'[p] = NoJob
         /\ Slot(p, state[p], kstack[p], job[p].size, space[p], space[p].pgdir)
BY JobIs, NoJobIs DEF grow_done, Slot, SlotSame, Call, GoesOn, Only, Same, TypeOK, JobType

\* exec changes the page table; the old one is now in job.new.
LEMMA ExecCommitIs ==
  ASSUME TypeOK, NEW p \in Procs, exec_commit(p)
  PROVE  /\ Built(p) /\ job[p].op = "exec" /\ UNCHANGED <<free, cpus>> /\ Only({p})
         /\ Slot(p, state[p], kstack[p], job[p].size, job[p].new, cr3[p])
         /\ Call(p, job[p].op, "switchuvm", job[p].child, space[p], job[p].at, job[p].size, job[p].mem)
BY JobIs, NoJobIs DEF exec_commit, AfterCommit, Slot, SlotSame, Call, GoesOn, Only, Same, TypeOK, JobType

\* cr3 is the page table of the process.
LEMMA SwitchuvmIs ==
  ASSUME TypeOK, NEW p \in Procs, switchuvm(p)
  PROVE  /\ state[p] = "alive" /\ UNCHANGED <<free, cpus>> /\ Only({p})
         /\ cr3[p] # space[p].pgdir \/ job[p].pc = "switchuvm"
         /\ Slot(p, state[p], kstack[p], sz[p], space[p], space[p].pgdir)
         /\ GoesOn(p, IF job[p].pc = "switchuvm" THEN "freevm" ELSE job[p].pc)
BY JobIs, NoJobIs DEF switchuvm, Slot, SlotSame, Call, GoesOn, Only, Same, TypeOK, JobType

\* The old page table goes back.
LEMMA ExecFreevmIs ==
  ASSUME TypeOK, NEW p \in Procs, exec_freevm(p)
  PROVE  /\ AtPc(p, "freevm") /\ UNCHANGED cpus /\ Only({p}) /\ SlotSame(p) /\ job'[p] = NoJob
         /\ free' = free \cup PagesOf(job[p].new)
BY JobIs, NoJobIs DEF exec_freevm, Slot, SlotSame, Call, GoesOn, Only, Same, TypeOK, JobType

\* A zombie is on no CPU.
LEMMA ExitIs ==
  ASSUME TypeOK, NEW p \in Procs, exit(p)
  PROVE  /\ Idle(p) /\ UNCHANGED <<free, cpus>> /\ Only({p}) /\ job'[p] = job[p]
         /\ Slot(p, "zombie", kstack[p], sz[p], space[p], kvm.pgdir)
BY JobIs, NoJobIs DEF exit, Slot, SlotSame, Call, GoesOn, Only, Same, TypeOK, JobType

\* wait takes the memory of a zombie.
LEMMA WaitIs ==
  ASSUME TypeOK, NEW p \in Procs, NEW q \in Procs, wait(p, q)
  PROVE  /\ Idle(p) /\ state[q] = "zombie" /\ UNCHANGED cpus /\ Only({q}) /\ job'[q] = job[q]
         /\ free' = free \cup {kstack[q]} \cup PagesOf(space[q])
         /\ Slot(q, "unused", Nil, 0, NoSpace, Nil)
BY JobIs, NoJobIs DEF wait, Slot, SlotSame, Call, GoesOn, Only, Same, TypeOK, JobType

\* userinit makes init.
LEMMA UserinitIs ==
  ASSUME TypeOK, userinit
  PROVE  /\ boot.pc = "userinit" /\ Cardinality(free) >= 5 /\ UNCHANGED <<useLock, kvm, code4, aps>>
         /\ boot' = [boot EXCEPT !.pc = IF useLock THEN "sched" ELSE "kinit2"]
         /\ 1 \in Procs /\ Only({1}) /\ job'[1] = job[1]
         /\ \E s : /\ s = [NoSpace EXCEPT !.pgdir = kalloc(2), !.tabs[KTable] = kalloc(3), !.tabs[0] = kalloc(5),
                                          !.pg[0] = kalloc(4)]
                   /\ free' = free \ (PagesOf(s) \cup {kalloc(1)})
                   /\ Slot(1, "alive", kalloc(1), PGSIZE, s, s.pgdir)
<1>1. 1 \in Procs
  BY MemoryAssumption DEF Procs
<1> DEFINE s == [NoSpace EXCEPT !.pgdir = kalloc(2), !.tabs[KTable] = kalloc(3), !.tabs[0] = kalloc(5),
                                !.pg[0] = kalloc(4)]
<1>2. /\ kstack' = [kstack EXCEPT ![1] = kalloc(1)]
      /\ space' = [space EXCEPT ![1] = s]
      /\ free' = free \ (PagesOf(s) \cup {kalloc(1)})
      /\ state' = [state EXCEPT ![1] = "alive"]
      /\ sz' = [sz EXCEPT ![1] = PGSIZE]
      /\ cr3' = [cr3 EXCEPT ![1] = s.pgdir]
      /\ UNCHANGED job
  BY DEF userinit
<1>3. s = [NoSpace EXCEPT !.pgdir = kalloc(2), !.tabs[KTable] = kalloc(3), !.tabs[0] = kalloc(5),
                                !.pg[0] = kalloc(4)]
  OBVIOUS
<1> HIDE DEF s
<1>4. Only({1}) /\ job'[1] = job[1]
  BY <1>2 DEF Only, Same, TypeOK
<1>5. Slot(1, "alive", kalloc(1), PGSIZE, s, s.pgdir)
  BY <1>1, <1>2 DEF Slot, TypeOK
<1>6. /\ boot.pc = "userinit" /\ Cardinality(free) >= 5 /\ UNCHANGED <<useLock, kvm, code4, aps>>
      /\ boot' = [boot EXCEPT !.pc = IF useLock THEN "sched" ELSE "kinit2"]
  BY DEF userinit
<1> QED
  BY <1>1, <1>2, <1>3, <1>4, <1>5, <1>6

-----------------------------------------------------------------------------
(***************************************************************************)
(* ProcInv.                                                                *)
(***************************************************************************)
\* A process that a step leaves alone is as good as it was.
LEMMA LocalKept == ASSUME NEW q \in Procs, LocalOk(q), Same(q) PROVE LocalOk(q)'
BY DEF LocalOk, ProcOk, BuildOk, SizeOk, Cr3Ok, Same, Target

\* The parts of LocalOk.
LEMMA LocalParts ==
  ASSUME NEW q \in Procs
  PROVE  LocalOk(q) <=> /\ ProcOk(q) /\ BuildOk(q) /\ SizeOk(q) /\ Cr3Ok(q)
                        /\ Distinct(space[q]) /\ Distinct(job[q].new)
BY DEF LocalOk

\* A process without a call: its slot is all there is to look at.
LEMMA LocalIdle ==
  ASSUME NEW q \in Procs, job'[q] = NoJob, Distinct(space'[q]),
         state'[q] \in {"unused", "embryo"} => space'[q] = NoSpace,
         state'[q] = "unused" => kstack'[q] = Nil,
         state'[q] \in {"alive", "zombie"} => kstack'[q] # Nil,
         state'[q] = "alive" => Covers(Mapped(space'[q]), Sized(sz'[q])) /\ cr3'[q] = space'[q].pgdir
  PROVE  LocalOk(q)'
<1>1. ProcOk(q)'
  BY NoJobIs DEF ProcOk
<1>2. BuildOk(q)'
  BY NoJobIs, PagesOfOne DEF BuildOk, Target
<1>3. SizeOk(q)' /\ Cr3Ok(q)'
  BY NoJobIs DEF SizeOk, Cr3Ok
<1>4. Distinct(job'[q].new)
  BY NoJobIs, NoSpaceIs
<1> QED
  BY <1>1, <1>2, <1>3, <1>4 DEF LocalOk

\* A process in a call that does not end: alive as before, with these memory and page table.
LEMMA LocalCall ==
  ASSUME NEW q \in Procs, LocalOk(q), state[q] = "alive", state'[q] = "alive", kstack'[q] = kstack[q],
         Distinct(space'[q]), Distinct(job'[q].new),
         job'[q].op # "none", job'[q].pc # "idle", job'[q].mem # Nil <=> job'[q].pc \in {"map", "kfree"},
         BuildOk(q)', SizeOk(q)', Cr3Ok(q)'
  PROVE  LocalOk(q)'
<1>1. ProcOk(q)'
  BY DEF ProcOk, LocalOk
<1> QED
  BY <1>1 DEF LocalOk



\* A step of a call that changes neither the slot nor the kind of the call.
LEMMA LocalMoves ==
  ASSUME NEW q \in Procs, LocalOk(q), state[q] = "alive", SlotSame(q), job[q].pc # "switchuvm",
         job'[q].pc \notin {"switchuvm", "idle"}, job'[q].op # "none",
         job[q].op = "grow" => job'[q].op = "grow", Distinct(job'[q].new),
         job'[q].mem # Nil <=> job'[q].pc \in {"map", "kfree"}, BuildOk(q)'
  PROVE  LocalOk(q)'
<1>1. SizeOk(q)' /\ Cr3Ok(q)'
  BY DEF SizeOk, Cr3Ok, LocalOk, SlotSame, Slot
<1>2. Distinct(space'[q]) /\ state'[q] = "alive" /\ kstack'[q] = kstack[q]
  BY DEF LocalOk, SlotSame, Slot
<1> QED
  BY <1>1, <1>2, LocalCall

\* The call of a process ends and its slot stays.
LEMMA LocalEnds ==
  ASSUME NEW q \in Procs, LocalOk(q), state[q] = "alive", SlotSame(q), job'[q] = NoJob,
         job[q].op # "grow", job[q].pc # "switchuvm"
  PROVE  LocalOk(q)'
<1>1. /\ Distinct(space'[q]) /\ state'[q] = "alive" /\ kstack'[q] # Nil
      /\ Covers(Mapped(space'[q]), Sized(sz'[q])) /\ cr3'[q] = space'[q].pgdir
  BY DEF LocalOk, ProcOk, SizeOk, Cr3Ok, SlotSame, Slot
<1> QED
  BY <1>1, LocalIdle

\* One or two processes change.
LEMMA ProcBut ==
  ASSUME IInv, NEW S, Only(S), \A q \in S \cap Procs : LocalOk(q)'
  PROVE  ProcInv'
<1>1. ASSUME NEW q \in Procs \ S PROVE LocalOk(q)'
  BY LocalKept DEF IInv, ProcInv, Only
<1> QED
  BY <1>1 DEF ProcInv

\* What is being built is not on the free list, nor is the page to be mapped, which is not in it.
LEMMA NewApart ==
  ASSUME IInv, NEW p \in Procs
  PROVE  PagesOf(job[p].new) \cap free = {} /\ job[p].mem \notin free /\ job[p].mem \notin PagesOf(job[p].new)
<1>1. PICK f, n, s, m : f = <<"free", 0>> /\ n = <<"new", p>> /\ s = <<"space", p>> /\ m = <<"mem", p>>
  OBVIOUS
<1>2. f \in Holders /\ n \in Holders /\ s \in Holders /\ m \in Holders
  BY <1>1 DEF Holders
<1>3. f # n /\ f # s /\ f # m /\ n # m /\ s # m
  BY <1>1
<1>4. Has(f) \cap Has(n) = {} /\ Has(f) \cap Has(s) = {} /\ Has(f) \cap Has(m) = {}
      /\ Has(n) \cap Has(m) = {} /\ Has(s) \cap Has(m) = {}
  BY <1>2, <1>3 DEF IInv, OwnInv
<1>5. Has(f) = free /\ Has(s) = PagesOf(space[p]) /\ Has(m) = {job[p].mem} \ {Nil}
      /\ Has(n) = IF job[p].op = "grow" THEN {} ELSE PagesOf(job[p].new)
  <2>1. /\ f[1] = "free" /\ s[1] = "space" /\ s[2] = p /\ m[1] = "mem" /\ m[2] = p /\ n[1] = "new" /\ n[2] = p
    BY <1>1
  <2> QED
    BY <2>1, HasIs
<1>6. job[p].op = "grow" => job[p].new = space[p]
  BY DEF IInv, ProcInv, LocalOk, BuildOk
<1>7. Nil \notin free /\ Nil \notin PagesOf(job[p].new)
  BY NilNoPage, InPagesOf, JobIs DEF IInv, TypeOK
<1> QED
  BY <1>4, <1>5, <1>6, <1>7

\* The slot that a fork fills is another one.
LEMMA ChildApart ==
  ASSUME IInv, NEW p \in Procs, state[p] = "alive", job[p].op = "fork"
  PROVE  /\ job[p].child \in Procs \ {p} /\ state[job[p].child] = "embryo" /\ job[job[p].child] = NoJob
         /\ space[job[p].child] = NoSpace
         /\ kstack[job[p].child] = Nil <=> job[p].pc = "kstack"
<1>1. job[p].child \in Procs /\ state[job[p].child] = "embryo" /\ (kstack[job[p].child] = Nil <=> job[p].pc = "kstack")
  BY DEF IInv, ChildInv, ForkOk
<1>2. LocalOk(job[p].child)
  BY <1>1 DEF IInv, ProcInv
<1> QED
  BY <1>1, <1>2 DEF LocalOk, ProcOk

\* At the end of the pages of a call they are those of its size.
LEMMA BuiltIs ==
  ASSUME IInv, NEW p \in Procs, Built(p)
  PROVE  Covers(Mapped(job[p].new), Sized(job[p].size)) /\ state[p] = "alive" /\ job[p].pc = "page"
<1>1. state[p] = "alive" /\ job[p].pc = "page" /\ job[p].at >= Target(job[p])
  BY DEF Built, AtPc
<1>2. Covers(Mapped(job[p].new), 0..(job[p].at - 1)) /\ job[p].at <= Target(job[p])
  BY <1>1 DEF IInv, ProcInv, LocalOk, BuildOk
<1>3. Target(job[p]) \in Nat /\ job[p].at \in Nat /\ Target(job[p]) = PGROUNDUP(job[p].size)
  BY JobIs, PagesFit, MemoryAssumption DEF IInv, Target
<1> QED
  BY <1>1, <1>2, <1>3 DEF Sized

\* fork has an empty slot.
LEMMA ForkLocal == ASSUME IInv, NEW p \in Procs, fork(p) PROVE ProcInv'
<1> USE DEF IInv
<1>1. state[p] = "alive" /\ job[p].pc = "idle" /\ LocalOk(p)
  BY ForkIs DEF Idle, ProcInv
<1>2. PICK q \in Procs \ {p} :
        /\ state[q] = "unused" /\ Only({p, q}) /\ SlotSame(p) /\ job'[q] = job[q]
        /\ Slot(q, "embryo", kstack[q], sz[q], space[q], cr3[q])
        /\ Call(p, "fork", "kstack", q, NoSpace, 0, sz[p], Nil)
  BY ForkIs
<1>3. BuildOk(p)'
  <2>1. PGROUNDUP(sz[p]) \in Nat
    BY JobIs, PagesFit
  <2> QED
    BY <1>2, <2>1 DEF BuildOk, Target, Call, SlotSame, Slot
<1>4. LocalOk(p)'
  <2>1. job[p].op = "none"
    BY <1>1, NoJobIs DEF LocalOk, ProcOk
  <2>2. Distinct(job'[p].new) /\ job'[p].mem = Nil /\ job'[p].pc = "kstack" /\ job'[p].op = "fork"
    BY <1>2, NoSpaceIs DEF Call
  <2> QED
    BY <1>1, <1>2, <1>3, <2>1, <2>2, LocalMoves
<1>5. LocalOk(q)'
  <2>1. LocalOk(q)
    BY DEF ProcInv
  <2>2. job'[q] = NoJob /\ space'[q] = NoSpace /\ state'[q] = "embryo"
    BY <1>2, <2>1 DEF LocalOk, ProcOk, Slot
  <2> QED
    BY <2>2, LocalIdle, NoSpaceIs
<1> QED
  BY <1>2, <1>4, <1>5, ProcBut

\* Its child has a stack or is no more.
LEMMA AllocprocLocal == ASSUME IInv, NEW p \in Procs, allocproc(p) PROVE ProcInv'
<1> USE DEF IInv
<1>1. state[p] = "alive" /\ job[p].pc = "kstack" /\ LocalOk(p)
  BY AllocprocIs DEF AtPc, ProcInv
<1>2. job[p].op = "fork" /\ job[p].mem = Nil /\ job[p].new = NoSpace
  BY <1>1 DEF LocalOk, BuildOk, ProcOk
<1>3. PICK q \in Procs \ {p} : q = job[p].child /\ job[q] = NoJob /\ space[q] = NoSpace /\ kstack[q] = Nil
                               /\ state[q] = "embryo"
  BY <1>1, <1>2, ChildApart
<1>4. /\ SlotSame(p) /\ job'[q] = job[q] /\ Only({p, q})
      /\ \/ /\ job'[p] = NoJob
            /\ Slot(q, "unused", kstack[q], sz[q], space[q], cr3[q])
         \/ /\ GoesOn(p, "setupkvm")
            /\ Slot(q, state[q], kalloc(1), sz[q], space[q], cr3[q])
  BY <1>3, AllocprocIs
<1>5. LocalOk(q)'
  BY <1>3, <1>4, LocalIdle, NoSpaceIs DEF Slot
<1>6. LocalOk(p)'
  <2>1. CASE job'[p] = NoJob
    BY <1>1, <1>2, <1>4, <2>1, LocalEnds
  <2>2. CASE GoesOn(p, "setupkvm")
    <3>1. BuildOk(p)'
      BY <1>1, <1>2, <1>4, <2>2 DEF LocalOk, BuildOk, Target, Call, GoesOn, SlotSame, Slot
    <3>2. job'[p].pc = "setupkvm" /\ job'[p].op = "fork" /\ job'[p].mem = Nil /\ Distinct(job'[p].new)
      BY <1>2, <2>2, NoSpaceIs DEF Call, GoesOn
    <3> QED
      BY <1>1, <1>2, <1>4, <3>1, <3>2, LocalMoves
  <2> QED
    BY <1>4, <2>1, <2>2
<1> QED
  BY <1>4, <1>5, <1>6, ProcBut

\* exec has an empty page table.
LEMMA ExecLocal == ASSUME IInv, NEW p \in Procs, NEW n \in Sizes, exec(p, n) PROVE ProcInv'
<1> USE DEF IInv
<1>1. state[p] = "alive" /\ job[p].pc = "idle" /\ LocalOk(p) /\ Only({p}) /\ SlotSame(p)
  BY ExecIs DEF Idle, ProcInv
<1>2. PICK size \in 0..(KERNBASE - 1) : Call(p, "exec", "setupkvm", Nil, NoSpace, 0, size, Nil)
  BY ExecIs
<1>3. BuildOk(p)'
  <2>1. PGROUNDUP(size) \in Nat
    BY PagesFit
  <2> QED
    BY <1>2, <2>1 DEF BuildOk, Target, Call
<1>4. LocalOk(p)'
  <2>1. job[p].op = "none"
    BY <1>1, NoJobIs DEF LocalOk, ProcOk
  <2>2. Distinct(job'[p].new) /\ job'[p].mem = Nil /\ job'[p].pc = "setupkvm" /\ job'[p].op = "exec"
    BY <1>2, NoSpaceIs DEF Call
  <2> QED
    BY <1>1, <1>3, <2>1, <2>2, LocalMoves
<1> QED
  BY <1>1, <1>4, ProcBut

\* growproc starts from the pages there are.
LEMMA GrowLocal == ASSUME IInv, NEW p \in Procs, NEW n \in Sizes, grow(p, n) PROVE ProcInv'
<1> USE DEF IInv
<1>1. state[p] = "alive" /\ job[p].pc = "idle" /\ LocalOk(p) /\ Only({p}) /\ SlotSame(p)
  BY GrowIs DEF Idle, ProcInv
<1>2. PICK size \in 0..(KERNBASE - 1) :
        sz[p] <= size /\ Call(p, "grow", "page", Nil, space[p], PGROUNDUP(sz[p]), size, Nil)
  BY GrowIs
<1>3. job[p].op = "none"
  BY <1>1, NoJobIs DEF LocalOk, ProcOk
<1>4. BuildOk(p)'
  <2>1. PGROUNDUP(sz[p]) <= PGROUNDUP(size) /\ PGROUNDUP(sz[p]) \in Nat
    BY <1>2, JobIs, PagesMono, PagesFit
  <2>2. Covers(Mapped(space[p]), 0..(PGROUNDUP(sz[p]) - 1))
    BY <1>1, <1>3 DEF LocalOk, SizeOk, Sized
  <2> QED
    BY <1>1, <1>2, <2>1, <2>2 DEF BuildOk, Target, Call, SlotSame, Slot
<1>5. LocalOk(p)'
  <2>1. Distinct(job'[p].new) /\ job'[p].mem = Nil /\ job'[p].pc = "page" /\ job'[p].op = "grow"
    BY <1>1, <1>2 DEF Call, LocalOk
  <2> QED
    BY <1>1, <1>3, <1>4, <2>1, LocalMoves
<1> QED
  BY <1>1, <1>5, ProcBut

\* growproc keeps the pages of the new size.
LEMMA ShrinkLocal == ASSUME IInv, NEW p \in Procs, NEW n \in ShrinkSizes, shrink(p, n) PROVE ProcInv'
<1> USE DEF IInv
<1>1. state[p] = "alive" /\ job[p].pc = "idle" /\ LocalOk(p) /\ Only({p}) /\ job'[p] = job[p] /\ n \in 0..(sz[p] - 1)
      /\ IF n = 0 THEN Slot(p, state[p], kstack[p], sz[p], Dealloc(space[p], n), cr3[p])
                  ELSE Slot(p, state[p], kstack[p], n, Dealloc(space[p], n), space[p].pgdir)
  BY ShrinkIs DEF Idle, ProcInv
<1>2. /\ job'[p] = NoJob /\ kstack[p] # Nil /\ Distinct(space[p]) /\ cr3[p] = space[p].pgdir
      /\ Covers(Mapped(space[p]), Sized(sz[p]))
  BY <1>1, NoJobIs DEF LocalOk, ProcOk, SizeOk, Cr3Ok
<1>3. n \in 0..(KERNBASE - 1) /\ n <= sz[p] /\ n \in Nat /\ sz[p] \in Nat
  BY <1>1, JobIs, RoomForOne
<1>4. PICK m : m = Dealloc(space[p], n)
  OBVIOUS
<1>5. Distinct(m) /\ Mapped(m) = Mapped(space[p]) \cap Sized(n) /\ m.pgdir = space[p].pgdir
  BY <1>2, <1>3, <1>4, JobIs, DeallocIs
<1>6. Sized(n) \subseteq Sized(sz[p])
  <2>1. PGROUNDUP(n) <= PGROUNDUP(sz[p]) /\ PGROUNDUP(n) \in Nat /\ PGROUNDUP(sz[p]) \in Nat
    BY <1>3, PagesMono, PagesFit, JobIs
  <2> QED
    BY <2>1 DEF Sized
<1>7. LocalOk(p)'
  <2>1. CASE n = 0
    <3>1. Covers(Mapped(m), Sized(sz[p]))
      <4>1. 0 \notin Sized(n) /\ 0 \in ShrinkSizes
        BY <2>1, PagesOfOne
      <4> QED
        BY <1>2, <1>5, <4>1 DEF Covers
    <3> QED
      BY <1>1, <1>2, <1>4, <1>5, <2>1, <3>1, LocalIdle DEF Slot
  <2>2. CASE n # 0
    <3>1. Covers(Mapped(m), Sized(n))
      BY <1>2, <1>5, <1>6 DEF Covers
    <3> QED
      BY <1>1, <1>2, <1>4, <1>5, <2>2, <3>1, LocalIdle DEF Slot
  <2> QED
    BY <2>1, <2>2
<1> QED
  BY <1>1, <1>7, ProcBut

\* The new page table has its directory.
LEMMA SetupkvmLocal == ASSUME IInv, NEW p \in Procs, setupkvm(p) PROVE ProcInv'
<1> USE DEF IInv
<1>1. state[p] = "alive" /\ job[p].pc = "setupkvm" /\ LocalOk(p) /\ Only({p}) /\ SlotSame(p)
  BY SetupkvmIs DEF AtPc, ProcInv
<1>2. job[p].op \notin {"none", "grow"} /\ job[p].mem = Nil /\ job[p].new = NoSpace /\ job[p].at = 0
  BY <1>1 DEF LocalOk, BuildOk, ProcOk
<1>3. CASE GoesOn(p, "bad")
  <2>1. BuildOk(p)'
    BY <1>1, <1>2, <1>3 DEF LocalOk, BuildOk, Target, Call, GoesOn, SlotSame, Slot
  <2>2. job'[p].pc = "bad" /\ job'[p].op = job[p].op /\ job'[p].mem = Nil /\ Distinct(job'[p].new)
    BY <1>2, <1>3, NoSpaceIs DEF Call, GoesOn
  <2>3. LocalOk(p)'
    BY <1>1, <1>2, <2>1, <2>2, LocalMoves
  <2> QED
    BY <1>1, <2>3, ProcBut
<1>4. CASE /\ free # {} /\ Call(p, job[p].op, "kmap", job[p].child, [job[p].new EXCEPT !.pgdir = kalloc(1)], job[p].at,
                                job[p].size, job[p].mem)
  <2>1. PICK m : m = [NoSpace EXCEPT !.pgdir = kalloc(1)]
    OBVIOUS
  <2>2. kalloc(1) \in Pages
    BY <1>4, KallocOne DEF TypeOK
  <2>3. Distinct(m) /\ m.pgdir = kalloc(1)
    BY <2>1, <2>2, NoSpaceIs, AddDir
  <2>4. Call(p, job[p].op, "kmap", job[p].child, m, 0, job[p].size, Nil)
    BY <1>2, <1>4, <2>1
  <2>5. BuildOk(p)'
    BY <1>1, <1>2, <2>1, <2>3, <2>4 DEF LocalOk, BuildOk, Target, Call, SlotSame, Slot
  <2>6. job'[p].pc = "kmap" /\ job'[p].op = job[p].op /\ job'[p].mem = Nil /\ Distinct(job'[p].new)
    BY <2>3, <2>4 DEF Call
  <2>7. LocalOk(p)'
    BY <1>1, <1>2, <2>5, <2>6, LocalMoves
  <2> QED
    BY <1>1, <2>7, ProcBut
<1> QED
  BY <1>3, <1>4, SetupkvmIs

\* ... and the kernel's table.
LEMMA KmapLocal == ASSUME IInv, NEW p \in Procs, kmap(p) PROVE ProcInv'
<1> USE DEF IInv
<1>1. state[p] = "alive" /\ job[p].pc = "kmap" /\ LocalOk(p) /\ Only({p}) /\ SlotSame(p)
  BY KmapIs DEF AtPc, ProcInv
<1>2. /\ job[p].op \notin {"none", "grow"} /\ job[p].mem = Nil /\ job[p].at = 0
      /\ job[p].new = [NoSpace EXCEPT !.pgdir = job[p].new.pgdir] /\ Distinct(job[p].new)
  BY <1>1 DEF LocalOk, BuildOk, ProcOk
<1>3. CASE GoesOn(p, "bad")
  <2>1. BuildOk(p)'
    BY <1>1, <1>2, <1>3 DEF LocalOk, BuildOk, Target, Call, GoesOn, SlotSame, Slot
  <2>2. job'[p].pc = "bad" /\ job'[p].op = job[p].op /\ job'[p].mem = Nil /\ Distinct(job'[p].new)
    BY <1>2, <1>3 DEF Call, GoesOn
  <2>3. LocalOk(p)'
    BY <1>1, <1>2, <2>1, <2>2, LocalMoves
  <2> QED
    BY <1>1, <2>3, ProcBut
<1>4. CASE /\ free # {} /\ Call(p, job[p].op, "page", job[p].child, [job[p].new EXCEPT !.tabs[KTable] = kalloc(1)],
                                job[p].at, job[p].size, job[p].mem)
  <2>1. PICK m : m = WithTab(job[p].new, KTable, kalloc(1))
    OBVIOUS
  <2>2. kalloc(1) \in Pages \ PagesOf(job[p].new)
    BY <1>4, KallocOne, NewApart DEF TypeOK
  <2>3. job[p].new.tabs[KTable] = Nil /\ Mapped(job[p].new) = {}
    <3>1. job[p].new.tabs = NoSpace.tabs /\ job[p].new.pg = NoSpace.pg
      BY <1>2 DEF NoSpace
    <3> QED
      BY <3>1, NoSpaceIs DEF Mapped
  <2>4. Distinct(m) /\ Covers(Mapped(m), 0..(0 - 1))
    <3>1. AddsTab(job[p].new, KTable, kalloc(1))
      BY <1>2, <2>2, <2>3, JobIs, AddTab DEF CanAdd
    <3> QED
      BY <2>1, <2>3, <3>1 DEF AddsTab, Covers
  <2>5. Call(p, job[p].op, "page", job[p].child, m, 0, job[p].size, Nil)
    BY <1>2, <1>4, <2>1 DEF WithTab
  <2>6. BuildOk(p)'
    BY <1>1, <1>2, <2>4, <2>5 DEF LocalOk, BuildOk, Target, Call, SlotSame, Slot
  <2>7. job'[p].pc = "page" /\ job'[p].op = job[p].op /\ job'[p].mem = Nil /\ Distinct(job'[p].new)
    BY <2>4, <2>5 DEF Call
  <2>8. LocalOk(p)'
    BY <1>1, <1>2, <2>6, <2>7, LocalMoves
  <2> QED
    BY <1>1, <2>8, ProcBut
<1> QED
  BY <1>3, <1>4, KmapIs

\* The next page of a call.
LEMMA UvmPageLocal == ASSUME IInv, NEW p \in Procs, uvm_page(p) PROVE ProcInv'
<1> USE DEF IInv
<1>1. state[p] = "alive" /\ job[p].pc = "page" /\ LocalOk(p) /\ Only({p}) /\ SlotSame(p) /\ job[p].at < Target(job[p])
  BY UvmPageIs DEF AtPc, ProcInv
<1>2. job[p].op # "none" /\ job[p].mem = Nil /\ Distinct(job[p].new)
  BY <1>1 DEF LocalOk, ProcOk
<1>3. CASE GoesOn(p, "bad") \/ GoesOn(p, "panic")
  <2>1. BuildOk(p)'
    BY <1>1, <1>2, <1>3 DEF LocalOk, BuildOk, Target, Call, GoesOn, SlotSame, Slot
  <2>2. job'[p].pc \in {"bad", "panic"} /\ job'[p].op = job[p].op /\ job'[p].mem = Nil /\ Distinct(job'[p].new)
    BY <1>2, <1>3 DEF Call, GoesOn
  <2>3. LocalOk(p)'
    BY <1>1, <1>2, <2>1, <2>2, LocalMoves
  <2> QED
    BY <1>1, <2>3, ProcBut
<1>4. CASE free # {} /\ Call(p, job[p].op, "map", job[p].child, job[p].new, job[p].at, job[p].size, kalloc(1))
  <2>1. kalloc(1) # Nil
    BY <1>4, KallocOne, NilNoPage DEF TypeOK
  <2>2. BuildOk(p)'
    BY <1>1, <1>2, <1>4 DEF LocalOk, BuildOk, Target, Call, SlotSame, Slot
  <2>3. job'[p].pc = "map" /\ job'[p].op = job[p].op /\ job'[p].mem # Nil /\ Distinct(job'[p].new)
    BY <1>2, <1>4, <2>1 DEF Call
  <2>4. LocalOk(p)'
    BY <1>1, <1>2, <2>2, <2>3, LocalMoves
  <2> QED
    BY <1>1, <2>4, ProcBut
<1> QED
  BY <1>3, <1>4, UvmPageIs

\* The page that is about to be mapped, and the table, if it needs one, have their places free.
LEMMA MapsPage ==
  ASSUME IInv, NEW p \in Procs, AtPc(p, "map")
  PROVE  /\ state[p] = "alive" /\ job[p].pc = "map" /\ LocalOk(p)
         /\ job[p].op # "none" /\ job[p].mem \in Pages /\ job[p].mem # Nil
         /\ Distinct(job[p].new) /\ job[p].new \in SpaceType
         /\ job[p].at \in PageNos /\ job[p].at \in Nat /\ job[p].at < Target(job[p]) /\ Target(job[p]) \in Nat
         /\ job[p].new.pg[job[p].at] = Nil /\ Covers(Mapped(job[p].new), 0..(job[p].at - 1))
<1> USE DEF IInv
<1>1. state[p] = "alive" /\ job[p].pc = "map" /\ LocalOk(p)
  BY DEF AtPc, ProcInv
<1>2. job[p].op # "none" /\ job[p].mem \in Pages /\ job[p].mem # Nil /\ Distinct(job[p].new) /\ job[p].new \in SpaceType
  BY <1>1, JobIs DEF LocalOk, ProcOk
<1>3. job[p].at < Target(job[p]) /\ Covers(Mapped(job[p].new), 0..(job[p].at - 1))
  BY <1>1 DEF LocalOk, BuildOk
<1>4. job[p].at \in Nat /\ Target(job[p]) \in 0..MaxPages
  BY JobIs, PagesFit, MemoryAssumption DEF Target
<1>5. job[p].at \in PageNos /\ Target(job[p]) \in Nat
  BY <1>3, <1>4, MemoryAssumption DEF PageNos
<1>6. job[p].at \notin Mapped(job[p].new)
  BY <1>3, <1>4 DEF Covers
<1>7. job[p].new.pg[job[p].at] = Nil
  BY <1>5, <1>6 DEF Mapped
<1> QED
  BY <1>1, <1>2, <1>3, <1>4, <1>5, <1>7

\* What mappages makes of the page table: s has the table, m the page too.
LEMMA MapsInto ==
  ASSUME IInv, NEW p \in Procs, AtPc(p, "map"), NEW s, NEW m, m = WithPage(s, job[p].at, job[p].mem),
         \/ s = job[p].new
         \/ /\ job[p].new.tabs[job[p].at \div PTPAGES] = Nil /\ free # {}
            /\ s = WithTab(job[p].new, job[p].at \div PTPAGES, kalloc(1))
  PROVE  /\ s \in SpaceType /\ m \in SpaceType /\ Distinct(m) /\ m.pgdir = s.pgdir /\ m.pgdir = job[p].new.pgdir
         /\ Covers(Mapped(m), 0..job[p].at)
         /\ PagesOf(m) = PagesOf(s) \cup {job[p].mem} /\ job[p].mem \notin PagesOf(s)
         /\ \/ PagesOf(s) = PagesOf(job[p].new) /\ s = job[p].new
            \/ PagesOf(s) = PagesOf(job[p].new) \cup {kalloc(1)} /\ kalloc(1) \in free
<1> DEFINE j == job[p]
           t == job[p].at \div PTPAGES
<1>1. /\ j.mem \in Pages /\ Distinct(j.new) /\ j.new \in SpaceType /\ j.at \in PageNos /\ j.at \in Nat
      /\ j.new.pg[j.at] = Nil /\ Covers(Mapped(j.new), 0..(j.at - 1))
  BY MapsPage
<1>2. PagesOf(j.new) \cap free = {} /\ j.mem \notin free /\ j.mem \notin PagesOf(j.new)
  BY NewApart
<1>3. /\ s \in SpaceType /\ Distinct(s) /\ s.pg = j.new.pg /\ s.pgdir = j.new.pgdir /\ Mapped(s) = Mapped(j.new)
      /\ j.mem \notin PagesOf(s)
      /\ \/ PagesOf(s) = PagesOf(j.new) /\ s = j.new
         \/ PagesOf(s) = PagesOf(j.new) \cup {kalloc(1)} /\ kalloc(1) \in free
  <2>1. CASE s = j.new
    BY <1>1, <1>2, <2>1
  <2>2. CASE j.new.tabs[t] = Nil /\ free # {} /\ s = WithTab(j.new, t, kalloc(1))
    <3>1. kalloc(1) \in free /\ kalloc(1) \in Pages \ PagesOf(j.new)
      BY <1>2, <2>2, KallocOne DEF IInv, TypeOK
    <3>2. t \in Tables \cup {KTable}
      BY <1>1, TableOf
    <3>3. PICK g, u, n : g = kalloc(1) /\ u = t /\ n = j.new
      OBVIOUS
    <3>4. n \in SpaceType /\ Distinct(n) /\ u \in Tables \cup {KTable} /\ n.tabs[u] = Nil /\ g \in Pages \ PagesOf(n)
          /\ s = WithTab(n, u, g)
      BY <1>1, <2>2, <3>1, <3>2, <3>3
    <3>5. /\ s \in SpaceType /\ s.pgdir = n.pgdir /\ s.pg = n.pg
          /\ PagesOf(s) = PagesOf(n) \cup {g} /\ Distinct(s) /\ Mapped(s) = Mapped(n)
      <4>1. AddsTab(n, u, g)
        BY <3>4, AddTab DEF CanAdd
      <4> QED
        BY <3>4, <4>1 DEF AddsTab
    <3> QED
      BY <1>2, <3>1, <3>3, <3>5
  <2> QED
    BY <2>1, <2>2
<1>4. PICK g, a : g = j.mem /\ a = j.at
  OBVIOUS
<1>5. g \in Pages \ PagesOf(s) /\ a \in PageNos /\ s.pg[a] = Nil /\ m = WithPage(s, a, g)
  BY <1>1, <1>3, <1>4
<1>6. m \in SpaceType /\ m.pgdir = s.pgdir /\ PagesOf(m) = PagesOf(s) \cup {g} /\ Distinct(m) /\ Mapped(m) = Mapped(s) \cup {a}
  <2>1. AddsPage(s, a, g)
    BY <1>3, <1>5, AddPage DEF CanAdd
  <2> QED
    BY <1>5, <2>1 DEF AddsPage
<1>7. Covers(Mapped(m), 0..j.at)
  <2>1. a \in Nat /\ Covers(Mapped(m), (0..(a - 1)) \cup {a})
    BY <1>1, <1>3, <1>4, <1>6 DEF Covers
  <2>2. (0..(a - 1)) \cup {a} = 0..a
    BY <2>1
  <2> QED
    BY <1>4, <2>1, <2>2
<1> QED
  BY <1>3, <1>4, <1>6, <1>7

\* The page is mapped; the pages of the call are those up to it.
LEMMA MappagesLocal == ASSUME IInv, NEW p \in Procs, mappages(p) PROVE ProcInv'
<1> USE DEF IInv
<1> DEFINE t == job[p].at \div PTPAGES
<1>1. AtPc(p, "map")
  BY ZenonT(60) DEF mappages
<1>2. /\ state[p] = "alive" /\ job[p].pc = "map" /\ LocalOk(p) /\ job[p].op # "none" /\ job[p].mem # Nil
      /\ Distinct(job[p].new) /\ job[p].at \in PageNos /\ job[p].at \in Nat
      /\ job[p].at < Target(job[p]) /\ Target(job[p]) \in Nat
  BY <1>1, MapsPage
<1>3. PICK s, m :
        /\ m = WithPage(s, job[p].at, job[p].mem) /\ Only({p})
        /\ \/ s = job[p].new
           \/ job[p].new.tabs[t] = Nil /\ free # {} /\ s = WithTab(job[p].new, t, kalloc(1))
        /\ \/ s = job[p].new /\ SlotSame(p) /\ GoesOn(p, "kfree")
           \/ /\ Call(p, job[p].op, "page", job[p].child, m, job[p].at + 1, job[p].size, Nil)
              /\ Slot(p, state[p], kstack[p], sz[p], IF job[p].op = "grow" THEN m ELSE space[p], cr3[p])
  BY <1>2, MappagesIs DEF WithTab, WithPage
<1>4. CASE SlotSame(p) /\ GoesOn(p, "kfree")
  <2>1. BuildOk(p)'
    BY <1>2, <1>4 DEF LocalOk, BuildOk, Target, Call, GoesOn, SlotSame, Slot
  <2>2. job'[p].pc = "kfree" /\ job'[p].op = job[p].op /\ job'[p].mem # Nil /\ Distinct(job'[p].new)
    BY <1>2, <1>4 DEF Call, GoesOn
  <2>3. LocalOk(p)'
    BY SMTT(60), <1>2, <1>4, <2>1, <2>2, LocalMoves
  <2> QED
    BY <1>3, <2>3, ProcBut
<1>5. CASE /\ Call(p, job[p].op, "page", job[p].child, m, job[p].at + 1, job[p].size, Nil)
           /\ Slot(p, state[p], kstack[p], sz[p], IF job[p].op = "grow" THEN m ELSE space[p], cr3[p])
  <2>1. Distinct(m) /\ Covers(Mapped(m), 0..job[p].at) /\ m.pgdir = job[p].new.pgdir
    BY <1>1, <1>3, MapsInto
  <2>2. job[p].op = "grow" => job[p].new = space[p] /\ PGROUNDUP(sz[p]) <= job[p].at
    BY <1>2 DEF LocalOk, BuildOk
  <2>3. PGROUNDUP(sz[p]) \in Nat
    BY JobIs, PagesFit
  <2>4. Target(job[p])' = Target(job[p])
    BY <1>5 DEF Target, Call
  <2>5. BuildOk(p)'
    <3>1. job'[p].at - 1 = job[p].at /\ job'[p].at <= Target(job[p])
      BY <1>2, <1>5 DEF Call
    <3>2. job[p].op = "fork" => job[p].size = sz[p]
      BY <1>2 DEF LocalOk, BuildOk
    <3>3. job'[p].op = "grow" => job'[p].new = space'[p] /\ PGROUNDUP(sz'[p]) <= job'[p].at
      BY <1>2, <1>5, <2>2, <2>3 DEF Call, Slot
    <3> QED
      BY <1>5, <2>1, <2>4, <3>1, <3>2, <3>3 DEF BuildOk, Call, Slot
  <2>6. SizeOk(p)' /\ Cr3Ok(p)'
    BY <1>2, <1>5, <2>1, <2>2 DEF LocalOk, SizeOk, Cr3Ok, Call, Slot
  <2>7. /\ state'[p] = "alive" /\ kstack'[p] = kstack[p] /\ Distinct(space'[p]) /\ Distinct(job'[p].new)
        /\ job'[p].op = job[p].op /\ job'[p].pc = "page" /\ job'[p].mem = Nil
    BY <1>2, <1>5, <2>1 DEF Call, Slot, LocalOk
  <2>8. LocalOk(p)'
    BY <1>2, <2>5, <2>6, <2>7, LocalCall
  <2> QED
    BY <1>3, <2>8, ProcBut
<1> QED
  BY SMTT(60), <1>3, <1>4, <1>5

\* The page is given up.
LEMMA UnmappedLocal == ASSUME IInv, NEW p \in Procs, unmapped(p) PROVE ProcInv'
<1> USE DEF IInv
<1>1. state[p] = "alive" /\ job[p].pc = "kfree" /\ LocalOk(p) /\ Only({p}) /\ SlotSame(p)
  BY UnmappedIs DEF AtPc, ProcInv
<1>2. job[p].op # "none" /\ Distinct(job[p].new)
  BY <1>1 DEF LocalOk, ProcOk
<1>3. Call(p, job[p].op, "bad", job[p].child, job[p].new, job[p].at, job[p].size, Nil)
  BY <1>1, UnmappedIs DEF GoesOn, LocalOk, ProcOk
<1>4. BuildOk(p)'
  BY <1>1, <1>2, <1>3 DEF LocalOk, BuildOk, Target, Call, SlotSame, Slot
<1>5. job'[p].pc = "bad" /\ job'[p].op = job[p].op /\ job'[p].mem = Nil /\ Distinct(job'[p].new)
  BY <1>2, <1>3 DEF Call
<1>6. LocalOk(p)'
  BY <1>1, <1>2, <1>4, <1>5, LocalMoves
<1> QED
  BY <1>1, <1>6, ProcBut

\* exec is given up.
LEMMA ExecErrorLocal == ASSUME IInv, NEW p \in Procs, exec_error(p) PROVE ProcInv'
<1> USE DEF IInv
<1>1. state[p] = "alive" /\ job[p].pc = "page" /\ LocalOk(p) /\ Only({p}) /\ SlotSame(p)
  BY ExecErrorIs DEF AtPc, ProcInv
<1>2. job[p].op # "none" /\ Distinct(job[p].new)
  BY <1>1 DEF LocalOk, ProcOk
<1>3. Call(p, job[p].op, "bad", job[p].child, job[p].new, job[p].at, job[p].size, Nil)
  BY <1>1, ExecErrorIs DEF GoesOn, LocalOk, ProcOk
<1>4. BuildOk(p)'
  BY <1>1, <1>2, <1>3 DEF LocalOk, BuildOk, Target, Call, SlotSame, Slot
<1>5. job'[p].pc = "bad" /\ job'[p].op = job[p].op /\ job'[p].mem = Nil /\ Distinct(job'[p].new)
  BY <1>2, <1>3 DEF Call
<1>6. LocalOk(p)'
  BY <1>1, <1>2, <1>4, <1>5, LocalMoves
<1> QED
  BY <1>1, <1>6, ProcBut

\* A fork or exec that failed has left the process as it was.
LEMMA BadNewLocal == ASSUME IInv, NEW p \in Procs, bad_new(p) PROVE ProcInv'
<1> USE DEF IInv
<1>1. state[p] = "alive" /\ job[p].pc = "bad" /\ LocalOk(p) /\ job[p].op # "grow" /\ job'[p] = NoJob
  BY BadNewIs DEF AtPc, ProcInv
<1>2. CASE job[p].op # "fork"
  <2>1. Only({p}) /\ SlotSame(p)
    BY <1>2, BadNewIs
  <2>2. LocalOk(p)'
    BY <1>1, <2>1, LocalEnds
  <2> QED
    BY <2>1, <2>2, ProcBut
<1>3. CASE job[p].op = "fork"
  <2>1. PICK q \in Procs \ {p} : q = job[p].child /\ job[q] = NoJob /\ space[q] = NoSpace
    BY <1>1, <1>3, ChildApart
  <2>2. SlotSame(p) /\ job'[q] = job[q] /\ Only({p, q}) /\ Slot(q, "unused", Nil, sz[q], space[q], cr3[q])
    BY <1>3, <2>1, BadNewIs
  <2>3. LocalOk(p)'
    BY <1>1, <2>2, LocalEnds
  <2>4. LocalOk(q)'
    BY <2>1, <2>2, LocalIdle, NoSpaceIs DEF Slot
  <2> QED
    BY <2>2, <2>3, <2>4, ProcBut
<1> QED
  BY <1>2, <1>3

\* allocuvm has undone all the pages above the old size, and no other.
LEMMA BadGrowLocal == ASSUME IInv, NEW p \in Procs, bad_grow(p) PROVE ProcInv'
<1> USE DEF IInv
<1>1. /\ state[p] = "alive" /\ job[p].pc = "bad" /\ LocalOk(p) /\ job[p].op = "grow" /\ job'[p] = NoJob /\ Only({p})
      /\ Slot(p, state[p], kstack[p], sz[p], Dealloc(space[p], sz[p]), cr3[p])
  BY BadGrowIs DEF AtPc, ProcInv
<1>2. /\ Covers(Mapped(space[p]), 0..(job[p].at - 1)) /\ PGROUNDUP(sz[p]) <= job[p].at /\ Distinct(space[p])
      /\ cr3[p] = space[p].pgdir /\ kstack[p] # Nil
  BY <1>1 DEF LocalOk, BuildOk, Cr3Ok, ProcOk
<1>3. PICK m, n : m = Dealloc(space[p], n) /\ n = sz[p]
  OBVIOUS
<1>4. n \in 0..(KERNBASE - 1) /\ job[p].at \in Nat /\ PGROUNDUP(n) \in Nat
  BY <1>3, JobIs, PagesFit, MemoryAssumption
<1>5. Distinct(m) /\ Mapped(m) = Mapped(space[p]) \cap Sized(n) /\ m.pgdir = space[p].pgdir
  BY <1>2, <1>3, <1>4, JobIs, DeallocIs
<1>6. Covers(Mapped(m), Sized(n))
  <2>1. PGROUNDUP(n) <= job[p].at
    BY <1>2, <1>3
  <2>2. (0..(job[p].at - 1)) \cap (0..(PGROUNDUP(n) - 1)) = 0..(PGROUNDUP(n) - 1)
    BY <1>4, <2>1
  <2> QED
    BY <1>2, <1>5, <2>2 DEF Sized, Covers
<1>7. LocalOk(p)'
  BY <1>1, <1>2, <1>3, <1>5, <1>6, LocalIdle DEF Slot
<1> QED
  BY <1>1, <1>7, ProcBut

\* The child has the pages of its parent's size.
LEMMA ForkDoneLocal == ASSUME IInv, NEW p \in Procs, fork_done(p) PROVE ProcInv'
<1> USE DEF IInv
<1>1. Built(p) /\ LocalOk(p) /\ job[p].op = "fork" /\ job'[p] = NoJob
  BY ForkDoneIs DEF ProcInv
<1>2. Covers(Mapped(job[p].new), Sized(job[p].size)) /\ state[p] = "alive" /\ job[p].pc = "page"
  BY <1>1, BuiltIs
<1>3. job[p].size = sz[p] /\ Distinct(job[p].new)
  BY <1>1 DEF LocalOk, BuildOk
<1>4. PICK q \in Procs \ {p} : q = job[p].child /\ job[q] = NoJob /\ kstack[q] # Nil
  BY <1>1, <1>2, ChildApart
<1>5. /\ SlotSame(p) /\ job'[q] = job[q] /\ Only({p, q})
      /\ Slot(q, "alive", kstack[q], sz[p], job[p].new, job[p].new.pgdir)
  BY <1>4, ForkDoneIs
<1>6. LocalOk(p)'
  BY <1>1, <1>2, <1>5, LocalEnds
<1>7. LocalOk(q)'
  BY <1>2, <1>3, <1>4, <1>5, LocalIdle DEF Slot
<1> QED
  BY <1>5, <1>6, <1>7, ProcBut

\* The process has the pages of its new size.
LEMMA GrowDoneLocal == ASSUME IInv, NEW p \in Procs, grow_done(p) PROVE ProcInv'
<1> USE DEF IInv
<1>1. /\ Built(p) /\ LocalOk(p) /\ job[p].op = "grow" /\ job'[p] = NoJob /\ Only({p})
      /\ Slot(p, state[p], kstack[p], job[p].size, space[p], space[p].pgdir)
  BY GrowDoneIs DEF ProcInv
<1>2. Covers(Mapped(job[p].new), Sized(job[p].size)) /\ state[p] = "alive" /\ job[p].pc = "page"
  BY <1>1, BuiltIs
<1>3. job[p].new = space[p] /\ Distinct(space[p]) /\ kstack[p] # Nil
  BY <1>1, <1>2 DEF LocalOk, BuildOk, ProcOk
<1>4. LocalOk(p)'
  BY <1>1, <1>2, <1>3, LocalIdle DEF Slot
<1> QED
  BY <1>1, <1>4, ProcBut

\* exec has the pages of its new size, and the CPU still the old page table.
LEMMA ExecCommitLocal == ASSUME IInv, NEW p \in Procs, exec_commit(p) PROVE ProcInv'
<1> USE DEF IInv
<1>1. /\ Built(p) /\ LocalOk(p) /\ job[p].op = "exec" /\ Only({p})
      /\ Slot(p, state[p], kstack[p], job[p].size, job[p].new, cr3[p])
      /\ Call(p, job[p].op, "switchuvm", job[p].child, space[p], job[p].at, job[p].size, job[p].mem)
  BY ExecCommitIs DEF ProcInv
<1>2. Covers(Mapped(job[p].new), Sized(job[p].size)) /\ state[p] = "alive" /\ job[p].pc = "page"
  BY <1>1, BuiltIs
<1>3. Distinct(space[p]) /\ Distinct(job[p].new) /\ cr3[p] = space[p].pgdir /\ job[p].mem = Nil
  BY <1>1, <1>2 DEF LocalOk, ProcOk, Cr3Ok
<1>4. BuildOk(p)'
  BY <1>1, <1>2 DEF LocalOk, BuildOk, Target, Call, Slot
<1>5. SizeOk(p)' /\ Cr3Ok(p)'
  BY <1>1, <1>2, <1>3 DEF SizeOk, Cr3Ok, Call, Slot
<1>6. /\ state'[p] = "alive" /\ kstack'[p] = kstack[p] /\ Distinct(space'[p]) /\ Distinct(job'[p].new)
      /\ job'[p].op = "exec" /\ job'[p].pc = "switchuvm" /\ job'[p].mem = Nil
  BY <1>1, <1>2, <1>3 DEF Call, Slot
<1>7. LocalOk(p)'
  BY <1>1, <1>2, <1>4, <1>5, <1>6, LocalCall
<1> QED
  BY <1>1, <1>7, ProcBut

\* cr3 is out of date only between exec's change of the page table and its switchuvm.
LEMMA SwitchesInExec ==
  ASSUME IInv, NEW p \in Procs, switchuvm(p)
  PROVE  /\ state[p] = "alive" /\ job[p].pc = "switchuvm" /\ job[p].op = "exec" /\ Only({p}) /\ UNCHANGED <<free, cpus>>
         /\ Slot(p, state[p], kstack[p], sz[p], space[p], space[p].pgdir) /\ GoesOn(p, "freevm")
<1>1. /\ state[p] = "alive" /\ UNCHANGED <<free, cpus>> /\ Only({p})
      /\ cr3[p] # space[p].pgdir \/ job[p].pc = "switchuvm"
      /\ Slot(p, state[p], kstack[p], sz[p], space[p], space[p].pgdir)
      /\ GoesOn(p, IF job[p].pc = "switchuvm" THEN "freevm" ELSE job[p].pc)
  BY SwitchuvmIs DEF IInv
<1>2. job[p].pc = "switchuvm" /\ job[p].op = "exec"
  BY <1>1 DEF IInv, ProcInv, LocalOk, Cr3Ok, BuildOk
<1> QED
  BY <1>1, <1>2

\* After it the CPU uses the new one.
LEMMA SwitchuvmLocal == ASSUME IInv, NEW p \in Procs, switchuvm(p) PROVE ProcInv'
<1> USE DEF IInv
<1>1. /\ state[p] = "alive" /\ job[p].pc = "switchuvm" /\ job[p].op = "exec" /\ Only({p}) /\ LocalOk(p)
      /\ Slot(p, state[p], kstack[p], sz[p], space[p], space[p].pgdir) /\ GoesOn(p, "freevm")
  BY SwitchesInExec DEF ProcInv
<1>2. BuildOk(p)'
  BY <1>1 DEF LocalOk, BuildOk, Target, GoesOn, Call, Slot
<1>3. SizeOk(p)' /\ Cr3Ok(p)'
  BY <1>1 DEF LocalOk, SizeOk, Cr3Ok, GoesOn, Call, Slot
<1>4. /\ state'[p] = "alive" /\ kstack'[p] = kstack[p] /\ Distinct(space'[p]) /\ Distinct(job'[p].new)
      /\ job'[p].op = "exec" /\ job'[p].pc = "freevm" /\ job'[p].mem = Nil
  BY <1>1 DEF LocalOk, ProcOk, GoesOn, Call, Slot
<1>5. LocalOk(p)'
  BY <1>1, <1>2, <1>3, <1>4, LocalCall
<1> QED
  BY <1>1, <1>5, ProcBut

\* The end of exec.
LEMMA ExecFreevmLocal == ASSUME IInv, NEW p \in Procs, exec_freevm(p) PROVE ProcInv'
<1> USE DEF IInv
<1>1. /\ state[p] = "alive" /\ job[p].pc = "freevm" /\ LocalOk(p) /\ job'[p] = NoJob /\ Only({p}) /\ SlotSame(p)
  BY ExecFreevmIs DEF AtPc, ProcInv
<1>2. job[p].op = "exec"
  BY <1>1 DEF LocalOk, BuildOk
<1>3. LocalOk(p)'
  BY <1>1, <1>2, LocalEnds
<1> QED
  BY <1>1, <1>3, ProcBut

\* A zombie keeps its memory for wait.
LEMMA ExitLocal == ASSUME IInv, NEW p \in Procs, exit(p) PROVE ProcInv'
<1> USE DEF IInv
<1>1. /\ state[p] = "alive" /\ job[p].pc = "idle" /\ LocalOk(p) /\ job'[p] = job[p] /\ Only({p})
      /\ Slot(p, "zombie", kstack[p], sz[p], space[p], kvm.pgdir)
  BY ExitIs DEF Idle, ProcInv
<1>2. job'[p] = NoJob /\ kstack'[p] # Nil /\ Distinct(space'[p]) /\ state'[p] = "zombie"
  BY <1>1 DEF LocalOk, ProcOk, Slot
<1>3. LocalOk(p)'
  BY <1>2, LocalIdle
<1> QED
  BY <1>1, <1>3, ProcBut

\* The slot is empty.
LEMMA WaitLocal == ASSUME IInv, NEW p \in Procs, NEW q \in Procs, wait(p, q) PROVE ProcInv'
<1> USE DEF IInv
<1>1. /\ state[q] = "zombie" /\ LocalOk(q) /\ job'[q] = job[q] /\ Only({q}) /\ Slot(q, "unused", Nil, 0, NoSpace, Nil)
  BY WaitIs DEF ProcInv
<1>2. job'[q] = NoJob /\ kstack'[q] = Nil /\ space'[q] = NoSpace /\ state'[q] = "unused"
  BY <1>1 DEF LocalOk, ProcOk, Slot
<1>3. LocalOk(q)'
  BY <1>2, LocalIdle, NoSpaceIs
<1> QED
  BY <1>1, <1>3, ProcBut

\* The page table that userinit makes.
LEMMA InitSpace ==
  ASSUME IInv, Cardinality(free) >= 5, NEW s,
         s = [NoSpace EXCEPT !.pgdir = kalloc(2), !.tabs[KTable] = kalloc(3), !.tabs[0] = kalloc(5), !.pg[0] = kalloc(4)]
  PROVE  /\ s \in SpaceType /\ Distinct(s) /\ Mapped(s) = {0} /\ PagesOf(s) \subseteq free
         /\ kalloc(1) \in free /\ kalloc(1) \notin PagesOf(s)
<1>1. PICK a, b, c, d, e : a = kalloc(1) /\ b = kalloc(2) /\ c = kalloc(3) /\ d = kalloc(4) /\ e = kalloc(5)
  OBVIOUS
<1>2. {a, b, c, d, e} \subseteq free /\ a \notin {b, c, d, e} /\ b \notin {c, d, e} /\ c \notin {d, e} /\ d # e
  BY <1>1, KallocFive DEF IInv
<1>3. {a, b, c, d, e} \subseteq Pages
  BY <1>2 DEF IInv, TypeOK
<1>4. PICK s1 : s1 = [NoSpace EXCEPT !.pgdir = b]
  OBVIOUS
<1>5. /\ s1 \in SpaceType /\ PagesOf(s1) = {b} /\ Distinct(s1) /\ Mapped(s1) = {}
      /\ s1.pgdir = b /\ s1.tabs = NoSpace.tabs /\ s1.pg = NoSpace.pg
  <2>1. b \in Pages \ PagesOf(NoSpace)
    BY <1>3, NoSpaceIs
  <2> QED
    BY <1>4, <2>1, NoSpaceIs, AddDir
<1>6. PICK s2 : s2 = WithTab(s1, KTable, c)
  OBVIOUS
<1>7. /\ s2 \in SpaceType /\ PagesOf(s2) = {b, c} /\ Distinct(s2) /\ Mapped(s2) = {}
      /\ s2.pgdir = b /\ s2.tabs = [NoSpace.tabs EXCEPT ![KTable] = c] /\ s2.pg = NoSpace.pg
  <2>1. c \in Pages \ PagesOf(s1) /\ s1.tabs[KTable] = Nil /\ KTable \in Tables \cup {KTable}
    BY <1>2, <1>3, <1>5, NoSpaceIs
  <2>3. AddsTab(s1, KTable, c)
    BY <1>5, <2>1, AddTab DEF CanAdd
  <2> QED
    BY <1>5, <1>6, <2>3 DEF AddsTab
<1>8. PICK s3 : s3 = WithTab(s2, 0, e)
  OBVIOUS
<1>9. /\ s3 \in SpaceType /\ PagesOf(s3) = {b, c, e} /\ Distinct(s3) /\ Mapped(s3) = {}
      /\ s3.pgdir = b /\ s3.tabs = [[NoSpace.tabs EXCEPT ![KTable] = c] EXCEPT ![0] = e] /\ s3.pg = NoSpace.pg
  <2>1. e \in Pages \ PagesOf(s2) /\ 0 \in Tables \cup {KTable} /\ 0 # KTable
    BY <1>2, <1>3, <1>7, TableOf DEF KTable
  <2>2. s2.tabs[0] = Nil
    BY <1>7, <2>1, NoSpaceIs
  <2>3. AddsTab(s2, 0, e)
    BY <1>7, <2>1, <2>2, AddTab DEF CanAdd
  <2> QED
    BY <1>7, <1>8, <2>3 DEF AddsTab
<1>10. PICK s4 : s4 = WithPage(s3, 0, d)
  OBVIOUS
<1>11. /\ s4 \in SpaceType /\ PagesOf(s4) = {b, c, d, e} /\ Distinct(s4) /\ Mapped(s4) = {0}
  <2>1. d \in Pages \ PagesOf(s3) /\ 0 \in PageNos
    BY <1>2, <1>3, <1>9, TableOf
  <2>2. s3.pg[0] = Nil
    BY <1>9, <2>1, NoSpaceIs
  <2>3. AddsPage(s3, 0, d)
    BY <1>9, <2>1, <2>2, AddPage DEF CanAdd
  <2> QED
    BY <1>9, <1>10, <2>3 DEF AddsPage
<1>12. s = s4
  BY <1>1, <1>4, <1>6, <1>8, <1>10 DEF WithTab, WithPage
<1> QED
  BY <1>1, <1>2, <1>11, <1>12

\* init has one page.
LEMMA UserinitLocal == ASSUME IInv, userinit PROVE ProcInv'
<1> USE DEF IInv
<1>1. 1 \in Procs /\ boot.pc = "userinit" /\ Cardinality(free) >= 5 /\ Only({1}) /\ job'[1] = job[1]
  BY UserinitIs
<1>2. PICK s : /\ s = [NoSpace EXCEPT !.pgdir = kalloc(2), !.tabs[KTable] = kalloc(3), !.tabs[0] = kalloc(5),
                                      !.pg[0] = kalloc(4)]
               /\ Slot(1, "alive", kalloc(1), PGSIZE, s, s.pgdir)
  BY UserinitIs
<1>3. Distinct(s) /\ Covers(Mapped(s), Sized(PGSIZE)) /\ kalloc(1) \in free
  BY <1>1, <1>2, InitSpace, PagesOfOne DEF Covers
<1>4. kalloc(1) # Nil
  BY <1>3, NilNoPage DEF TypeOK
<1>5. job'[1] = NoJob
  <2>1. state[1] = "unused" /\ LocalOk(1)
    BY <1>1 DEF BootInv, ProcInv
  <2> QED
    BY <1>1, <2>1 DEF LocalOk, ProcOk
<1>6. LocalOk(1)'
  BY <1>1, <1>2, <1>3, <1>4, <1>5, LocalIdle DEF Slot
<1> QED
  BY <1>1, <1>6, ProcBut

-----------------------------------------------------------------------------
(***************************************************************************)
(* Types.                                                                  *)
(***************************************************************************)
\* No call is a call.
LEMMA NoJobTyped == NoJob \in JobType
BY NoSpaceIs, RoomForOne, MemoryAssumption DEF NoJob, JobType, Nil

\* The free list has pages, whatever is added to it.
LEMMA FreeTyped ==
  ASSUME IInv, NEW p \in Procs
  PROVE  /\ free \subseteq Pages /\ PagesOf(space[p]) \subseteq Pages /\ PagesOf(job[p].new) \subseteq Pages
         /\ job[p].pc = "kfree" => job[p].mem \in Pages
         /\ state[p] = "zombie" => kstack[p] \in Pages
         /\ state[p] = "alive" /\ job[p].op = "fork" /\ job[p].pc # "kstack" => kstack[job[p].child] \in Pages
<1> USE DEF IInv
<1>1. free \subseteq Pages /\ PagesOf(space[p]) \subseteq Pages /\ PagesOf(job[p].new) \subseteq Pages
  BY JobIs, InPagesOf DEF TypeOK
<1>2. job[p].pc = "kfree" => job[p].mem \in Pages
  BY JobIs DEF ProcInv, LocalOk, ProcOk
<1>3. state[p] = "zombie" => kstack[p] \in Pages
  BY JobIs DEF ProcInv, LocalOk, ProcOk
<1>4. state[p] = "alive" /\ job[p].op = "fork" /\ job[p].pc # "kstack" => kstack[job[p].child] \in Pages
  BY ChildApart, JobIs
<1> QED
  BY <1>1, <1>2, <1>3, <1>4

\* Those of the kernel stay.
LEMMA KernelTyped ==
  ASSUME TypeOK, UNCHANGED cpus
  PROVE  /\ useLock' \in BOOLEAN /\ boot' \in BootType /\ kvm' \in SpaceType /\ code4' \in Pages \cup {Nil}
         /\ aps' \in [APs -> ApType]
BY DEF TypeOK, cpus

\* fork.
LEMMA ForkTyped == ASSUME IInv, NEW p \in Procs, fork(p) PROVE TypeOK'
<1> USE DEF IInv
<1>1. free' \subseteq Pages
  BY DEF fork, TypeOK
<1>2. state' \in [Procs -> {"unused", "embryo", "alive", "zombie"}]
  BY DEF fork, TypeOK
<1>3. kstack' \in [Procs -> Pages \cup {Nil}]
  BY DEF fork, TypeOK
<1>4. sz' \in [Procs -> 0..(KERNBASE - 1)]
  BY DEF fork, TypeOK
<1>5. space' \in [Procs -> SpaceType]
  BY DEF fork, TypeOK
<1>6. cr3' \in [Procs -> Pages \cup {Nil}]
  BY DEF fork, TypeOK
<1>7. job' \in [Procs -> JobType]
  <2>1. PICK q \in Procs : job' = [job EXCEPT ![p] = [NoJob EXCEPT !.op = "fork", !.pc = "kstack", !.child = q, !.size = sz[p]]]
    BY DEF fork
  <2>2. [NoJob EXCEPT !.op = "fork", !.pc = "kstack", !.child = q, !.size = sz[p]] \in JobType
    BY NoJobTyped, JobIs DEF JobType
  <2> QED
    BY <2>1, <2>2 DEF TypeOK
<1>8. UNCHANGED cpus
  BY DEF fork
<1> QED
  BY <1>1, <1>2, <1>3, <1>4, <1>5, <1>6, <1>7, <1>8, KernelTyped DEF TypeOK

\* allocproc.
LEMMA AllocprocTyped == ASSUME IInv, NEW p \in Procs, allocproc(p) PROVE TypeOK'
<1> USE DEF IInv
<1>1. free' \subseteq Pages
  BY DEF allocproc, TypeOK
<1>2. state' \in [Procs -> {"unused", "embryo", "alive", "zombie"}]
  <2>1. CASE free = {}
    BY <2>1 DEF allocproc, TypeOK
  <2>2. CASE free # {}
    BY <2>2, KallocOne, JobIs DEF allocproc, TypeOK, JobType
  <2> QED
    BY <2>1, <2>2
<1>3. kstack' \in [Procs -> Pages \cup {Nil}]
  <2>1. CASE free = {}
    BY <2>1 DEF allocproc, TypeOK
  <2>2. CASE free # {}
    BY <2>2, KallocOne, JobIs DEF allocproc, TypeOK, JobType
  <2> QED
    BY <2>1, <2>2
<1>4. sz' \in [Procs -> 0..(KERNBASE - 1)]
  BY DEF allocproc, TypeOK
<1>5. space' \in [Procs -> SpaceType]
  BY DEF allocproc, TypeOK
<1>6. cr3' \in [Procs -> Pages \cup {Nil}]
  BY DEF allocproc, TypeOK
<1>7. job' \in [Procs -> JobType]
  <2>1. CASE free = {}
    BY <2>1, NoJobTyped DEF allocproc, TypeOK
  <2>2. CASE free # {}
    BY SMTT(60), <2>2, KallocOne, JobIs DEF allocproc, TypeOK, JobType
  <2> QED
    BY <2>1, <2>2
<1>8. UNCHANGED cpus
  BY DEF allocproc
<1> QED
  BY <1>1, <1>2, <1>3, <1>4, <1>5, <1>6, <1>7, <1>8, KernelTyped DEF TypeOK

\* exec.
LEMMA ExecTyped == ASSUME IInv, NEW p \in Procs, NEW n \in Sizes, exec(p, n) PROVE TypeOK'
<1> USE DEF IInv
<1>1. free' \subseteq Pages
  BY DEF exec, TypeOK
<1>2. state' \in [Procs -> {"unused", "embryo", "alive", "zombie"}]
  BY DEF exec, TypeOK
<1>3. kstack' \in [Procs -> Pages \cup {Nil}]
  BY DEF exec, TypeOK
<1>4. sz' \in [Procs -> 0..(KERNBASE - 1)]
  BY DEF exec, TypeOK
<1>5. space' \in [Procs -> SpaceType]
  BY DEF exec, TypeOK
<1>6. cr3' \in [Procs -> Pages \cup {Nil}]
  BY DEF exec, TypeOK
<1>7. job' \in [Procs -> JobType]
  <2>1. job' = [job EXCEPT ![p] = [NoJob EXCEPT !.op = "exec", !.pc = "setupkvm", !.size = (PGROUNDUP(n) + StackPages) * PGSIZE]]
    BY DEF exec
  <2>2. PICK j : j = [NoJob EXCEPT !.op = "exec", !.pc = "setupkvm", !.size = (PGROUNDUP(n) + StackPages) * PGSIZE]
    OBVIOUS
  <2>3. job'[p] = j /\ job'[p].size \in 0..(KERNBASE - 1)
    BY ZenonT(60), <2>1, <2>2, ExecIs DEF TypeOK, Call
  <2>4. PICK size : size = (PGROUNDUP(n) + StackPages) * PGSIZE
    OBVIOUS
  <2>5. j = [NoJob EXCEPT !.op = "exec", !.pc = "setupkvm", !.size = size]
    BY <2>2, <2>4
  <2>6. j.size = size
    BY <2>5, NoJobTyped DEF JobType
  <2>7. j \in JobType
    BY <2>3, <2>5, <2>6, NoJobTyped DEF JobType
  <2> QED
    BY <2>1, <2>2, <2>7 DEF TypeOK
<1>8. UNCHANGED cpus
  BY DEF exec
<1> QED
  BY <1>1, <1>2, <1>3, <1>4, <1>5, <1>6, <1>7, <1>8, KernelTyped DEF TypeOK

\* growproc.
LEMMA GrowTyped == ASSUME IInv, NEW p \in Procs, NEW n \in Sizes, grow(p, n) PROVE TypeOK'
<1> USE DEF IInv
<1>1. free' \subseteq Pages
  BY DEF grow, TypeOK
<1>2. state' \in [Procs -> {"unused", "embryo", "alive", "zombie"}]
  BY DEF grow, TypeOK
<1>3. kstack' \in [Procs -> Pages \cup {Nil}]
  BY DEF grow, TypeOK
<1>4. sz' \in [Procs -> 0..(KERNBASE - 1)]
  BY DEF grow, TypeOK
<1>5. space' \in [Procs -> SpaceType]
  BY DEF grow, TypeOK
<1>6. cr3' \in [Procs -> Pages \cup {Nil}]
  BY DEF grow, TypeOK
<1>7. job' \in [Procs -> JobType]
  <2>1. PICK j : /\ j = [NoJob EXCEPT !.op = "grow", !.pc = "page", !.new = space[p], !.at = PGROUNDUP(sz[p]), !.size = sz[p] + n]
                 /\ job' = [job EXCEPT ![p] = j]
    BY DEF grow
  <2>2. sz[p] + n \in 0..(KERNBASE - 1)
    BY JobIs, RoomForOne DEF grow, Fits, Sizes
  <2>3. PGROUNDUP(sz[p]) \in 0..MaxPages
    BY JobIs, PagesFit
  <2>4. j \in JobType
    BY <2>1, <2>2, <2>3, NoJobTyped, JobIs DEF JobType
  <2> QED
    BY <2>1, <2>4 DEF TypeOK
<1>8. UNCHANGED cpus
  BY DEF grow
<1> QED
  BY <1>1, <1>2, <1>3, <1>4, <1>5, <1>6, <1>7, <1>8, KernelTyped DEF TypeOK

\* growproc, downwards.
LEMMA ShrinkTyped == ASSUME IInv, NEW p \in Procs, NEW n \in ShrinkSizes, shrink(p, n) PROVE TypeOK'
<1> USE DEF IInv
<1>1. free' \subseteq Pages
  BY FreeTyped DEF shrink
<1>2. state' \in [Procs -> {"unused", "embryo", "alive", "zombie"}]
  BY DEF shrink, TypeOK
<1>3. kstack' \in [Procs -> Pages \cup {Nil}]
  BY DEF shrink, TypeOK
<1>4. sz' \in [Procs -> 0..(KERNBASE - 1)]
  <2>1. n \in 0..(sz[p] - 1)
    BY ShrinkIs
  <2>2. n \in 0..(KERNBASE - 1)
    BY <2>1, JobIs, RoomForOne
  <2>3. sz' = sz \/ sz' = [sz EXCEPT ![p] = n]
    BY DEF shrink
  <2> QED
    BY <2>2, <2>3 DEF TypeOK
<1>5. space' \in [Procs -> SpaceType]
  <2>0. n \in 0..(sz[p] - 1)
    BY ShrinkIs
  <2>1. n \in 0..(KERNBASE - 1)
    BY <2>0, JobIs, RoomForOne
  <2>2. PICK m : m = Dealloc(space[p], n)
    OBVIOUS
  <2>3. m \in SpaceType
    BY <2>1, <2>2, JobIs, DeallocIs DEF ProcInv, LocalOk
  <2> QED
    BY <2>2, <2>3 DEF shrink, TypeOK
<1>6. cr3' \in [Procs -> Pages \cup {Nil}]
  BY JobIs DEF shrink, TypeOK, SpaceType
<1>7. job' \in [Procs -> JobType]
  BY DEF shrink, TypeOK
<1>8. UNCHANGED cpus
  BY DEF shrink
<1> QED
  BY <1>1, <1>2, <1>3, <1>4, <1>5, <1>6, <1>7, <1>8, KernelTyped DEF TypeOK

\* setupkvm.
LEMMA SetupkvmTyped == ASSUME IInv, NEW p \in Procs, setupkvm(p) PROVE TypeOK'
<1> USE DEF IInv
<1>1. free' \subseteq Pages
  BY DEF setupkvm, TypeOK
<1>2. state' \in [Procs -> {"unused", "embryo", "alive", "zombie"}]
  BY DEF setupkvm, TypeOK
<1>3. kstack' \in [Procs -> Pages \cup {Nil}]
  BY DEF setupkvm, TypeOK
<1>4. sz' \in [Procs -> 0..(KERNBASE - 1)]
  BY DEF setupkvm, TypeOK
<1>5. space' \in [Procs -> SpaceType]
  BY DEF setupkvm, TypeOK
<1>6. cr3' \in [Procs -> Pages \cup {Nil}]
  BY DEF setupkvm, TypeOK
<1>7. job' \in [Procs -> JobType]
  <2>1. CASE free = {}
    BY SMTT(60), <2>1, JobIs DEF setupkvm, TypeOK, JobType
  <2>2. CASE free # {}
    <3>1. kalloc(1) \in Pages
      BY <2>2, KallocOne DEF TypeOK
    <3>2. [job[p].new EXCEPT !.pgdir = kalloc(1)] \in SpaceType
      BY ZenonT(60), <3>1, JobIs DEF SpaceType
    <3> QED
      BY <2>2, <3>2, JobIs DEF setupkvm, TypeOK, JobType
  <2> QED
    BY <2>1, <2>2
<1>8. UNCHANGED cpus
  BY DEF setupkvm
<1> QED
  BY <1>1, <1>2, <1>3, <1>4, <1>5, <1>6, <1>7, <1>8, KernelTyped DEF TypeOK

\* kmap.
LEMMA KmapTyped == ASSUME IInv, NEW p \in Procs, kmap(p) PROVE TypeOK'
<1> USE DEF IInv
<1>1. free' \subseteq Pages
  BY DEF kmap, TypeOK
<1>2. state' \in [Procs -> {"unused", "embryo", "alive", "zombie"}]
  BY DEF kmap, TypeOK
<1>3. kstack' \in [Procs -> Pages \cup {Nil}]
  BY DEF kmap, TypeOK
<1>4. sz' \in [Procs -> 0..(KERNBASE - 1)]
  BY DEF kmap, TypeOK
<1>5. space' \in [Procs -> SpaceType]
  BY DEF kmap, TypeOK
<1>6. cr3' \in [Procs -> Pages \cup {Nil}]
  BY DEF kmap, TypeOK
<1>7. job' \in [Procs -> JobType]
  <2>1. CASE free = {}
    BY SMTT(60), <2>1, JobIs DEF kmap, TypeOK, JobType
  <2>2. CASE free # {}
    <3>1. kalloc(1) \in Pages
      BY <2>2, KallocOne DEF TypeOK
    <3>2. PICK m : m = [job[p].new EXCEPT !.tabs[KTable] = kalloc(1)]
      OBVIOUS
    <3>3. job[p].new.tabs \in [Tables \cup {KTable} -> Pages \cup {Nil}]
      BY JobIs DEF SpaceType
    <3>4. m = [job[p].new EXCEPT !.tabs = [job[p].new.tabs EXCEPT ![KTable] = kalloc(1)]]
      BY <3>2
    <3>5. [job[p].new.tabs EXCEPT ![KTable] = kalloc(1)] \in [Tables \cup {KTable} -> Pages \cup {Nil}]
      BY <3>1, <3>3
    <3>6. m \in SpaceType
      BY ZenonT(60), <3>4, <3>5, JobIs DEF SpaceType
    <3>7. job' = [job EXCEPT ![p] = [job[p] EXCEPT !.pc = "page", !.new = m]]
      BY <2>2, <3>2 DEF kmap
    <3>8. [job[p] EXCEPT !.pc = "page", !.new = m] \in JobType
      BY ZenonT(60), <3>6, JobIs DEF JobType
    <3> QED
      BY <3>7, <3>8 DEF TypeOK
  <2> QED
    BY <2>1, <2>2
<1>8. UNCHANGED cpus
  BY DEF kmap
<1> QED
  BY <1>1, <1>2, <1>3, <1>4, <1>5, <1>6, <1>7, <1>8, KernelTyped DEF TypeOK

\* A page.
LEMMA UvmPageTyped == ASSUME IInv, NEW p \in Procs, uvm_page(p) PROVE TypeOK'
<1> USE DEF IInv
<1>1. free' \subseteq Pages
  BY DEF uvm_page, TypeOK
<1>2. state' \in [Procs -> {"unused", "embryo", "alive", "zombie"}]
  BY DEF uvm_page, TypeOK
<1>3. kstack' \in [Procs -> Pages \cup {Nil}]
  BY DEF uvm_page, TypeOK
<1>4. sz' \in [Procs -> 0..(KERNBASE - 1)]
  BY DEF uvm_page, TypeOK
<1>5. space' \in [Procs -> SpaceType]
  BY DEF uvm_page, TypeOK
<1>6. cr3' \in [Procs -> Pages \cup {Nil}]
  BY DEF uvm_page, TypeOK
<1>7. job' \in [Procs -> JobType]
  <2>1. CASE free = {} \/ Missing(p)
    BY <2>1, JobIs DEF uvm_page, TypeOK, JobType
  <2>2. CASE ~(free = {} \/ Missing(p))
    <3>1. kalloc(1) \in Pages
      BY <2>2, KallocOne DEF TypeOK
    <3> QED
      BY SMTT(60), <2>2, <3>1, JobIs DEF uvm_page, TypeOK, JobType
  <2> QED
    BY <2>1, <2>2
<1>8. UNCHANGED cpus
  BY DEF uvm_page
<1> QED
  BY <1>1, <1>2, <1>3, <1>4, <1>5, <1>6, <1>7, <1>8, KernelTyped DEF TypeOK

\* mappages.
LEMMA MappagesTyped == ASSUME IInv, NEW p \in Procs, mappages(p) PROVE TypeOK'
<1> USE DEF IInv
<1> DEFINE t == job[p].at \div PTPAGES
           s == IF job[p].new.tabs[t] = Nil /\ free # {} THEN [job[p].new EXCEPT !.tabs[t] = kalloc(1)] ELSE job[p].new
           m == [s EXCEPT !.pg[job[p].at] = job[p].mem]
<1>1. AtPc(p, "map")
  BY ZenonT(60) DEF mappages
<1>2. job[p].at \in Nat /\ job[p].at < Target(job[p]) /\ Target(job[p]) \in 0..MaxPages
  BY <1>1, MapsPage, JobIs, PagesFit DEF Target
<1>3. s = job[p].new \/ (job[p].new.tabs[t] = Nil /\ free # {} /\ s = WithTab(job[p].new, t, kalloc(1)))
  BY DEF WithTab
<1>4. m = WithPage(s, job[p].at, job[p].mem)
  BY SMTT(60) DEF WithPage
<1>5. /\ free' \subseteq free /\ UNCHANGED <<cpus, state, kstack, sz, cr3>>
      /\ \/ job' = [job EXCEPT ![p].pc = "kfree"] /\ UNCHANGED space
         \/ /\ job' = [job EXCEPT ![p] = [job[p] EXCEPT !.pc = "page", !.new = m, !.at = @ + 1, !.mem = Nil]]
            /\ space' = IF job[p].op = "grow" THEN [space EXCEPT ![p] = m] ELSE space
  BY DEF mappages
<1> HIDE DEF s, m
<1>6. m \in SpaceType
  BY <1>1, <1>3, <1>4, MapsInto
<1>7. space' \in [Procs -> SpaceType]
  BY <1>5, <1>6 DEF TypeOK
<1>8. job' \in [Procs -> JobType]
  <2>1. CASE job' = [job EXCEPT ![p].pc = "kfree"]
    BY SMTT(60), <2>1, JobIs DEF TypeOK, JobType
  <2>2. CASE job' = [job EXCEPT ![p] = [job[p] EXCEPT !.pc = "page", !.new = m, !.at = @ + 1, !.mem = Nil]]
    <3>1. job[p].at + 1 \in 0..MaxPages
      BY <1>2, MemoryAssumption
    <3>2. [job[p] EXCEPT !.pc = "page", !.new = m, !.at = @ + 1, !.mem = Nil] \in JobType
      BY ZenonT(60), <1>6, <3>1, JobIs DEF JobType
    <3> QED
      BY <2>2, <3>2 DEF TypeOK
  <2> QED
    BY <1>5, <2>1, <2>2
<1> QED
  BY <1>5, <1>7, <1>8, KernelTyped DEF TypeOK

\* The page that is not mapped.
LEMMA UnmappedTyped == ASSUME IInv, NEW p \in Procs, unmapped(p) PROVE TypeOK'
<1> USE DEF IInv
<1>1. free' \subseteq Pages
  BY UnmappedIs, FreeTyped DEF AtPc
<1>2. state' \in [Procs -> {"unused", "embryo", "alive", "zombie"}]
  BY DEF unmapped, TypeOK
<1>3. kstack' \in [Procs -> Pages \cup {Nil}]
  BY DEF unmapped, TypeOK
<1>4. sz' \in [Procs -> 0..(KERNBASE - 1)]
  BY DEF unmapped, TypeOK
<1>5. space' \in [Procs -> SpaceType]
  BY DEF unmapped, TypeOK
<1>6. cr3' \in [Procs -> Pages \cup {Nil}]
  BY DEF unmapped, TypeOK
<1>7. job' \in [Procs -> JobType]
  <2>1. job' = [job EXCEPT ![p] = [job[p] EXCEPT !.pc = "bad", !.mem = Nil]]
    BY DEF unmapped
  <2>2. [job[p] EXCEPT !.pc = "bad", !.mem = Nil] \in JobType
    BY ZenonT(60), JobIs DEF JobType
  <2> QED
    BY <2>1, <2>2 DEF TypeOK
<1>8. UNCHANGED cpus
  BY DEF unmapped
<1> QED
  BY <1>1, <1>2, <1>3, <1>4, <1>5, <1>6, <1>7, <1>8, KernelTyped DEF TypeOK

\* exec fails.
LEMMA ExecErrorTyped == ASSUME IInv, NEW p \in Procs, exec_error(p) PROVE TypeOK'
<1> USE DEF IInv
<1>1. free' \subseteq Pages
  BY DEF exec_error, TypeOK
<1>2. state' \in [Procs -> {"unused", "embryo", "alive", "zombie"}]
  BY DEF exec_error, TypeOK
<1>3. kstack' \in [Procs -> Pages \cup {Nil}]
  BY DEF exec_error, TypeOK
<1>4. sz' \in [Procs -> 0..(KERNBASE - 1)]
  BY DEF exec_error, TypeOK
<1>5. space' \in [Procs -> SpaceType]
  BY DEF exec_error, TypeOK
<1>6. cr3' \in [Procs -> Pages \cup {Nil}]
  BY DEF exec_error, TypeOK
<1>7. job' \in [Procs -> JobType]
  BY JobIs DEF exec_error, TypeOK, JobType
<1>8. UNCHANGED cpus
  BY DEF exec_error
<1> QED
  BY <1>1, <1>2, <1>3, <1>4, <1>5, <1>6, <1>7, <1>8, KernelTyped DEF TypeOK

\* fork or exec fails.
LEMMA BadNewTyped == ASSUME IInv, NEW p \in Procs, bad_new(p) PROVE TypeOK'
<1> USE DEF IInv
<1>1. free' \subseteq Pages
  BY FreeTyped DEF bad_new, AtPc
<1>2. state' \in [Procs -> {"unused", "embryo", "alive", "zombie"}]
  BY DEF bad_new, TypeOK
<1>3. kstack' \in [Procs -> Pages \cup {Nil}]
  BY DEF bad_new, TypeOK
<1>4. sz' \in [Procs -> 0..(KERNBASE - 1)]
  BY DEF bad_new, TypeOK
<1>5. space' \in [Procs -> SpaceType]
  BY DEF bad_new, TypeOK
<1>6. cr3' \in [Procs -> Pages \cup {Nil}]
  BY DEF bad_new, TypeOK
<1>7. job' \in [Procs -> JobType]
  BY NoJobTyped DEF bad_new, TypeOK
<1>8. UNCHANGED cpus
  BY DEF bad_new
<1> QED
  BY <1>1, <1>2, <1>3, <1>4, <1>5, <1>6, <1>7, <1>8, KernelTyped DEF TypeOK

\* growproc fails.
LEMMA BadGrowTyped == ASSUME IInv, NEW p \in Procs, bad_grow(p) PROVE TypeOK'
<1> USE DEF IInv
<1>1. free' \subseteq Pages
  BY FreeTyped DEF bad_grow
<1>2. state' \in [Procs -> {"unused", "embryo", "alive", "zombie"}]
  BY DEF bad_grow, TypeOK
<1>3. kstack' \in [Procs -> Pages \cup {Nil}]
  BY DEF bad_grow, TypeOK
<1>4. sz' \in [Procs -> 0..(KERNBASE - 1)]
  BY DEF bad_grow, TypeOK
<1>5. space' \in [Procs -> SpaceType]
  <2>1. PICK m : m = Dealloc(space[p], sz[p])
    OBVIOUS
  <2>2. m \in SpaceType
    BY <2>1, JobIs, DeallocIs DEF ProcInv, LocalOk
  <2> QED
    BY <2>1, <2>2 DEF bad_grow, TypeOK
<1>6. cr3' \in [Procs -> Pages \cup {Nil}]
  BY DEF bad_grow, TypeOK
<1>7. job' \in [Procs -> JobType]
  BY NoJobTyped DEF bad_grow, TypeOK
<1>8. UNCHANGED cpus
  BY DEF bad_grow
<1> QED
  BY <1>1, <1>2, <1>3, <1>4, <1>5, <1>6, <1>7, <1>8, KernelTyped DEF TypeOK

\* fork returns.
LEMMA ForkDoneTyped == ASSUME IInv, NEW p \in Procs, fork_done(p) PROVE TypeOK'
<1> USE DEF IInv
<1>1. free' \subseteq Pages
  BY DEF fork_done, TypeOK
<1>2. state' \in [Procs -> {"unused", "embryo", "alive", "zombie"}]
  BY DEF fork_done, TypeOK
<1>3. kstack' \in [Procs -> Pages \cup {Nil}]
  BY DEF fork_done, TypeOK
<1>4. sz' \in [Procs -> 0..(KERNBASE - 1)]
  BY JobIs DEF fork_done, TypeOK
<1>5. space' \in [Procs -> SpaceType]
  BY JobIs DEF fork_done, TypeOK
<1>6. cr3' \in [Procs -> Pages \cup {Nil}]
  BY JobIs DEF fork_done, TypeOK, SpaceType
<1>7. job' \in [Procs -> JobType]
  BY NoJobTyped DEF fork_done, TypeOK
<1>8. UNCHANGED cpus
  BY DEF fork_done
<1> QED
  BY <1>1, <1>2, <1>3, <1>4, <1>5, <1>6, <1>7, <1>8, KernelTyped DEF TypeOK

\* growproc returns.
LEMMA GrowDoneTyped == ASSUME IInv, NEW p \in Procs, grow_done(p) PROVE TypeOK'
<1> USE DEF IInv
<1>1. free' \subseteq Pages
  BY DEF grow_done, TypeOK
<1>2. state' \in [Procs -> {"unused", "embryo", "alive", "zombie"}]
  BY DEF grow_done, TypeOK
<1>3. kstack' \in [Procs -> Pages \cup {Nil}]
  BY DEF grow_done, TypeOK
<1>4. sz' \in [Procs -> 0..(KERNBASE - 1)]
  BY JobIs DEF grow_done, TypeOK
<1>5. space' \in [Procs -> SpaceType]
  BY DEF grow_done, TypeOK
<1>6. cr3' \in [Procs -> Pages \cup {Nil}]
  BY JobIs DEF grow_done, TypeOK, SpaceType
<1>7. job' \in [Procs -> JobType]
  BY NoJobTyped DEF grow_done, TypeOK
<1>8. UNCHANGED cpus
  BY DEF grow_done
<1> QED
  BY <1>1, <1>2, <1>3, <1>4, <1>5, <1>6, <1>7, <1>8, KernelTyped DEF TypeOK

\* exec commits.
LEMMA ExecCommitTyped == ASSUME IInv, NEW p \in Procs, exec_commit(p) PROVE TypeOK'
<1> USE DEF IInv
<1>1. free' \subseteq Pages
  BY DEF exec_commit, TypeOK
<1>2. state' \in [Procs -> {"unused", "embryo", "alive", "zombie"}]
  BY DEF exec_commit, TypeOK
<1>3. kstack' \in [Procs -> Pages \cup {Nil}]
  BY DEF exec_commit, TypeOK
<1>4. sz' \in [Procs -> 0..(KERNBASE - 1)]
  BY JobIs DEF exec_commit, TypeOK
<1>5. space' \in [Procs -> SpaceType]
  BY JobIs DEF exec_commit, TypeOK
<1>6. cr3' \in [Procs -> Pages \cup {Nil}]
  BY DEF exec_commit, TypeOK
<1>7. job' \in [Procs -> JobType]
  <2>1. job' = [job EXCEPT ![p] = [job[p] EXCEPT !.new = space[p], !.pc = "switchuvm"]]
    BY DEF exec_commit, AfterCommit
  <2>2. [job[p] EXCEPT !.new = space[p], !.pc = "switchuvm"] \in JobType
    BY ZenonT(60), JobIs DEF JobType
  <2> QED
    BY <2>1, <2>2 DEF TypeOK
<1>8. UNCHANGED cpus
  BY DEF exec_commit
<1> QED
  BY <1>1, <1>2, <1>3, <1>4, <1>5, <1>6, <1>7, <1>8, KernelTyped DEF TypeOK

\* switchuvm.
LEMMA SwitchuvmTyped == ASSUME IInv, NEW p \in Procs, switchuvm(p) PROVE TypeOK'
<1> USE DEF IInv
<1>1. free' \subseteq Pages
  BY DEF switchuvm, TypeOK
<1>2. state' \in [Procs -> {"unused", "embryo", "alive", "zombie"}]
  BY DEF switchuvm, TypeOK
<1>3. kstack' \in [Procs -> Pages \cup {Nil}]
  BY DEF switchuvm, TypeOK
<1>4. sz' \in [Procs -> 0..(KERNBASE - 1)]
  BY DEF switchuvm, TypeOK
<1>5. space' \in [Procs -> SpaceType]
  BY DEF switchuvm, TypeOK
<1>6. cr3' \in [Procs -> Pages \cup {Nil}]
  BY JobIs DEF switchuvm, TypeOK, SpaceType
<1>7. job' \in [Procs -> JobType]
  BY SMTT(60), JobIs DEF switchuvm, TypeOK, JobType
<1>8. UNCHANGED cpus
  BY DEF switchuvm
<1> QED
  BY <1>1, <1>2, <1>3, <1>4, <1>5, <1>6, <1>7, <1>8, KernelTyped DEF TypeOK

\* freevm.
LEMMA ExecFreevmTyped == ASSUME IInv, NEW p \in Procs, exec_freevm(p) PROVE TypeOK'
<1> USE DEF IInv
<1>1. free' \subseteq Pages
  BY FreeTyped DEF exec_freevm
<1>2. state' \in [Procs -> {"unused", "embryo", "alive", "zombie"}]
  BY DEF exec_freevm, TypeOK
<1>3. kstack' \in [Procs -> Pages \cup {Nil}]
  BY DEF exec_freevm, TypeOK
<1>4. sz' \in [Procs -> 0..(KERNBASE - 1)]
  BY DEF exec_freevm, TypeOK
<1>5. space' \in [Procs -> SpaceType]
  BY DEF exec_freevm, TypeOK
<1>6. cr3' \in [Procs -> Pages \cup {Nil}]
  BY DEF exec_freevm, TypeOK
<1>7. job' \in [Procs -> JobType]
  BY NoJobTyped DEF exec_freevm, TypeOK
<1>8. UNCHANGED cpus
  BY DEF exec_freevm
<1> QED
  BY <1>1, <1>2, <1>3, <1>4, <1>5, <1>6, <1>7, <1>8, KernelTyped DEF TypeOK

\* exit.
LEMMA ExitTyped == ASSUME IInv, NEW p \in Procs, exit(p) PROVE TypeOK'
<1> USE DEF IInv
<1>1. free' \subseteq Pages
  BY DEF exit, TypeOK
<1>2. state' \in [Procs -> {"unused", "embryo", "alive", "zombie"}]
  BY DEF exit, TypeOK
<1>3. kstack' \in [Procs -> Pages \cup {Nil}]
  BY DEF exit, TypeOK
<1>4. sz' \in [Procs -> 0..(KERNBASE - 1)]
  BY DEF exit, TypeOK
<1>5. space' \in [Procs -> SpaceType]
  BY DEF exit, TypeOK
<1>6. cr3' \in [Procs -> Pages \cup {Nil}]
  BY DEF exit, TypeOK, SpaceType
<1>7. job' \in [Procs -> JobType]
  BY DEF exit, TypeOK
<1>8. UNCHANGED cpus
  BY DEF exit
<1> QED
  BY <1>1, <1>2, <1>3, <1>4, <1>5, <1>6, <1>7, <1>8, KernelTyped DEF TypeOK

\* wait.
LEMMA WaitTyped == ASSUME IInv, NEW p \in Procs, NEW q \in Procs, wait(p, q) PROVE TypeOK'
<1> USE DEF IInv
<1>1. free' \subseteq Pages
  BY FreeTyped DEF wait
<1>2. state' \in [Procs -> {"unused", "embryo", "alive", "zombie"}]
  BY DEF wait, TypeOK
<1>3. kstack' \in [Procs -> Pages \cup {Nil}]
  BY DEF wait, TypeOK
<1>4. sz' \in [Procs -> 0..(KERNBASE - 1)]
  BY RoomForOne DEF wait, TypeOK
<1>5. space' \in [Procs -> SpaceType]
  BY NoSpaceIs DEF wait, TypeOK
<1>6. cr3' \in [Procs -> Pages \cup {Nil}]
  BY DEF wait, TypeOK
<1>7. job' \in [Procs -> JobType]
  BY DEF wait, TypeOK
<1>8. UNCHANGED cpus
  BY DEF wait
<1> QED
  BY <1>1, <1>2, <1>3, <1>4, <1>5, <1>6, <1>7, <1>8, KernelTyped DEF TypeOK

-----------------------------------------------------------------------------
(***************************************************************************)
(* The start of the machine.                                               *)
(***************************************************************************)
ProcsSame == UNCHANGED <<state, kstack, sz, space, cr3, job>>

\* The types of the processes stay when the processes do.
LEMMA ProcsTyped ==
  ASSUME TypeOK, ProcsSame, free' \subseteq Pages, useLock' \in BOOLEAN, boot' \in BootType, kvm' \in SpaceType,
         code4' \in Pages \cup {Nil}, aps' \in [APs -> ApType]
  PROVE  TypeOK'
BY DEF TypeOK, ProcsSame

\* kpgdir has two pages.
LEMMA KvmSpace ==
  ASSUME TypeOK, Cardinality(free) >= 2, NEW s,
         s = [NoSpace EXCEPT !.pgdir = kalloc(1), !.tabs[KTable] = kalloc(2)]
  PROVE  s \in SpaceType /\ Distinct(s) /\ PagesOf(s) = {kalloc(1), kalloc(2)}
<1>1. PICK a, b : a = kalloc(1) /\ b = kalloc(2)
  OBVIOUS
<1>2. {a, b} \subseteq free /\ a # b /\ {a, b} \subseteq Pages
  BY <1>1, KallocTwo DEF TypeOK
<1>3. PICK s1 : s1 = [NoSpace EXCEPT !.pgdir = a]
  OBVIOUS
<1>4. /\ s1 \in SpaceType /\ PagesOf(s1) = {a} /\ Distinct(s1)
      /\ s1.tabs = NoSpace.tabs
  <2>1. a \in Pages \ PagesOf(NoSpace)
    BY <1>2, NoSpaceIs
  <2> QED
    BY <1>3, <2>1, NoSpaceIs, AddDir
<1>5. PICK s2 : s2 = WithTab(s1, KTable, b)
  OBVIOUS
<1>6. /\ s2 \in SpaceType /\ PagesOf(s2) = {a, b} /\ Distinct(s2)
  <2>1. b \in Pages \ PagesOf(s1) /\ s1.tabs[KTable] = Nil /\ KTable \in Tables \cup {KTable}
    BY <1>2, <1>4, NoSpaceIs
  <2>2. AddsTab(s1, KTable, b)
    BY <1>4, <2>1, AddTab DEF CanAdd
  <2> QED
    BY <1>4, <1>5, <2>2 DEF AddsTab
<1>7. s = s2
  BY <1>1, <1>3, <1>5 DEF WithTab
<1> QED
  BY <1>1, <1>6, <1>7

\* kvmalloc makes kpgdir, if there are two pages.
LEMMA KvmallocDoes == ASSUME IInv, kvmalloc PROVE TypeOK' /\ BootInv' /\ Distinct(kvm')
<1> USE DEF IInv
<1>1. /\ boot.pc = "kvmalloc" /\ free' \subseteq free /\ ProcsSame
      /\ UNCHANGED <<useLock, code4, aps>> /\ boot' = [boot EXCEPT !.pc = "startothers"]
  BY DEF kvmalloc, ProcsSame
<1>2. kvm' \in SpaceType /\ Distinct(kvm')
  <2>1. CASE Cardinality(free) >= 2
    BY <2>1, KvmSpace DEF kvmalloc
  <2>2. CASE ~(Cardinality(free) >= 2)
    BY <2>2 DEF kvmalloc, TypeOK
  <2> QED
    BY <2>1, <2>2
<1>3. boot' \in BootType
  BY <1>1 DEF TypeOK, BootType
<1>4. TypeOK'
  BY <1>1, <1>2, <1>3, ProcsTyped DEF TypeOK
<1>5. boot'.pc = "startothers" /\ boot'.ap = boot.ap
  BY <1>1 DEF TypeOK, BootType
<1>6. BootInv'
  BY <1>1, <1>3, <1>5 DEF BootInv, BootType, ProcsSame
<1> QED
  BY <1>2, <1>4, <1>6

\* startothers puts a stack, or a null pointer, at code-4 for the next CPU.
LEMMA StartothersDoes == ASSUME IInv, startothers PROVE TypeOK' /\ BootInv'
<1> USE DEF IInv
<1>1. /\ boot.pc = "startothers" /\ boot.ap \in APs /\ free' \subseteq free /\ ProcsSame
      /\ UNCHANGED <<useLock, kvm>> /\ boot' = [boot EXCEPT !.pc = "wait"]
      /\ code4' = IF free = {} THEN Nil ELSE kalloc(1)
      /\ aps' = [aps EXCEPT ![boot.ap].pc = "entry"]
  BY DEF startothers, ProcsSame
<1>2. code4' \in Pages \cup {Nil}
  BY <1>1, KallocOne DEF TypeOK
<1>3. boot' \in BootType /\ boot'.pc = "wait" /\ boot'.ap = boot.ap
  BY <1>1 DEF TypeOK, BootType
<1>4. aps' \in [APs -> ApType]
  <2>1. aps' = [aps EXCEPT ![boot.ap] = [aps[boot.ap] EXCEPT !.pc = "entry"]]
    BY <1>1
  <2>2. [aps[boot.ap] EXCEPT !.pc = "entry"] \in ApType
    BY <1>1 DEF TypeOK, ApType
  <2> QED
    BY <2>1, <2>2 DEF TypeOK
<1>5. TypeOK'
  BY <1>1, <1>2, <1>3, <1>4, ProcsTyped DEF TypeOK
<1>6. /\ aps'[boot.ap].pc = "entry" /\ aps'[boot.ap].stack = aps[boot.ap].stack
      /\ \A c \in APs \ {boot.ap} : aps'[c] = aps[c]
  BY <1>1 DEF TypeOK, ApType
<1>7. aps[boot.ap].pc = "off" /\ boot.ap \in Nat /\ APs \subseteq Nat
  BY <1>1, MemoryAssumption DEF BootInv, APs
<1>8. aps[boot.ap].stack = Nil
  BY <1>1, <1>7 DEF BootInv
<1>9. ASSUME NEW c \in APs
      PROVE  /\ aps'[c].pc \in {"off", "entry"} => aps'[c].stack = Nil
             /\ aps'[c].pc \in {"entry", "mpenter"} => c = boot.ap
             /\ c > boot.ap => aps'[c].pc = "off"
  <2>1. CASE c = boot.ap
    BY <1>6, <1>7, <1>8, <2>1
  <2>2. CASE c # boot.ap
    BY <1>1, <1>6, <1>7, <2>2 DEF BootInv
  <2> QED
    BY <2>1, <2>2
<1>10. BootInv'
  BY <1>1, <1>3, <1>6, <1>9 DEF BootInv, ProcsSame, BootType
<1> QED
  BY <1>5, <1>10

\* The CPU has started, and main goes on to the next, ...
LEMMA StartnextDoes == ASSUME IInv, startnext PROVE TypeOK' /\ BootInv'
<1> USE DEF IInv
<1>1. /\ boot.pc = "wait" /\ aps[boot.ap].pc = "sched" /\ ProcsSame /\ UNCHANGED <<free, useLock, kvm, code4, aps>>
      /\ boot' = [boot EXCEPT !.pc = "startothers", !.ap = @ + 1]
  BY DEF startnext, started, ProcsSame
<1>2. boot.ap \in APs /\ boot.ap \in Nat /\ APs \subseteq Nat
  BY <1>1, MemoryAssumption DEF BootInv, APs
<1>3. boot.ap + 1 \in 1..(NAPS + 1)
  BY <1>2, MemoryAssumption DEF APs
<1>4. boot' \in BootType /\ boot'.pc = "startothers" /\ boot'.ap = boot.ap + 1
  BY <1>1, <1>3 DEF TypeOK, BootType
<1>5. TypeOK'
  BY <1>1, <1>4, ProcsTyped DEF TypeOK
<1>6. code4 = Nil
  BY <1>1 DEF BootInv
<1>7. ASSUME NEW c \in APs
      PROVE  /\ aps'[c].pc \in {"off", "entry"} => aps'[c].stack = Nil
             /\ aps'[c].pc \notin {"entry", "mpenter"}
             /\ c >= boot'.ap => aps'[c].pc = "off"
  BY <1>1, <1>2, <1>4 DEF BootInv
<1>8. BootInv'
  BY <1>1, <1>3, <1>4, <1>6, <1>7 DEF BootInv, ProcsSame
<1> QED
  BY <1>5, <1>8

\* ... or to kinit2 after the last one, ...
LEMMA AllstartedDoes == ASSUME IInv, allstarted PROVE TypeOK' /\ BootInv'
<1> USE DEF IInv
<1>1. /\ boot.pc = "startothers" /\ ProcsSame /\ UNCHANGED <<free, useLock, kvm, code4, aps>>
      /\ boot' = [boot EXCEPT !.pc = "kinit2"]
  BY DEF allstarted, AfterOthers, ProcsSame
<1>2. boot' \in BootType /\ boot'.pc = "kinit2" /\ boot'.ap = boot.ap
  BY <1>1 DEF TypeOK, BootType
<1>3. TypeOK'
  BY <1>1, <1>2, ProcsTyped DEF TypeOK
<1>4. BootInv'
  BY <1>1, <1>2 DEF BootInv, ProcsSame
<1> QED
  BY <1>3, <1>4

\* ... which reads the free list ...
LEMMA Kinit2ReadDoes == ASSUME IInv, kinit2_read PROVE TypeOK' /\ BootInv'
<1> USE DEF IInv
<1>1. /\ boot.pc = "kinit2" /\ ProcsSame /\ UNCHANGED <<free, useLock, kvm, code4, aps>>
      /\ boot' = [boot EXCEPT !.pc = "kinit2_write", !.seen = free]
  BY DEF kinit2_read, ProcsSame
<1>2. boot' \in BootType /\ boot'.pc = "kinit2_write" /\ boot'.ap = boot.ap /\ boot'.seen = free
  BY <1>1 DEF TypeOK, BootType
<1>3. TypeOK'
  BY <1>1, <1>2, ProcsTyped DEF TypeOK
<1>4. BootInv'
  BY <1>1, <1>2 DEF BootInv, ProcsSame
<1> QED
  BY <1>3, <1>4

\* ... and writes it.
LEMMA Kinit2WriteDoes == ASSUME IInv, kinit2_write PROVE TypeOK' /\ BootInv' /\ boot.seen = free /\ ~useLock
<1> USE DEF IInv
<1>0. 1 \in Procs
  BY MemoryAssumption DEF Procs
<1>1. /\ boot.pc = "kinit2_write" /\ ProcsSame /\ UNCHANGED <<kvm, code4, aps>> /\ useLock' = TRUE
      /\ free' = boot.seen \cup ((NLow + 1)..(NLow + NHigh)) /\ state[1] = "unused"
      /\ boot' = [boot EXCEPT !.pc = IF state[1] = "unused" THEN "userinit" ELSE "sched", !.seen = {}]
  BY <1>0 DEF kinit2_write, ProcsSame, BootInv
<1>2. boot' \in BootType /\ boot'.pc = "userinit" /\ boot'.ap = boot.ap
  BY <1>1 DEF TypeOK, BootType
<1>3. free' \subseteq Pages
  BY <1>1, MemoryAssumption DEF TypeOK, BootInv, Pages
<1>4. TypeOK'
  BY <1>1, <1>2, <1>3, ProcsTyped DEF TypeOK
<1>5. BootInv'
  BY <1>1, <1>2 DEF BootInv, ProcsSame
<1> QED
  BY <1>1, <1>4, <1>5 DEF BootInv

\* A CPU takes its stack, ...
LEMMA EntryotherDoes == ASSUME IInv, NEW c \in APs, entryother(c) PROVE TypeOK' /\ BootInv'
<1> USE DEF IInv
<1>1. /\ aps[c].pc = "entry" /\ ProcsSame /\ UNCHANGED <<free, useLock, boot, kvm>> /\ code4' = Nil
      /\ aps' = [aps EXCEPT ![c] = [pc |-> "mpenter", stack |-> code4]]
  BY DEF entryother, ProcsSame
<1>2. aps' \in [APs -> ApType] /\ aps'[c].pc = "mpenter" /\ \A d \in APs \ {c} : aps'[d] = aps[d]
  BY <1>1 DEF TypeOK, ApType
<1>3. TypeOK'
  BY <1>1, <1>2, ProcsTyped DEF TypeOK
<1>4. boot.pc = "wait" /\ boot.ap = c
  BY <1>1 DEF BootInv
<1>5. ASSUME NEW d \in APs
      PROVE  /\ aps'[d].pc \in {"off", "entry"} => aps'[d].stack = Nil
             /\ aps'[d].pc \in {"entry", "mpenter"} => d = c
             /\ d > c => aps'[d].pc = "off"
  <2>1. CASE d = c
    BY <1>2, <2>1, MemoryAssumption DEF APs
  <2>2. CASE d # c
    BY <1>2, <1>4, <2>2 DEF BootInv
  <2> QED
    BY <2>1, <2>2
<1>6. BootInv'
  BY <1>1, <1>2, <1>4, <1>5 DEF BootInv, ProcsSame
<1> QED
  BY <1>3, <1>6

\* ... and says that it has started.
LEMMA MpenterDoes == ASSUME IInv, NEW c \in APs, mpenter(c) PROVE TypeOK' /\ BootInv'
<1> USE DEF IInv
<1>1. /\ aps[c].pc = "mpenter" /\ ProcsSame /\ UNCHANGED <<free, useLock, boot, kvm, code4>>
      /\ aps' = [aps EXCEPT ![c] = [aps[c] EXCEPT !.pc = "sched"]]
  BY DEF mpenter, ProcsSame
<1>2. aps' \in [APs -> ApType] /\ aps'[c].pc = "sched" /\ \A d \in APs \ {c} : aps'[d] = aps[d]
  <2>1. [aps[c] EXCEPT !.pc = "sched"] \in ApType /\ [aps[c] EXCEPT !.pc = "sched"].pc = "sched"
    BY DEF TypeOK, ApType
  <2> QED
    BY <1>1, <2>1 DEF TypeOK
<1>3. TypeOK'
  BY <1>1, <1>2, ProcsTyped DEF TypeOK
<1>4. boot.pc = "wait" /\ boot.ap = c /\ code4 = Nil
  BY <1>1 DEF BootInv
<1>5. ASSUME NEW d \in APs
      PROVE  /\ aps'[d].pc \in {"off", "entry"} => aps'[d].stack = Nil
             /\ aps'[d].pc \in {"entry", "mpenter"} => d = c
             /\ d > c => aps'[d].pc = "off"
  <2>1. CASE d = c
    BY <1>2, <2>1, MemoryAssumption DEF APs
  <2>2. CASE d # c
    BY <1>2, <1>4, <2>2 DEF BootInv
  <2> QED
    BY <2>1, <2>2
<1>6. BootInv'
  BY <1>1, <1>2, <1>4, <1>5 DEF BootInv, ProcsSame
<1> QED
  BY <1>3, <1>6

\* userinit is the last step of main.
LEMMA UserinitDoes == ASSUME IInv, userinit PROVE TypeOK' /\ BootInv'
<1> USE DEF IInv
<1>1. /\ boot.pc = "userinit" /\ useLock /\ Cardinality(free) >= 5 /\ UNCHANGED <<useLock, kvm, code4, aps, job>>
      /\ boot' = [boot EXCEPT !.pc = "sched"] /\ free' \subseteq free
      /\ state' = [state EXCEPT ![1] = "alive"]
      /\ kstack' = [kstack EXCEPT ![1] = kalloc(1)]
      /\ sz' = [sz EXCEPT ![1] = PGSIZE]
  BY DEF userinit, BootInv
<1>2. boot' \in BootType /\ boot'.pc = "sched" /\ boot'.ap = boot.ap
  BY <1>1 DEF TypeOK, BootType
<1>3. PICK s : /\ s = [NoSpace EXCEPT !.pgdir = kalloc(2), !.tabs[KTable] = kalloc(3), !.tabs[0] = kalloc(5),
                                      !.pg[0] = kalloc(4)]
               /\ space' = [space EXCEPT ![1] = s] /\ cr3' = [cr3 EXCEPT ![1] = s.pgdir]
  BY DEF userinit
<1>4. s \in SpaceType /\ kalloc(1) \in free
  BY <1>1, <1>3, InitSpace
<1>5. space' \in [Procs -> SpaceType] /\ cr3' \in [Procs -> Pages \cup {Nil}]
  <2>1. s.pgdir \in Pages \cup {Nil}
    BY <1>4 DEF SpaceType
  <2> QED
    BY <1>3, <1>4, <2>1 DEF TypeOK
<1>6. kstack' \in [Procs -> Pages \cup {Nil}]
  BY <1>1, <1>4 DEF TypeOK
<1>7. sz' \in [Procs -> 0..(KERNBASE - 1)]
  <2>1. PGSIZE \in 0..(KERNBASE - 1)
    BY RoomForOne, MemoryAssumption
  <2> QED
    BY <1>1, <2>1 DEF TypeOK
<1>8. state' \in [Procs -> {"unused", "embryo", "alive", "zombie"}]
  BY <1>1 DEF TypeOK
<1>9. TypeOK'
  BY <1>1, <1>2, <1>5, <1>6, <1>7, <1>8 DEF TypeOK
<1>10. BootInv'
  BY <1>1, <1>2 DEF BootInv
<1> QED
  BY <1>9, <1>10

\* A process runs when the machine has started, and leaves what is the kernel's alone.
LEMMA RunAlive == ASSUME IInv, NEW p \in Procs, Run(p) PROVE boot.pc = "sched" /\ state[p] = "alive" /\ UNCHANGED cpus
<1>1. ASSUME state[p] = "alive" PROVE boot.pc = "sched"
  BY <1>1 DEF IInv, BootInv
<1>2. ASSUME NEW n, exec(p, n) \/ grow(p, n) \/ shrink(p, n) PROVE state[p] = "alive" /\ UNCHANGED cpus
  BY <1>2 DEF exec, grow, shrink, Idle
<1>3. ASSUME NEW q \in Procs, wait(p, q) PROVE state[p] = "alive" /\ UNCHANGED cpus
  BY SMTT(60), <1>3 DEF wait, Idle
<1>4. CASE fork(p) \/ allocproc(p) \/ fork_done(p) \/ setupkvm(p) \/ kmap(p) \/ uvm_page(p) \/ unmapped(p)
  BY ZenonT(60), <1>1, <1>4 DEF fork, allocproc, fork_done, setupkvm, kmap, uvm_page, unmapped, Idle, AtPc, Built
<1>5. CASE mappages(p)
  BY <1>1, <1>5 DEF mappages, AtPc
<1>6. CASE grow_done(p) \/ bad_grow(p) \/ bad_new(p) \/ exec_error(p) \/ exec_commit(p) \/ switchuvm(p)
           \/ exec_freevm(p) \/ exit(p)
  BY <1>1, <1>6 DEF grow_done, bad_grow, bad_new, exec_error, exec_commit, switchuvm, exec_freevm, exit, Idle, AtPc, Built
<1> QED
  BY <1>1, <1>2, <1>3, <1>4, <1>5, <1>6 DEF Run

\* BootInv after a step of a process.
LEMMA BootRun == ASSUME IInv, NEW p \in Procs, Run(p) PROVE BootInv'
BY RunAlive DEF IInv, BootInv, cpus

-----------------------------------------------------------------------------
(***************************************************************************)
(* ChildInv.                                                               *)
(***************************************************************************)
\* One slot changes that no fork fills, and its own fork goes on as it was.
LEMMA ChildStays ==
  ASSUME IInv, NEW p \in Procs, Only({p}), state[p] # "embryo",
         job'[p].op = "fork" => /\ job[p].op = "fork" /\ job'[p].child = job[p].child
                                /\ job'[p].pc = "kstack" <=> job[p].pc = "kstack"
  PROVE  ChildInv'
<1>1. ASSUME NEW r \in Procs, job'[r].op = "fork"
      PROVE  /\ job[r].op = "fork" /\ job'[r].child = job[r].child /\ (job'[r].pc = "kstack" <=> job[r].pc = "kstack")
  BY <1>1 DEF Only, Same
<1>2. ASSUME NEW r \in Procs PROVE ForkOk(r)'
  <2>1. SUFFICES ASSUME job'[r].op = "fork"
                 PROVE  /\ job'[r].child \in Procs /\ state'[job'[r].child] = "embryo"
                        /\ kstack'[job'[r].child] = Nil <=> job'[r].pc = "kstack"
    BY DEF ForkOk
  <2>2. PICK c : c = job[r].child /\ c \in Procs /\ state[c] = "embryo" /\ (kstack[c] = Nil <=> job[r].pc = "kstack")
    BY <1>1, <2>1 DEF IInv, ChildInv, ForkOk
  <2>3. state'[c] = state[c] /\ kstack'[c] = kstack[c]
    BY <2>2 DEF Only, Same
  <2> QED
    BY <1>1, <2>1, <2>2, <2>3
<1> QED
  BY <1>1, <1>2 DEF ChildInv, IInv

\* A fork ends, whatever becomes of its child.
LEMMA ChildEnds ==
  ASSUME IInv, NEW p \in Procs, NEW q \in Procs, job[p].op = "fork", job[p].child = q, state[p] = "alive",
         Only({p, q}), job'[p] = NoJob, job'[q] = job[q], job[q] = NoJob
  PROVE  ChildInv'
<1>1. ASSUME NEW r \in Procs, job'[r].op = "fork" PROVE r \notin {p, q} /\ job'[r] = job[r]
  BY <1>1, NoJobIs DEF Only, Same
<1>2. ASSUME NEW r \in Procs PROVE ForkOk(r)'
  <2>1. SUFFICES ASSUME job'[r].op = "fork"
                 PROVE  /\ job'[r].child \in Procs /\ state'[job'[r].child] = "embryo"
                        /\ kstack'[job'[r].child] = Nil <=> job'[r].pc = "kstack"
    BY DEF ForkOk
  <2>2. r \notin {p, q} /\ job'[r] = job[r]
    BY <1>1, <2>1
  <2>3. PICK c : c = job[r].child /\ c \in Procs /\ state[c] = "embryo" /\ (kstack[c] = Nil <=> job[r].pc = "kstack")
    BY <2>1, <2>2 DEF IInv, ChildInv, ForkOk
  <2>4. c # q /\ c # p
    BY <2>1, <2>2, <2>3 DEF IInv, ChildInv
  <2>5. state'[c] = state[c] /\ kstack'[c] = kstack[c]
    BY <2>3, <2>4 DEF Only, Same
  <2> QED
    BY <2>2, <2>3, <2>5
<1> QED
  BY <1>1, <1>2 DEF ChildInv, IInv

\* fork takes a slot that no other fork fills.
LEMMA ForkChild == ASSUME IInv, NEW p \in Procs, fork(p) PROVE ChildInv'
<1> USE DEF IInv
<1>1. PICK q \in Procs \ {p} :
        /\ state[q] = "unused" /\ Only({p, q}) /\ SlotSame(p) /\ job'[q] = job[q]
        /\ Slot(q, "embryo", kstack[q], sz[q], space[q], cr3[q])
        /\ Call(p, "fork", "kstack", q, NoSpace, 0, sz[p], Nil)
  BY ForkIs
<1>2. state[p] = "alive"
  BY ForkIs DEF Idle
<1>3. LocalOk(q)
  BY DEF ProcInv
<1>4. job'[q] = NoJob /\ kstack[q] = Nil
  BY <1>1, <1>3 DEF LocalOk, ProcOk
<1>5. ASSUME NEW r \in Procs, job'[r].op = "fork", r # p
      PROVE  job'[r] = job[r] /\ job[r].child \notin {p, q} /\ ForkOk(r)'
  <2>1. r # q /\ job'[r] = job[r]
    BY <1>1, <1>4, <1>5, NoJobIs DEF Only, Same
  <2>2. PICK c : c = job[r].child /\ c \in Procs /\ state[c] = "embryo" /\ (kstack[c] = Nil <=> job[r].pc = "kstack")
    BY <1>5, <2>1 DEF ChildInv, ForkOk
  <2>3. c # q /\ c # p
    BY <1>1, <1>2, <2>2
  <2>4. state'[c] = state[c] /\ kstack'[c] = kstack[c]
    BY <1>1, <2>2, <2>3 DEF Only, Same
  <2> QED
    BY <2>1, <2>2, <2>3, <2>4 DEF ForkOk
<1>6. ForkOk(p)' /\ job'[p].child = q
  BY <1>1, <1>4 DEF ForkOk, Call, Slot
<1>7. \A r \in Procs : ForkOk(r)'
  BY <1>5, <1>6 DEF ForkOk
<1>8. ASSUME NEW r \in Procs, NEW s \in Procs, job'[r].op = "fork", job'[s].op = "fork", job'[r].child = job'[s].child
      PROVE  r = s
  <2>1. CASE r = p \/ s = p
    BY <1>5, <1>6, <1>8, <2>1
  <2>2. CASE r # p /\ s # p
    BY <1>5, <1>8, <2>2 DEF ChildInv
  <2> QED
    BY <2>1, <2>2
<1> QED
  BY <1>7, <1>8 DEF ChildInv

\* allocproc gives the child of fork a stack, or gives it up.
LEMMA AllocprocChild == ASSUME IInv, NEW p \in Procs, allocproc(p) PROVE ChildInv'
<1> USE DEF IInv
<1>1. state[p] = "alive" /\ job[p].pc = "kstack" /\ job[p].op = "fork"
  BY AllocprocIs DEF AtPc, ProcInv, LocalOk, BuildOk
<1>2. PICK q \in Procs \ {p} : q = job[p].child /\ job[q] = NoJob /\ state[q] = "embryo"
  BY <1>1, ChildApart
<1>3. /\ job'[q] = job[q] /\ Only({p, q})
      /\ \/ job'[p] = NoJob
         \/ /\ free # {} /\ GoesOn(p, "setupkvm") /\ Slot(q, state[q], kalloc(1), sz[q], space[q], cr3[q])
  BY <1>2, AllocprocIs
<1>4. CASE job'[p] = NoJob
  BY <1>1, <1>2, <1>3, <1>4, ChildEnds
<1>5. CASE free # {} /\ GoesOn(p, "setupkvm") /\ Slot(q, state[q], kalloc(1), sz[q], space[q], cr3[q])
  <2>1. kalloc(1) # Nil
    BY <1>5, KallocOne, NilNoPage DEF TypeOK
  <2>2. ForkOk(p)' /\ job'[p].child = q
    BY <1>2, <1>5, <2>1 DEF ForkOk, GoesOn, Call, Slot
  <2>3. ASSUME NEW r \in Procs, job'[r].op = "fork", r # p
        PROVE  job'[r] = job[r] /\ job[r].child # q /\ ForkOk(r)'
    <3>1. r # q /\ job'[r] = job[r]
      BY <1>2, <1>3, <2>3, NoJobIs DEF Only, Same
    <3>2. PICK c : c = job[r].child /\ c \in Procs /\ state[c] = "embryo" /\ (kstack[c] = Nil <=> job[r].pc = "kstack")
      BY <2>3, <3>1 DEF ChildInv, ForkOk
    <3>3. c # q /\ c # p
      BY <1>1, <1>2, <2>3, <3>1, <3>2 DEF ChildInv
    <3>4. state'[c] = state[c] /\ kstack'[c] = kstack[c]
      BY <1>3, <3>2, <3>3 DEF Only, Same
    <3> QED
      BY <3>1, <3>2, <3>3, <3>4 DEF ForkOk
  <2>4. \A r \in Procs : ForkOk(r)'
    BY <2>2, <2>3 DEF ForkOk
  <2>5. ASSUME NEW r \in Procs, NEW s \in Procs, job'[r].op = "fork", job'[s].op = "fork", job'[r].child = job'[s].child
        PROVE  r = s
    <3>1. CASE r = p \/ s = p
      BY <2>2, <2>3, <2>5, <3>1
    <3>2. CASE r # p /\ s # p
      BY <2>3, <2>5, <3>2 DEF ChildInv
    <3> QED
      BY <3>1, <3>2
  <2> QED
    BY <2>4, <2>5 DEF ChildInv
<1> QED
  BY <1>3, <1>4, <1>5

\* The end of a fork, ...
LEMMA ForkDoneChild == ASSUME IInv, NEW p \in Procs, fork_done(p) PROVE ChildInv'
<1> USE DEF IInv
<1>1. job[p].op = "fork" /\ state[p] = "alive" /\ job'[p] = NoJob
  BY ForkDoneIs DEF Built, AtPc
<1>2. PICK q \in Procs \ {p} : q = job[p].child /\ job[q] = NoJob
  BY <1>1, ChildApart
<1> QED
  BY <1>1, <1>2, ForkDoneIs, ChildEnds

\* ... and its failure.
LEMMA BadNewChild == ASSUME IInv, NEW p \in Procs, bad_new(p) PROVE ChildInv'
<1> USE DEF IInv
<1>1. state[p] = "alive" /\ job'[p] = NoJob
  BY BadNewIs DEF AtPc
<1>2. CASE job[p].op = "fork"
  <2>1. PICK q \in Procs \ {p} : q = job[p].child /\ job[q] = NoJob
    BY <1>1, <1>2, ChildApart
  <2> QED
    BY <1>1, <1>2, <2>1, BadNewIs, ChildEnds
<1>3. CASE job[p].op # "fork"
  <2>1. job'[p].op # "fork" /\ Only({p})
    BY <1>1, <1>3, BadNewIs, NoJobIs
  <2> QED
    BY <1>1, <2>1, ChildStays
<1> QED
  BY <1>2, <1>3

\* Every step of a process.
LEMMA ChildRun == ASSUME IInv, NEW p \in Procs, Run(p) PROVE ChildInv'
<1> USE DEF IInv
<1>0. state[p] = "alive" /\ state[p] # "embryo"
  BY RunAlive
<1>1. CASE fork(p) \/ allocproc(p) \/ fork_done(p) \/ bad_new(p)
  BY <1>1, ForkChild, AllocprocChild, ForkDoneChild, BadNewChild
<1>2. ASSUME NEW n \in Sizes, exec(p, n) \/ grow(p, n) PROVE ChildInv'
  <2>1. Only({p}) /\ job'[p].op # "fork"
    BY <1>2, ExecIs, GrowIs DEF Call
  <2> QED
    BY <1>0, <2>1, ChildStays
<1>3. ASSUME NEW n \in ShrinkSizes, shrink(p, n) PROVE ChildInv'
  <2>1. Only({p}) /\ job'[p] = job[p]
    BY <1>3, ShrinkIs
  <2> QED
    BY <1>0, <2>1, ChildStays
<1>4. CASE setupkvm(p) \/ kmap(p) \/ uvm_page(p)
  <2>1. Only({p}) /\ job[p].pc # "kstack"
    BY <1>4, SetupkvmIs, KmapIs, UvmPageIs DEF AtPc
  <2>2. job'[p].op = job[p].op /\ job'[p].child = job[p].child /\ job'[p].pc # "kstack"
    <3>1. CASE setupkvm(p)
      BY <3>1, SetupkvmIs DEF GoesOn, Call
    <3>2. CASE kmap(p)
      BY <3>2, KmapIs DEF GoesOn, Call
    <3>3. CASE uvm_page(p)
      BY <3>3, UvmPageIs DEF GoesOn, Call
    <3> QED
      BY <1>4, <3>1, <3>2, <3>3
  <2> QED
    BY <1>0, <2>1, <2>2, ChildStays
<1>5. CASE mappages(p)
  <2>1. job[p].at \in PageNos
    BY <1>5, MapsPage DEF mappages
  <2>2. Only({p}) /\ job[p].pc # "kstack"
    BY <1>5, <2>1, MappagesIs DEF AtPc
  <2>3. job'[p].op = job[p].op /\ job'[p].child = job[p].child /\ job'[p].pc # "kstack"
    BY <1>5, <2>1, MappagesIs DEF GoesOn, Call
  <2> QED
    BY <1>0, <2>2, <2>3, ChildStays
<1>6. CASE unmapped(p) \/ exec_error(p)
  <2>1. Only({p}) /\ job[p].pc # "kstack"
    BY <1>6, UnmappedIs, ExecErrorIs DEF AtPc
  <2>2. job'[p].op = job[p].op /\ job'[p].child = job[p].child /\ job'[p].pc # "kstack"
    BY <1>6, UnmappedIs, ExecErrorIs DEF GoesOn, Call
  <2> QED
    BY <1>0, <2>1, <2>2, ChildStays
<1>7. CASE grow_done(p) \/ bad_grow(p) \/ exec_freevm(p)
  <2>1. Only({p}) /\ job'[p].op # "fork"
    BY <1>7, GrowDoneIs, BadGrowIs, ExecFreevmIs, NoJobIs
  <2> QED
    BY <1>0, <2>1, ChildStays
<1>8. CASE exec_commit(p)
  <2>1. Only({p}) /\ job'[p].op # "fork"
    BY <1>8, ExecCommitIs DEF Call
  <2> QED
    BY <1>0, <2>1, ChildStays
<1>9. CASE switchuvm(p)
  <2>1. Only({p}) /\ GoesOn(p, IF job[p].pc = "switchuvm" THEN "freevm" ELSE job[p].pc)
    BY <1>9, SwitchuvmIs
  <2>2. job'[p].op = job[p].op /\ job'[p].child = job[p].child /\ (job'[p].pc = "kstack" <=> job[p].pc = "kstack")
    BY <2>1 DEF GoesOn, Call
  <2> QED
    BY <1>0, <2>1, <2>2, ChildStays
<1>10. CASE exit(p)
  <2>1. Only({p}) /\ job'[p] = job[p]
    BY <1>10, ExitIs
  <2> QED
    BY <1>0, <2>1, ChildStays
<1>11. ASSUME NEW q \in Procs, wait(p, q) PROVE ChildInv'
  <2>1. Only({q}) /\ job'[q] = job[q] /\ state[q] # "embryo"
    BY <1>11, WaitIs
  <2> QED
    BY <2>1, ChildStays
<1> QED
  BY <1>1, <1>2, <1>3, <1>4, <1>5, <1>6, <1>7, <1>8, <1>9, <1>10, <1>11 DEF Run

\* The start of the machine forks nothing.
LEMMA ChildSame == ASSUME IInv, ProcsSame PROVE ChildInv' /\ ProcInv'
<1>1. ChildInv'
  BY DEF IInv, ChildInv, ForkOk, ProcsSame
<1>2. Only({})
  BY DEF Only, Same, ProcsSame
<1> QED
  BY <1>1, <1>2, ProcBut

\* userinit fills a slot that no fork fills.
LEMMA UserinitChild == ASSUME IInv, userinit PROVE ChildInv'
<1> USE DEF IInv
<1>1. 1 \in Procs /\ Only({1}) /\ job'[1] = job[1] /\ boot.pc = "userinit"
  BY UserinitIs
<1>2. state[1] # "embryo"
  BY <1>1 DEF BootInv
<1> QED
  BY <1>1, <1>2, ChildStays

-----------------------------------------------------------------------------
(***************************************************************************)
(* OwnInv.  A step moves pages between few holders: it is enough that what *)
(* these have after it is apart and, together, what they had.              *)
(***************************************************************************)
NewPages(j) == IF j.op = "grow" THEN {} ELSE PagesOf(j.new)
One(x)      == {x} \ {Nil}
Apart(A, B, C, D) ==
  A \cap B = {} /\ A \cap C = {} /\ A \cap D = {} /\ B \cap C = {} /\ B \cap D = {} /\ C \cap D = {}

\* What a process, its child and the free list have is apart.
LEMMA OwnParts ==
  ASSUME OwnInv, NEW p \in Procs, NEW q \in Procs
  PROVE  /\ Apart(free, PagesOf(space[p]), NewPages(job[p]), One(job[p].mem))
         /\ Apart(free, One(kstack[q]), PagesOf(space[q]), NewPages(job[p]))
         /\ free \cap PagesOf(kvm) = {} /\ free \cap One(code4) = {}
<1>1. PICK f, k, s, n, m, t, v, c : /\ f = <<"free", 0>> /\ s = <<"space", p>> /\ n = <<"new", p>> /\ m = <<"mem", p>>
                                    /\ k = <<"kstack", q>> /\ t = <<"space", q>> /\ v = <<"kvm", 0>> /\ c = <<"code4", 0>>
  OBVIOUS
<1>2. {f, k, s, n, m, t, v, c} \subseteq Holders
  BY <1>1 DEF Holders
<1>3. f \notin {k, s, n, m, t, v, c} /\ s \notin {n, m} /\ n # m /\ k \notin {t, n} /\ t # n
  BY <1>1
<1>4. /\ Apart(Has(f), Has(s), Has(n), Has(m)) /\ Apart(Has(f), Has(k), Has(t), Has(n))
      /\ Has(f) \cap Has(v) = {} /\ Has(f) \cap Has(c) = {}
  BY <1>2, <1>3 DEF OwnInv, Apart
<1>5. /\ f[1] = "free" /\ s[1] = "space" /\ s[2] = p /\ m[1] = "mem" /\ m[2] = p /\ n[1] = "new" /\ n[2] = p
      /\ k[1] = "kstack" /\ k[2] = q /\ t[1] = "space" /\ t[2] = q /\ v[1] = "kvm" /\ c[1] = "code4"
  BY <1>1
<1>6. /\ Has(f) = free /\ Has(s) = PagesOf(space[p]) /\ Has(n) = NewPages(job[p]) /\ Has(m) = One(job[p].mem)
  BY <1>5, HasIs DEF NewPages, One
<1>7. Has(k) = One(kstack[q]) /\ Has(t) = PagesOf(space[q]) /\ Has(v) = PagesOf(kvm) /\ Has(c) = One(code4)
  BY <1>5, HasIs DEF One
<1> QED
  BY <1>4, <1>6, <1>7

\* A step of one process that moves pages between the free list, its page
\* table, the one that it builds and the page that it maps.
LEMMA OwnOne ==
  ASSUME OwnInv, NEW p \in Procs, UNCHANGED cpus, Only({p}), kstack'[p] = kstack[p],
         Apart(free', PagesOf(space'[p]), NewPages(job'[p]), One(job'[p].mem)),
         free' \cup PagesOf(space'[p]) \cup NewPages(job'[p]) \cup One(job'[p].mem)
           = free \cup PagesOf(space[p]) \cup NewPages(job[p]) \cup One(job[p].mem)
  PROVE  OwnInv'
<1>1. PICK f, s, n, m : f = <<"free", 0>> /\ s = <<"space", p>> /\ n = <<"new", p>> /\ m = <<"mem", p>>
  OBVIOUS
<1>2. {f, s, n, m} \subseteq Holders
  BY <1>1 DEF Holders
<1>3. ASSUME NEW i \in Holders \ {f, s, n, m} PROVE Has(i)' = Has(i)
  <2>1. \/ i[1] \in {"kvm", "code4"}
        \/ i[1] = "ap" /\ i[2] \in APs
        \/ i[1] \in {"kstack", "space", "new", "mem"} /\ i[2] \in Procs /\ (i[1] = "kstack" \/ i[2] # p)
    <3>1. \E x, y : i = <<x, y>>
      BY DEF Holders
    <3> QED
      BY <1>1, <3>1, HolderIs
  <2>2. CASE i[1] \in {"kvm", "code4"}
    BY <2>2, HasKept DEF cpus
  <2>3. CASE i[1] = "ap"
    BY <2>3, HasKept DEF cpus
  <2>4. CASE i[1] \in {"kstack", "space", "new", "mem"} /\ i[2] \in Procs \ {p}
    <3>1. Same(i[2])
      BY <2>4 DEF Only
    <3> QED
      BY <2>4, <3>1, HasKept DEF Same
  <2>5. CASE i[1] = "kstack" /\ i[2] = p
    BY <2>5, HasKept
  <2> QED
    BY <2>1, <2>2, <2>3, <2>4, <2>5
<1>4. f[1] = "free" /\ s[1] = "space" /\ s[2] = p /\ m[1] = "mem" /\ m[2] = p /\ n[1] = "new" /\ n[2] = p
  BY <1>1
<1>5. Has(f) = free /\ Has(s) = PagesOf(space[p]) /\ Has(n) = NewPages(job[p]) /\ Has(m) = One(job[p].mem)
  BY <1>4, HasIs DEF NewPages, One
<1>6. Has(f)' = free' /\ Has(s)' = PagesOf(space'[p]) /\ Has(n)' = NewPages(job'[p]) /\ Has(m)' = One(job'[p].mem)
  BY <1>4, HasNext DEF NewPages, One
<1>7. \A i, j \in {f, s, n, m} : i # j => Has(i)' \cap Has(j)' = {}
  BY <1>6 DEF Apart
<1>8. \A g : (\E i \in {f, s, n, m} : g \in Has(i)) <=> (\E i \in {f, s, n, m} : g \in Has(i)')
  BY <1>5, <1>6
<1>9. PICK C : C = {f, s, n, m}
  OBVIOUS
<1>10. C \subseteq Holders /\ \A i \in Holders \ C : Has(i)' = Has(i)
  BY <1>2, <1>3, <1>9
<1>11. \A i, j \in C : i # j => Has(i)' \cap Has(j)' = {}
  BY <1>7, <1>9
<1>12. \A g : (\E i \in C : g \in Has(i)) <=> (\E i \in C : g \in Has(i)')
  BY <1>8, <1>9
<1>13. UNCHANGED useLock
  BY DEF cpus
<1> QED
  BY <1>10, <1>11, <1>12, <1>13, Exchange

\* A step that moves pages between the free list, a slot q and the page table
\* that p builds.
LEMMA OwnTwo ==
  ASSUME OwnInv, NEW p \in Procs, NEW q \in Procs, UNCHANGED <<useLock, kvm, code4, aps>>, Only({p, q}),
         p # q => kstack'[p] = kstack[p] /\ space'[p] = space[p] /\ job'[q] = job[q],
         job'[p].mem = job[p].mem,
         Apart(free', One(kstack'[q]), PagesOf(space'[q]), NewPages(job'[p])),
         free' \cup One(kstack'[q]) \cup PagesOf(space'[q]) \cup NewPages(job'[p])
           = free \cup One(kstack[q]) \cup PagesOf(space[q]) \cup NewPages(job[p])
  PROVE  OwnInv'
<1>1. PICK f, k, s, n : f = <<"free", 0>> /\ k = <<"kstack", q>> /\ s = <<"space", q>> /\ n = <<"new", p>>
  OBVIOUS
<1>2. {f, k, s, n} \subseteq Holders
  BY <1>1 DEF Holders
<1>3. ASSUME NEW i \in Holders \ {f, k, s, n} PROVE Has(i)' = Has(i)
  <2>1. \/ i[1] \in {"kvm", "code4"}
        \/ i[1] = "ap" /\ i[2] \in APs
        \/ i[1] \in {"kstack", "space"} /\ i[2] \in Procs /\ i[2] # q
        \/ i[1] = "new" /\ i[2] \in Procs /\ i[2] # p
        \/ i[1] = "mem" /\ i[2] \in Procs
    <3>1. \E x, y : i = <<x, y>>
      BY DEF Holders
    <3> QED
      BY <1>1, <3>1, HolderIs
  <2>2. CASE i[1] \in {"kvm", "code4"}
    BY <2>2, HasKept
  <2>3. CASE i[1] = "ap"
    BY <2>3, HasKept
  <2>4. CASE i[1] \in {"kstack", "space"} /\ i[2] \in Procs /\ i[2] # q
    <3>1. kstack'[i[2]] = kstack[i[2]] /\ space'[i[2]] = space[i[2]]
      BY <2>4 DEF Only, Same
    <3> QED
      BY <2>4, <3>1, HasKept
  <2>5. CASE i[1] = "new" /\ i[2] \in Procs /\ i[2] # p
    <3>1. job'[i[2]] = job[i[2]]
      BY <2>5 DEF Only, Same
    <3> QED
      BY <2>5, <3>1, HasKept
  <2>6. CASE i[1] = "mem" /\ i[2] \in Procs
    <3>1. job'[i[2]].mem = job[i[2]].mem
      BY <2>6 DEF Only, Same
    <3> QED
      BY <2>6, <3>1, HasKept
  <2> QED
    BY <2>1, <2>2, <2>3, <2>4, <2>5, <2>6
<1>4. f[1] = "free" /\ s[1] = "space" /\ s[2] = q /\ k[1] = "kstack" /\ k[2] = q /\ n[1] = "new" /\ n[2] = p
  BY <1>1
<1>5. Has(f) = free /\ Has(s) = PagesOf(space[q]) /\ Has(n) = NewPages(job[p]) /\ Has(k) = One(kstack[q])
  BY <1>4, HasIs DEF NewPages, One
<1>6. Has(f)' = free' /\ Has(s)' = PagesOf(space'[q]) /\ Has(n)' = NewPages(job'[p]) /\ Has(k)' = One(kstack'[q])
  BY <1>4, HasNext DEF NewPages, One
<1>7. \A i, j \in {f, k, s, n} : i # j => Has(i)' \cap Has(j)' = {}
  BY <1>6 DEF Apart
<1>8. \A g : (\E i \in {f, k, s, n} : g \in Has(i)) <=> (\E i \in {f, k, s, n} : g \in Has(i)')
  BY <1>5, <1>6
<1>9. PICK C : C = {f, k, s, n}
  OBVIOUS
<1>10. C \subseteq Holders /\ \A i \in Holders \ C : Has(i)' = Has(i)
  BY <1>2, <1>3, <1>9
<1>11. \A i, j \in C : i # j => Has(i)' \cap Has(j)' = {}
  BY <1>7, <1>9
<1>12. \A g : (\E i \in C : g \in Has(i)) <=> (\E i \in C : g \in Has(i)')
  BY <1>8, <1>9
<1>13. UNCHANGED useLock
  BY DEF cpus
<1> QED
  BY <1>10, <1>11, <1>12, <1>13, Exchange

\* A step of the kernel's start that moves pages between two holders.
LEMMA OwnKernel ==
  ASSUME OwnInv, ProcsSame, UNCHANGED useLock, NEW h \in Holders, NEW k \in Holders, h # k,
         h[1] \in {"free", "kvm", "code4", "ap"}, k[1] \in {"free", "kvm", "code4", "ap"},
         \A i \in Holders \ {h, k} : /\ i[1] = "free" => free' = free
                                     /\ i[1] = "kvm" => kvm' = kvm
                                     /\ i[1] = "code4" => code4' = code4
                                     /\ i[1] = "ap" => aps'[i[2]].stack = aps[i[2]].stack,
         Has(h)' \cap Has(k)' = {}, Has(h)' \cup Has(k)' = Has(h) \cup Has(k)
  PROVE  OwnInv'
<1>1. ASSUME NEW i \in Holders \ {h, k} PROVE Has(i)' = Has(i)
  BY HasKept DEF ProcsSame
<1>2. \A i, j \in {h, k} : i # j => Has(i)' \cap Has(j)' = {}
  OBVIOUS
<1>3. \A g : (\E i \in {h, k} : g \in Has(i)) <=> (\E i \in {h, k} : g \in Has(i)')
  OBVIOUS
<1>4. PICK C : C = {h, k}
  OBVIOUS
<1>5. C \subseteq Holders /\ \A i \in Holders \ C : Has(i)' = Has(i)
  BY <1>1, <1>4
<1>6. \A i, j \in C : i # j => Has(i)' \cap Has(j)' = {}
  BY <1>2, <1>4
<1>7. \A g : (\E i \in C : g \in Has(i)) <=> (\E i \in C : g \in Has(i)')
  BY <1>3, <1>4
<1> QED
  BY <1>5, <1>6, <1>7, Exchange


\* Outside mappages a call has no page in its hands; no call has no pages.
LEMMA EmptyHands ==
  ASSUME IInv, NEW p \in Procs
  PROVE  /\ job[p].pc \notin {"map", "kfree"} => One(job[p].mem) = {}
         /\ job[p].pc = "idle" => NewPages(job[p]) = {}
         /\ job[p].pc \in {"kstack", "setupkvm"} => NewPages(job[p]) = {} /\ job[p].new = NoSpace
         /\ NewPages(NoJob) = {} /\ One(NoJob.mem) = {}
<1>1. LocalOk(p)
  BY DEF IInv, ProcInv
<1>2. NewPages(NoJob) = {} /\ One(NoJob.mem) = {}
  BY NoJobIs, NoSpaceIs DEF NewPages, One
<1>3. job[p].pc \notin {"map", "kfree"} => One(job[p].mem) = {}
  BY <1>1 DEF LocalOk, ProcOk, One
<1>4. job[p].pc = "idle" => NewPages(job[p]) = {}
  BY <1>1, <1>2 DEF LocalOk, ProcOk
<1>5. job[p].pc \in {"kstack", "setupkvm"} => NewPages(job[p]) = {} /\ job[p].new = NoSpace
  BY <1>1, NoSpaceIs DEF LocalOk, BuildOk, NewPages
<1> QED
  BY <1>2, <1>3, <1>4, <1>5

\* A call takes a page from the free list.
LEMMA OwnTakes ==
  ASSUME IInv, NEW p \in Procs, UNCHANGED cpus, Only({p}), SlotSame(p), free # {}, free' = free \ {kalloc(1)},
         \/ NewPages(job'[p]) = NewPages(job[p]) \cup {kalloc(1)} /\ job'[p].mem = job[p].mem
         \/ NewPages(job'[p]) = NewPages(job[p]) /\ One(job[p].mem) = {} /\ job'[p].mem = kalloc(1)
  PROVE  OwnInv'
<1>1. kalloc(1) \in free /\ kalloc(1) # Nil
  BY KallocOne, NilNoPage DEF IInv, TypeOK
<1>2. Apart(free, PagesOf(space[p]), NewPages(job[p]), One(job[p].mem))
  BY OwnParts DEF IInv
<1>3. space'[p] = space[p] /\ kstack'[p] = kstack[p]
  BY DEF SlotSame, Slot
<1>4. CASE NewPages(job'[p]) = NewPages(job[p]) \cup {kalloc(1)} /\ job'[p].mem = job[p].mem
  <2>1. Apart(free', PagesOf(space'[p]), NewPages(job'[p]), One(job'[p].mem))
    BY <1>1, <1>2, <1>3, <1>4 DEF Apart
  <2>2. free' \cup PagesOf(space'[p]) \cup NewPages(job'[p]) \cup One(job'[p].mem)
           = free \cup PagesOf(space[p]) \cup NewPages(job[p]) \cup One(job[p].mem)
    BY <1>1, <1>3, <1>4
  <2> QED
    BY <1>3, <2>1, <2>2, OwnOne DEF IInv
<1>5. CASE NewPages(job'[p]) = NewPages(job[p]) /\ One(job[p].mem) = {} /\ job'[p].mem = kalloc(1)
  <2>0. One(job'[p].mem) = {kalloc(1)}
    BY <1>1, <1>5 DEF One
  <2>1. Apart(free', PagesOf(space'[p]), NewPages(job'[p]), One(job'[p].mem))
    BY <1>1, <1>2, <1>3, <1>5, <2>0 DEF Apart
  <2>2. free' \cup PagesOf(space'[p]) \cup NewPages(job'[p]) \cup One(job'[p].mem)
           = free \cup PagesOf(space[p]) \cup NewPages(job[p]) \cup One(job[p].mem)
    BY <1>1, <1>3, <1>5, <2>0
  <2> QED
    BY <1>3, <2>1, <2>2, OwnOne DEF IInv
<1> QED
  BY <1>4, <1>5

\* A call gives its page table, the page in its hands, or both to the free list, or nothing.
LEMMA OwnGives ==
  ASSUME IInv, NEW p \in Procs, UNCHANGED cpus, Only({p}), space'[p] = space[p], kstack'[p] = kstack[p],
         NewPages(job'[p]) = NewPages(job[p]) \/ NewPages(job'[p]) = {},
         One(job'[p].mem) = One(job[p].mem) \/ One(job'[p].mem) = {},
         free' = free \cup (NewPages(job[p]) \ NewPages(job'[p])) \cup (One(job[p].mem) \ One(job'[p].mem))
  PROVE  OwnInv'
<1>1. Apart(free, PagesOf(space[p]), NewPages(job[p]), One(job[p].mem))
  BY OwnParts DEF IInv
<1>2. Apart(free', PagesOf(space'[p]), NewPages(job'[p]), One(job'[p].mem))
  BY <1>1 DEF Apart
<1>3. free' \cup PagesOf(space'[p]) \cup NewPages(job'[p]) \cup One(job'[p].mem)
         = free \cup PagesOf(space[p]) \cup NewPages(job[p]) \cup One(job[p].mem)
  OBVIOUS
<1> QED
  BY <1>2, <1>3, OwnOne DEF IInv

\* A process gives pages of its page table.
LEMMA OwnShrinks ==
  ASSUME IInv, NEW p \in Procs, UNCHANGED cpus, Only({p}), kstack'[p] = kstack[p], NEW n \in 0..(KERNBASE - 1),
         space'[p] = Dealloc(space[p], n), NewPages(job'[p]) = NewPages(job[p]), One(job'[p].mem) = One(job[p].mem),
         free' = free \cup (PagesOf(space[p]) \ PagesOf(Dealloc(space[p], n)))
  PROVE  OwnInv'
<1>1. Apart(free, PagesOf(space[p]), NewPages(job[p]), One(job[p].mem))
  BY OwnParts DEF IInv
<1>2. PICK m : m = Dealloc(space[p], n)
  OBVIOUS
<1>3. PagesOf(m) \subseteq PagesOf(space[p])
  BY <1>2, DeallocIs, JobIs DEF IInv, ProcInv, LocalOk
<1>4. space'[p] = m /\ free' = free \cup (PagesOf(space[p]) \ PagesOf(m))
  BY <1>2
<1>5. Apart(free', PagesOf(space'[p]), NewPages(job'[p]), One(job'[p].mem))
  BY <1>1, <1>3, <1>4 DEF Apart
<1>6. free' \cup PagesOf(space'[p]) \cup NewPages(job'[p]) \cup One(job'[p].mem)
         = free \cup PagesOf(space[p]) \cup NewPages(job[p]) \cup One(job[p].mem)
  BY <1>3, <1>4
<1> QED
  BY <1>5, <1>6, OwnOne DEF IInv


\* fork takes a slot without pages.
LEMMA ForkOwn == ASSUME IInv, NEW p \in Procs, fork(p) PROVE OwnInv'
<1> USE DEF IInv
<1>1. PICK q \in Procs \ {p} :
        /\ Only({p, q}) /\ SlotSame(p) /\ job'[q] = job[q]
        /\ Slot(q, "embryo", kstack[q], sz[q], space[q], cr3[q])
        /\ Call(p, "fork", "kstack", q, NoSpace, 0, sz[p], Nil)
  BY ForkIs
<1>2. state[p] = "alive" /\ job[p].pc = "idle" /\ UNCHANGED <<free, useLock, kvm, code4, aps>>
  BY ForkIs DEF Idle, cpus
<1>3. NewPages(job'[p]) = {} /\ NewPages(job[p]) = {}
  BY <1>1, <1>2, EmptyHands, NoSpaceIs DEF NewPages, Call
<1>4. job'[p].mem = job[p].mem
  BY <1>1, <1>2, NoJobIs DEF ProcInv, LocalOk, ProcOk, Call
<1>5. kstack'[q] = kstack[q] /\ space'[q] = space[q] /\ kstack'[p] = kstack[p] /\ space'[p] = space[p]
  BY <1>1 DEF Slot, SlotSame
<1>6. Apart(free', One(kstack'[q]), PagesOf(space'[q]), NewPages(job'[p]))
  BY <1>2, <1>3, <1>5, OwnParts
<1> QED
  BY <1>1, <1>2, <1>3, <1>4, <1>5, <1>6, OwnTwo

\* A page is a kernel stack, or none is left.
LEMMA AllocprocOwn == ASSUME IInv, NEW p \in Procs, allocproc(p) PROVE OwnInv'
<1> USE DEF IInv
<1>1. state[p] = "alive" /\ job[p].pc = "kstack" /\ job[p].op = "fork" /\ UNCHANGED <<useLock, kvm, code4, aps>>
  BY AllocprocIs DEF AtPc, ProcInv, LocalOk, BuildOk, cpus
<1>2. PICK q \in Procs \ {p} : q = job[p].child /\ job[q] = NoJob /\ kstack[q] = Nil
  BY <1>1, ChildApart
<1>3. /\ SlotSame(p) /\ job'[q] = job[q] /\ Only({p, q})
      /\ \/ /\ free' = free /\ job'[p] = NoJob
            /\ Slot(q, "unused", kstack[q], sz[q], space[q], cr3[q])
         \/ /\ free # {} /\ free' = free \ {kalloc(1)} /\ GoesOn(p, "setupkvm")
            /\ Slot(q, state[q], kalloc(1), sz[q], space[q], cr3[q])
  BY <1>2, AllocprocIs
<1>4. NewPages(job[p]) = {} /\ One(kstack[q]) = {} /\ job[p].mem = Nil
  BY <1>1, <1>2, EmptyHands DEF One, ProcInv, LocalOk, ProcOk
<1>5. Apart(free, One(kstack[q]), PagesOf(space[q]), NewPages(job[p]))
  BY OwnParts
<1>6. kstack'[p] = kstack[p] /\ space'[p] = space[p] /\ space'[q] = space[q]
  BY <1>3 DEF SlotSame, Slot
<1>7. CASE free' = free /\ job'[p] = NoJob /\ Slot(q, "unused", kstack[q], sz[q], space[q], cr3[q])
  <2>1. NewPages(job'[p]) = {} /\ job'[p].mem = Nil /\ kstack'[q] = kstack[q]
    BY <1>7, EmptyHands, NoJobIs DEF Slot
  <2> QED
    BY <1>1, <1>3, <1>4, <1>5, <1>6, <1>7, <2>1, OwnTwo
<1>8. CASE /\ free # {} /\ free' = free \ {kalloc(1)} /\ GoesOn(p, "setupkvm")
           /\ Slot(q, state[q], kalloc(1), sz[q], space[q], cr3[q])
  <2>1. kalloc(1) \in free /\ kalloc(1) # Nil
    BY <1>8, KallocOne, NilNoPage DEF TypeOK
  <2>2. NewPages(job'[p]) = {} /\ job'[p].mem = Nil /\ One(kstack'[q]) = {kalloc(1)}
    BY <1>4, <1>8, <2>1 DEF Slot, GoesOn, Call, NewPages, One
  <2>3. Apart(free', One(kstack'[q]), PagesOf(space'[q]), NewPages(job'[p]))
    BY <1>5, <1>6, <1>8, <2>1, <2>2 DEF Apart
  <2>4. free' \cup One(kstack'[q]) \cup PagesOf(space'[q]) \cup NewPages(job'[p])
           = free \cup One(kstack[q]) \cup PagesOf(space[q]) \cup NewPages(job[p])
    BY <1>4, <1>6, <1>8, <2>1, <2>2
  <2> QED
    BY <1>1, <1>3, <1>4, <1>6, <2>2, <2>3, <2>4, OwnTwo
<1> QED
  BY <1>3, <1>7, <1>8

\* The child gets what fork has built.
LEMMA ForkDoneOwn == ASSUME IInv, NEW p \in Procs, fork_done(p) PROVE OwnInv'
<1> USE DEF IInv
<1>1. state[p] = "alive" /\ job[p].pc = "page" /\ job[p].op = "fork" /\ job'[p] = NoJob
      /\ UNCHANGED <<free, useLock, kvm, code4, aps>>
  BY ForkDoneIs DEF AtPc, Built, cpus
<1>2. PICK q \in Procs \ {p} : q = job[p].child /\ job[q] = NoJob /\ space[q] = NoSpace
  BY <1>1, ChildApart
<1>3. /\ SlotSame(p) /\ job'[q] = job[q] /\ Only({p, q})
      /\ Slot(q, "alive", kstack[q], sz[p], job[p].new, job[p].new.pgdir)
  BY <1>2, ForkDoneIs
<1>4. /\ kstack'[p] = kstack[p] /\ space'[p] = space[p] /\ space'[q] = job[p].new /\ kstack'[q] = kstack[q]
  BY <1>3 DEF SlotSame, Slot
<1>5. /\ PagesOf(space[q]) = {} /\ NewPages(job[p]) = PagesOf(job[p].new) /\ NewPages(job'[p]) = {}
      /\ job[p].mem = Nil /\ job'[p].mem = Nil
  BY <1>1, <1>2, EmptyHands, NoSpaceIs, NoJobIs DEF NewPages, ProcInv, LocalOk, ProcOk
<1>6. Apart(free, One(kstack[q]), PagesOf(space[q]), NewPages(job[p]))
  BY OwnParts
<1>7. Apart(free', One(kstack'[q]), PagesOf(space'[q]), NewPages(job'[p]))
  BY <1>1, <1>4, <1>5, <1>6 DEF Apart
<1>8. free' \cup One(kstack'[q]) \cup PagesOf(space'[q]) \cup NewPages(job'[p])
         = free \cup One(kstack[q]) \cup PagesOf(space[q]) \cup NewPages(job[p])
  BY <1>1, <1>4, <1>5
<1> QED
  BY <1>1, <1>3, <1>4, <1>5, <1>7, <1>8, OwnTwo

\* Everything that fork or exec has got goes back.
LEMMA BadNewOwn == ASSUME IInv, NEW p \in Procs, bad_new(p) PROVE OwnInv'
<1> USE DEF IInv
<1>1. state[p] = "alive" /\ job[p].pc = "bad" /\ job[p].op # "grow" /\ job'[p] = NoJob /\ UNCHANGED cpus
  BY BadNewIs DEF AtPc
<1>2. /\ NewPages(job[p]) = PagesOf(job[p].new) /\ NewPages(job'[p]) = {}
      /\ job[p].mem = Nil /\ job'[p].mem = Nil
  BY <1>1, EmptyHands, NoJobIs DEF NewPages, ProcInv, LocalOk, ProcOk
<1>3. CASE job[p].op # "fork"
  <2>1. Only({p}) /\ SlotSame(p) /\ free' = free \cup PagesOf(job[p].new)
    BY <1>3, BadNewIs
  <2>2. space'[p] = space[p] /\ kstack'[p] = kstack[p] /\ One(job[p].mem) = {} /\ One(job'[p].mem) = {}
    BY <1>2, <2>1 DEF SlotSame, Slot, One
  <2>3. free' = free \cup (NewPages(job[p]) \ NewPages(job'[p])) \cup (One(job[p].mem) \ One(job'[p].mem))
    BY <1>2, <2>1, <2>2
  <2> QED
    BY <1>1, <1>2, <2>1, <2>2, <2>3, OwnGives
<1>4. CASE job[p].op = "fork"
  <2>1. PICK q \in Procs \ {p} : q = job[p].child /\ kstack[q] # Nil
    BY <1>1, <1>4, ChildApart
  <2>2. /\ SlotSame(p) /\ job'[q] = job[q] /\ Only({p, q})
        /\ free' = free \cup PagesOf(job[p].new) \cup {kstack[q]}
        /\ Slot(q, "unused", Nil, sz[q], space[q], cr3[q])
    BY <1>4, <2>1, BadNewIs
  <2>3. /\ kstack'[p] = kstack[p] /\ space'[p] = space[p] /\ space'[q] = space[q]
        /\ One(kstack'[q]) = {} /\ One(kstack[q]) = {kstack[q]}
    BY <2>1, <2>2 DEF SlotSame, Slot, One
  <2>4. Apart(free, One(kstack[q]), PagesOf(space[q]), NewPages(job[p]))
    BY OwnParts
  <2>5. Apart(free', One(kstack'[q]), PagesOf(space'[q]), NewPages(job'[p]))
    BY <1>2, <2>2, <2>3, <2>4 DEF Apart
  <2>6. free' \cup One(kstack'[q]) \cup PagesOf(space'[q]) \cup NewPages(job'[p])
           = free \cup One(kstack[q]) \cup PagesOf(space[q]) \cup NewPages(job[p])
    BY <1>2, <2>2, <2>3
  <2>7. UNCHANGED <<useLock, kvm, code4, aps>>
    BY <1>1 DEF cpus
  <2> QED
    BY <1>2, <2>2, <2>3, <2>5, <2>6, <2>7, OwnTwo
<1> QED
  BY <1>3, <1>4

\* exec and growproc start with no page of their own.
LEMMA StartCallOwn == ASSUME IInv, NEW p \in Procs, NEW n \in Sizes, exec(p, n) \/ grow(p, n) PROVE OwnInv'
<1> USE DEF IInv
<1>1. /\ job[p].pc = "idle" /\ UNCHANGED <<free, cpus>> /\ Only({p}) /\ SlotSame(p)
  BY ExecIs, GrowIs DEF Idle
<1>2. NewPages(job'[p]) = {} /\ One(job'[p].mem) = {}
  <2>1. CASE exec(p, n)
    BY <2>1, ExecIs, NoSpaceIs DEF Call, NewPages, One
  <2>2. CASE grow(p, n)
    BY <2>2, GrowIs DEF Call, NewPages, One
  <2> QED
    BY <2>1, <2>2
<1>3. NewPages(job[p]) = {} /\ One(job[p].mem) = {}
  BY <1>1, EmptyHands
<1>4. space'[p] = space[p] /\ kstack'[p] = kstack[p]
  BY <1>1 DEF SlotSame, Slot
<1> QED
  BY <1>1, <1>2, <1>3, <1>4, OwnGives

\* deallocuvm frees what it unmaps.
LEMMA ShrinkOwn == ASSUME IInv, NEW p \in Procs, NEW n \in ShrinkSizes, shrink(p, n) PROVE OwnInv'
<1> USE DEF IInv
<1>1. /\ UNCHANGED cpus /\ Only({p}) /\ job'[p] = job[p] /\ n \in 0..(sz[p] - 1)
      /\ free' = free \cup (PagesOf(space[p]) \ PagesOf(Dealloc(space[p], n)))
      /\ space'[p] = Dealloc(space[p], n) /\ kstack'[p] = kstack[p]
  BY ShrinkIs DEF Slot
<1>2. n \in 0..(KERNBASE - 1)
  BY <1>1, JobIs, RoomForOne
<1> QED
  BY <1>1, <1>2, OwnShrinks

\* So it does when growproc fails.
LEMMA BadGrowOwn == ASSUME IInv, NEW p \in Procs, bad_grow(p) PROVE OwnInv'
<1> USE DEF IInv
<1>1. /\ job[p].pc = "bad" /\ job[p].op = "grow" /\ UNCHANGED cpus /\ Only({p}) /\ job'[p] = NoJob
      /\ free' = free \cup (PagesOf(space[p]) \ PagesOf(Dealloc(space[p], sz[p])))
      /\ space'[p] = Dealloc(space[p], sz[p]) /\ kstack'[p] = kstack[p]
  BY BadGrowIs DEF Slot, AtPc
<1>2. NewPages(job[p]) = {} /\ One(job[p].mem) = {} /\ NewPages(job'[p]) = {} /\ One(job'[p].mem) = {}
  BY <1>1, EmptyHands DEF NewPages
<1>3. sz[p] \in 0..(KERNBASE - 1)
  BY JobIs
<1> QED
  BY <1>1, <1>2, <1>3, OwnShrinks

\* The directory comes from the free list, ...
LEMMA SetupkvmOwn == ASSUME IInv, NEW p \in Procs, setupkvm(p) PROVE OwnInv'
<1> USE DEF IInv
<1>1. job[p].pc = "setupkvm" /\ UNCHANGED cpus /\ Only({p}) /\ SlotSame(p)
  BY SetupkvmIs DEF AtPc
<1>2. space'[p] = space[p] /\ kstack'[p] = kstack[p]
  BY <1>1 DEF SlotSame, Slot
<1>3. CASE free' = free /\ GoesOn(p, "bad")
  <2>1. NewPages(job'[p]) = NewPages(job[p]) /\ One(job'[p].mem) = One(job[p].mem)
    BY <1>3 DEF GoesOn, Call, NewPages
  <2> QED
    BY <1>1, <1>2, <1>3, <2>1, OwnGives
<1>4. CASE /\ free # {} /\ free' = free \ {kalloc(1)}
           /\ Call(p, job[p].op, "kmap", job[p].child, [job[p].new EXCEPT !.pgdir = kalloc(1)], job[p].at,
                   job[p].size, job[p].mem)
  <2>1. NewPages(job[p]) = {} /\ job[p].new = NoSpace /\ job[p].op # "grow"
    BY <1>1, EmptyHands DEF ProcInv, LocalOk, BuildOk
  <2>2. PICK m : m = [NoSpace EXCEPT !.pgdir = kalloc(1)]
    OBVIOUS
  <2>3. kalloc(1) \in Pages \ PagesOf(NoSpace)
    BY <1>4, KallocOne, NoSpaceIs DEF TypeOK
  <2>4. PagesOf(m) = {kalloc(1)}
    BY <2>2, <2>3, NoSpaceIs, AddDir
  <2>5. job'[p].op = job[p].op /\ job'[p].new = m /\ job'[p].mem = job[p].mem
    BY <1>4, <2>1, <2>2 DEF Call
  <2>6. NewPages(job'[p]) = NewPages(job[p]) \cup {kalloc(1)}
    BY <2>1, <2>4, <2>5 DEF NewPages
  <2> QED
    BY <1>1, <1>4, <2>5, <2>6, OwnTakes
<1> QED
  BY <1>3, <1>4, SetupkvmIs

\* ... the kernel's table too, ...
LEMMA KmapOwn == ASSUME IInv, NEW p \in Procs, kmap(p) PROVE OwnInv'
<1> USE DEF IInv
<1>1. job[p].pc = "kmap" /\ UNCHANGED cpus /\ Only({p}) /\ SlotSame(p) /\ LocalOk(p)
  BY KmapIs DEF AtPc, ProcInv
<1>2. space'[p] = space[p] /\ kstack'[p] = kstack[p]
  BY <1>1 DEF SlotSame, Slot
<1>3. CASE free' = free /\ GoesOn(p, "bad")
  <2>1. NewPages(job'[p]) = NewPages(job[p]) /\ One(job'[p].mem) = One(job[p].mem)
    BY <1>3 DEF GoesOn, Call, NewPages
  <2> QED
    BY <1>1, <1>2, <1>3, <2>1, OwnGives
<1>4. CASE /\ free # {} /\ free' = free \ {kalloc(1)}
           /\ Call(p, job[p].op, "page", job[p].child, [job[p].new EXCEPT !.tabs[KTable] = kalloc(1)], job[p].at,
                   job[p].size, job[p].mem)
  <2>1. job[p].op # "grow" /\ job[p].new = [NoSpace EXCEPT !.pgdir = job[p].new.pgdir] /\ Distinct(job[p].new)
    BY <1>1 DEF LocalOk, BuildOk
  <2>2. PICK m : m = WithTab(job[p].new, KTable, kalloc(1))
    OBVIOUS
  <2>3. kalloc(1) \in Pages \ PagesOf(job[p].new)
    BY <1>4, KallocOne, NewApart DEF TypeOK
  <2>4. job[p].new.tabs[KTable] = Nil
    <3>1. job[p].new.tabs = NoSpace.tabs
      BY <2>1 DEF NoSpace
    <3> QED
      BY <3>1, NoSpaceIs
  <2>5. PagesOf(m) = PagesOf(job[p].new) \cup {kalloc(1)}
    <3>1. AddsTab(job[p].new, KTable, kalloc(1))
      BY <2>1, <2>3, <2>4, JobIs, AddTab DEF CanAdd
    <3> QED
      BY <2>2, <3>1 DEF AddsTab
  <2>6. job'[p].op = job[p].op /\ job'[p].new = m /\ job'[p].mem = job[p].mem
    BY <1>4, <2>2 DEF Call, WithTab
  <2>7. NewPages(job'[p]) = NewPages(job[p]) \cup {kalloc(1)}
    BY <2>1, <2>5, <2>6 DEF NewPages
  <2> QED
    BY <1>1, <1>4, <2>6, <2>7, OwnTakes
<1> QED
  BY <1>3, <1>4, KmapIs

\* ... and the page to be mapped.
LEMMA UvmPageOwn == ASSUME IInv, NEW p \in Procs, uvm_page(p) PROVE OwnInv'
<1> USE DEF IInv
<1>1. job[p].pc = "page" /\ UNCHANGED cpus /\ Only({p}) /\ SlotSame(p)
  BY UvmPageIs DEF AtPc
<1>2. space'[p] = space[p] /\ kstack'[p] = kstack[p]
  BY <1>1 DEF SlotSame, Slot
<1>3. CASE free' = free /\ (GoesOn(p, "bad") \/ GoesOn(p, "panic"))
  <2>1. NewPages(job'[p]) = NewPages(job[p]) /\ One(job'[p].mem) = One(job[p].mem)
    BY <1>3 DEF GoesOn, Call, NewPages
  <2> QED
    BY <1>1, <1>2, <1>3, <2>1, OwnGives
<1>4. CASE /\ free # {} /\ free' = free \ {kalloc(1)}
           /\ Call(p, job[p].op, "map", job[p].child, job[p].new, job[p].at, job[p].size, kalloc(1))
  <2>1. NewPages(job'[p]) = NewPages(job[p]) /\ job'[p].mem = kalloc(1) /\ One(job[p].mem) = {}
    BY <1>1, <1>4, EmptyHands DEF Call, NewPages
  <2> QED
    BY <1>1, <1>4, <2>1, OwnTakes
<1> QED
  BY <1>3, <1>4, UvmPageIs

\* A mapped page is the page table's, and so is a table made for it.
LEMMA MappagesOwn == ASSUME IInv, NEW p \in Procs, mappages(p) PROVE OwnInv'
<1> USE DEF IInv
<1>1. AtPc(p, "map")
  BY ZenonT(60) DEF mappages
<1>2. /\ job[p].at \in PageNos /\ job[p].mem \in Pages /\ job[p].mem # Nil /\ LocalOk(p)
  BY <1>1, MapsPage
<1>3. UNCHANGED cpus /\ Only({p})
  BY <1>2, MappagesIs
<1>4. PICK s : LET t == job[p].at \div PTPAGES
                   m == [s EXCEPT !.pg[job[p].at] = job[p].mem] IN
              /\ \/ s = job[p].new
                 \/ job[p].new.tabs[t] = Nil /\ free # {} /\ s = [job[p].new EXCEPT !.tabs[t] = kalloc(1)]
              /\ free' = free \ PagesOf(s)
              /\ \/ s = job[p].new /\ SlotSame(p) /\ GoesOn(p, "kfree")
                 \/ /\ Call(p, job[p].op, "page", job[p].child, m, job[p].at + 1, job[p].size, Nil)
                    /\ Slot(p, state[p], kstack[p], sz[p], IF job[p].op = "grow" THEN m ELSE space[p], cr3[p])
  BY <1>2, MappagesIs
<1>5. PICK m : m = WithPage(s, job[p].at, job[p].mem)
  OBVIOUS
<1>6. /\ s = job[p].new \/ (job[p].new.tabs[job[p].at \div PTPAGES] = Nil /\ free # {}
                            /\ s = WithTab(job[p].new, job[p].at \div PTPAGES, kalloc(1)))
      /\ free' = free \ PagesOf(s)
      /\ \/ s = job[p].new /\ SlotSame(p) /\ GoesOn(p, "kfree")
         \/ /\ Call(p, job[p].op, "page", job[p].child, m, job[p].at + 1, job[p].size, Nil)
            /\ Slot(p, state[p], kstack[p], sz[p], IF job[p].op = "grow" THEN m ELSE space[p], cr3[p])
  BY <1>4, <1>5 DEF WithPage, WithTab
<1>7. /\ PagesOf(m) = PagesOf(s) \cup {job[p].mem} /\ job[p].mem \notin PagesOf(s)
      /\ \/ PagesOf(s) = PagesOf(job[p].new) /\ s = job[p].new
         \/ PagesOf(s) = PagesOf(job[p].new) \cup {kalloc(1)} /\ kalloc(1) \in free
  BY <1>1, <1>5, <1>6, MapsInto
<1>8. PagesOf(job[p].new) \cap free = {} /\ job[p].mem \notin free /\ job[p].mem \notin PagesOf(job[p].new)
  BY NewApart
<1>9. Apart(free, PagesOf(space[p]), NewPages(job[p]), One(job[p].mem))
  BY OwnParts
<1>10. One(job[p].mem) = {job[p].mem}
  BY <1>2 DEF One
<1>11. CASE s = job[p].new /\ SlotSame(p) /\ GoesOn(p, "kfree")
  <2>1. free' = free /\ space'[p] = space[p] /\ kstack'[p] = kstack[p]
    BY <1>6, <1>8, <1>11 DEF SlotSame, Slot
  <2>2. NewPages(job'[p]) = NewPages(job[p]) /\ One(job'[p].mem) = One(job[p].mem)
    BY <1>11 DEF GoesOn, Call, NewPages
  <2> QED
    BY <1>3, <2>1, <2>2, OwnGives
<1>12. CASE /\ Call(p, job[p].op, "page", job[p].child, m, job[p].at + 1, job[p].size, Nil)
            /\ Slot(p, state[p], kstack[p], sz[p], IF job[p].op = "grow" THEN m ELSE space[p], cr3[p])
  <2>1. job'[p].op = job[p].op /\ job'[p].new = m /\ One(job'[p].mem) = {} /\ kstack'[p] = kstack[p]
    BY <1>12 DEF Call, Slot, One
  <2>2. PICK N : N = PagesOf(job[p].new)
    OBVIOUS
  <2>3. PICK M : M = PagesOf(m)
    OBVIOUS
  <2>4. /\ M = PagesOf(s) \cup {job[p].mem} /\ free' = free \ PagesOf(s) /\ N \cap free = {}
        /\ job[p].mem \notin free /\ job[p].mem \notin N
        /\ PagesOf(s) = N \/ (PagesOf(s) = N \cup {kalloc(1)} /\ kalloc(1) \in free)
    BY <1>6, <1>7, <1>8, <2>2, <2>3
  <2>5. free' \cap M = {} /\ free' \cup M = free \cup N \cup {job[p].mem} /\ free' \subseteq free
        /\ M \subseteq N \cup {job[p].mem} \cup free
    BY <2>4
  <2>6. CASE job[p].op = "grow"
    <3>1. /\ PagesOf(space[p]) = N /\ PagesOf(space'[p]) = M
          /\ NewPages(job[p]) = {} /\ NewPages(job'[p]) = {}
      BY <1>2, <1>12, <2>1, <2>2, <2>3, <2>6 DEF LocalOk, BuildOk, Slot, NewPages
    <3>2. Apart(free', PagesOf(space'[p]), NewPages(job'[p]), One(job'[p].mem))
      BY <2>1, <2>5, <3>1 DEF Apart
    <3>3. free' \cup PagesOf(space'[p]) \cup NewPages(job'[p]) \cup One(job'[p].mem)
             = free \cup PagesOf(space[p]) \cup NewPages(job[p]) \cup One(job[p].mem)
      BY <1>10, <2>1, <2>5, <3>1
    <3> QED
      BY <1>3, <2>1, <3>2, <3>3, OwnOne
  <2>7. CASE job[p].op # "grow"
    <3>1. /\ PagesOf(space'[p]) = PagesOf(space[p])
          /\ NewPages(job[p]) = N /\ NewPages(job'[p]) = M
      BY <1>12, <2>1, <2>2, <2>3, <2>7 DEF Slot, NewPages
    <3>2. Apart(free', PagesOf(space'[p]), NewPages(job'[p]), One(job'[p].mem))
      BY <1>9, <1>10, <2>1, <2>5, <3>1 DEF Apart
    <3>3. free' \cup PagesOf(space'[p]) \cup NewPages(job'[p]) \cup One(job'[p].mem)
             = free \cup PagesOf(space[p]) \cup NewPages(job[p]) \cup One(job[p].mem)
      BY <1>10, <2>1, <2>5, <3>1
    <3> QED
      BY <1>3, <2>1, <3>2, <3>3, OwnOne
  <2> QED
    BY <2>6, <2>7
<1> QED
  BY <1>6, <1>11, <1>12

\* The page that could not be mapped goes back.
LEMMA UnmappedOwn == ASSUME IInv, NEW p \in Procs, unmapped(p) PROVE OwnInv'
<1> USE DEF IInv
<1>1. /\ job[p].pc = "kfree" /\ UNCHANGED cpus /\ Only({p}) /\ SlotSame(p) /\ free' = free \cup {job[p].mem}
      /\ Call(p, job[p].op, "bad", job[p].child, job[p].new, job[p].at, job[p].size, Nil)
  BY UnmappedIs DEF AtPc
<1>2. One(job[p].mem) = {job[p].mem} /\ One(job'[p].mem) = {} /\ NewPages(job'[p]) = NewPages(job[p])
  BY <1>1 DEF ProcInv, LocalOk, ProcOk, Call, One, NewPages
<1>3. space'[p] = space[p] /\ kstack'[p] = kstack[p]
  BY <1>1 DEF SlotSame, Slot
<1> QED
  BY <1>1, <1>2, <1>3, OwnGives

\* Steps that move no page.
LEMMA StaysOwn == ASSUME IInv, NEW p \in Procs, exec_error(p) \/ switchuvm(p) \/ exit(p) PROVE OwnInv'
<1> USE DEF IInv
<1>1. /\ UNCHANGED <<free, cpus>> /\ Only({p})
  BY ExecErrorIs, SwitchuvmIs, ExitIs
<1>2. space'[p] = space[p] /\ kstack'[p] = kstack[p]
  BY ExecErrorIs, SwitchuvmIs, ExitIs DEF SlotSame, Slot
<1>3. job'[p].op = job[p].op /\ job'[p].new = job[p].new /\ job'[p].mem = job[p].mem
  BY ZenonT(60), ExecErrorIs, SwitchuvmIs, ExitIs DEF GoesOn, Call
<1>4. NewPages(job'[p]) = NewPages(job[p])
  BY <1>3 DEF NewPages
<1> QED
  BY <1>1, <1>2, <1>3, <1>4, OwnGives

\* growproc has put its pages in the page table already.
LEMMA GrowDoneOwn == ASSUME IInv, NEW p \in Procs, grow_done(p) PROVE OwnInv'
<1> USE DEF IInv
<1>1. /\ job[p].pc = "page" /\ job[p].op = "grow" /\ UNCHANGED <<free, cpus>> /\ Only({p}) /\ job'[p] = NoJob
      /\ space'[p] = space[p] /\ kstack'[p] = kstack[p]
  BY GrowDoneIs DEF Built, AtPc, Slot
<1>2. NewPages(job[p]) = {} /\ One(job[p].mem) = {} /\ NewPages(job'[p]) = {} /\ One(job'[p].mem) = {}
  BY <1>1, EmptyHands DEF NewPages
<1> QED
  BY <1>1, <1>2, OwnGives

\* The old page table is exec's to free, the new one the process's.
LEMMA ExecCommitOwn == ASSUME IInv, NEW p \in Procs, exec_commit(p) PROVE OwnInv'
<1> USE DEF IInv
<1>1. /\ job[p].pc = "page" /\ job[p].op = "exec" /\ UNCHANGED <<free, cpus>> /\ Only({p})
      /\ space'[p] = job[p].new /\ kstack'[p] = kstack[p]
      /\ job'[p].op = job[p].op /\ job'[p].new = space[p] /\ job'[p].mem = job[p].mem
  BY ExecCommitIs DEF Built, AtPc, Slot, Call
<1>2. NewPages(job[p]) = PagesOf(job[p].new) /\ NewPages(job'[p]) = PagesOf(space[p])
  BY <1>1 DEF NewPages
<1>3. Apart(free, PagesOf(space[p]), NewPages(job[p]), One(job[p].mem))
  BY OwnParts
<1>4. Apart(free', PagesOf(space'[p]), NewPages(job'[p]), One(job'[p].mem))
  BY <1>1, <1>2, <1>3 DEF Apart
<1>5. free' \cup PagesOf(space'[p]) \cup NewPages(job'[p]) \cup One(job'[p].mem)
         = free \cup PagesOf(space[p]) \cup NewPages(job[p]) \cup One(job[p].mem)
  BY <1>1, <1>2
<1> QED
  BY <1>1, <1>4, <1>5, OwnOne

\* freevm frees the old page table.
LEMMA ExecFreevmOwn == ASSUME IInv, NEW p \in Procs, exec_freevm(p) PROVE OwnInv'
<1> USE DEF IInv
<1>1. /\ job[p].pc = "freevm" /\ UNCHANGED cpus /\ Only({p}) /\ SlotSame(p) /\ job'[p] = NoJob
      /\ free' = free \cup PagesOf(job[p].new)
  BY ExecFreevmIs DEF AtPc
<1>2. space'[p] = space[p] /\ kstack'[p] = kstack[p]
  BY <1>1 DEF SlotSame, Slot
<1>3. NewPages(job[p]) = PagesOf(job[p].new)
  BY <1>1 DEF NewPages, ProcInv, LocalOk, BuildOk
<1>4. One(job[p].mem) = {} /\ NewPages(job'[p]) = {} /\ One(job'[p].mem) = {}
  BY <1>1, EmptyHands
<1>5. free' = free \cup (NewPages(job[p]) \ NewPages(job'[p])) \cup (One(job[p].mem) \ One(job'[p].mem))
  BY <1>1, <1>3, <1>4
<1> QED
  BY <1>1, <1>2, <1>3, <1>4, <1>5, OwnGives

\* wait frees everything that a zombie has.
LEMMA WaitOwn == ASSUME IInv, NEW p \in Procs, NEW q \in Procs, wait(p, q) PROVE OwnInv'
<1> USE DEF IInv
<1>1. /\ state[q] = "zombie" /\ UNCHANGED cpus /\ Only({q}) /\ job'[q] = job[q]
      /\ free' = free \cup {kstack[q]} \cup PagesOf(space[q]) /\ kstack'[q] = Nil /\ space'[q] = NoSpace
  BY WaitIs DEF Slot
<1>2. /\ One(kstack[q]) = {kstack[q]} /\ One(kstack'[q]) = {} /\ PagesOf(space'[q]) = {}
  BY <1>1, NoSpaceIs DEF One, ProcInv, LocalOk, ProcOk
<1>3. Apart(free, One(kstack[q]), PagesOf(space[q]), NewPages(job[q]))
  BY OwnParts
<1>4. Apart(free', One(kstack'[q]), PagesOf(space'[q]), NewPages(job'[q]))
  BY <1>1, <1>2, <1>3 DEF Apart
<1>5. free' \cup One(kstack'[q]) \cup PagesOf(space'[q]) \cup NewPages(job'[q])
         = free \cup One(kstack[q]) \cup PagesOf(space[q]) \cup NewPages(job[q])
  BY <1>1, <1>2
<1>6. UNCHANGED <<useLock, kvm, code4, aps>> /\ Only({q, q})
  BY <1>1 DEF cpus
<1> QED
  BY <1>1, <1>4, <1>5, <1>6, OwnTwo

\* init's stack and page table come from the free list.
LEMMA UserinitOwn == ASSUME IInv, userinit PROVE OwnInv'
<1> USE DEF IInv
<1>1. /\ 1 \in Procs /\ boot.pc = "userinit" /\ Cardinality(free) >= 5 /\ Only({1}) /\ job'[1] = job[1]
      /\ UNCHANGED <<useLock, kvm, code4, aps>>
  BY UserinitIs
<1>2. PICK s : /\ s = [NoSpace EXCEPT !.pgdir = kalloc(2), !.tabs[KTable] = kalloc(3), !.tabs[0] = kalloc(5),
                                      !.pg[0] = kalloc(4)]
               /\ free' = free \ (PagesOf(s) \cup {kalloc(1)})
               /\ Slot(1, "alive", kalloc(1), PGSIZE, s, s.pgdir)
  BY UserinitIs
<1>3. PagesOf(s) \subseteq free /\ kalloc(1) \in free /\ kalloc(1) \notin PagesOf(s)
  BY <1>1, <1>2, InitSpace
<1>4. state[1] = "unused" /\ LocalOk(1)
  BY <1>1 DEF BootInv, ProcInv
<1>5. PagesOf(space[1]) = {} /\ One(kstack[1]) = {} /\ NewPages(job[1]) = {}
  BY <1>1, <1>4, NoSpaceIs, EmptyHands DEF LocalOk, ProcOk, One
<1>6. One(kstack'[1]) = {kalloc(1)} /\ space'[1] = s
  BY <1>2, <1>3, NilNoPage DEF Slot, One, TypeOK
<1>7. Apart(free', One(kstack'[1]), PagesOf(space'[1]), NewPages(job'[1]))
  BY <1>1, <1>2, <1>3, <1>5, <1>6 DEF Apart
<1>8. free' \cup One(kstack'[1]) \cup PagesOf(space'[1]) \cup NewPages(job'[1])
         = free \cup One(kstack[1]) \cup PagesOf(space[1]) \cup NewPages(job[1])
  BY <1>1, <1>2, <1>3, <1>5, <1>6
<1>9. Only({1, 1})
  BY <1>1
<1> QED
  BY <1>1, <1>7, <1>8, <1>9, OwnTwo

\* kpgdir comes from the free list, ...
LEMMA KvmallocOwn == ASSUME IInv, kvmalloc PROVE OwnInv'
<1> USE DEF IInv
<1>1. boot.pc = "kvmalloc" /\ ProcsSame /\ UNCHANGED <<useLock, code4, aps>>
  BY DEF kvmalloc, ProcsSame
<1>2. PagesOf(kvm) = {}
  BY <1>1, NoSpaceIs DEF BootInv
<1>3. PagesOf(kvm') \subseteq free /\ free' = free \ PagesOf(kvm')
  <2>1. CASE Cardinality(free) >= 2
    BY <2>1, KvmSpace, KallocTwo DEF kvmalloc
  <2>2. CASE ~(Cardinality(free) >= 2)
    BY <1>2, <2>2 DEF kvmalloc
  <2> QED
    BY <2>1, <2>2
<1>4. PICK h, k : h = <<"free", 0>> /\ k = <<"kvm", 0>>
  OBVIOUS
<1>5. h \in Holders /\ k \in Holders /\ h # k /\ h[1] = "free" /\ k[1] = "kvm"
  BY <1>4 DEF Holders
<1>6. Has(h) = free /\ Has(k) = PagesOf(kvm) /\ Has(h)' = free' /\ Has(k)' = PagesOf(kvm')
  BY <1>5, HasIs, HasNext
<1>7. ASSUME NEW i \in Holders \ {h, k} PROVE i[1] \notin {"free", "kvm"}
  <2>1. \E x, y : i = <<x, y>>
    BY DEF Holders
  <2> QED
    BY <1>4, <2>1, HolderIs
<1>8. Has(h)' \cap Has(k)' = {} /\ Has(h)' \cup Has(k)' = Has(h) \cup Has(k)
  BY <1>1, <1>2, <1>3, <1>6
<1> QED
  BY <1>1, <1>5, <1>7, <1>8, OwnKernel

\* ... and so do the stacks of the CPUs, ...
LEMMA StartothersOwn == ASSUME IInv, startothers PROVE OwnInv'
<1> USE DEF IInv
<1>1. /\ boot.pc = "startothers" /\ ProcsSame /\ UNCHANGED <<useLock, kvm>> /\ boot.ap \in APs
      /\ free' = free \ {code4'} /\ code4' = (IF free = {} THEN Nil ELSE kalloc(1))
      /\ aps' = [aps EXCEPT ![boot.ap].pc = "entry"]
  BY DEF startothers, ProcsSame
<1>2. {code4'} \ {Nil} \subseteq free /\ Nil \notin free /\ code4 = Nil
  BY <1>1, KallocOne, NilNoPage DEF TypeOK, BootInv
<1>3. \A c \in APs : aps'[c].stack = aps[c].stack
  BY <1>1 DEF TypeOK, ApType
<1>4. PICK h, k : h = <<"free", 0>> /\ k = <<"code4", 0>>
  OBVIOUS
<1>5. h \in Holders /\ k \in Holders /\ h # k /\ h[1] = "free" /\ k[1] = "code4"
  BY <1>4 DEF Holders
<1>6. Has(h) = free /\ Has(k) = {} /\ Has(h)' = free' /\ Has(k)' = {code4'} \ {Nil}
  BY <1>1, <1>2, <1>5, HasIs, HasNext
<1>7. ASSUME NEW i \in Holders \ {h, k}
      PROVE  i[1] \notin {"free", "code4"} /\ (i[1] = "ap" => aps'[i[2]].stack = aps[i[2]].stack)
  <2>1. \E x, y : i = <<x, y>>
    BY DEF Holders
  <2> QED
    BY <1>3, <1>4, <2>1, HolderIs
<1>8. Has(h)' \cap Has(k)' = {} /\ Has(h)' \cup Has(k)' = Has(h) \cup Has(k)
  BY <1>1, <1>2, <1>6
<1> QED
  BY <1>1, <1>5, <1>7, <1>8, OwnKernel

\* ... which take them from code-4.
LEMMA EntryotherOwn == ASSUME IInv, NEW c \in APs, entryother(c) PROVE OwnInv'
<1> USE DEF IInv
<1>1. /\ aps[c].pc = "entry" /\ ProcsSame /\ UNCHANGED <<free, useLock, boot, kvm>> /\ code4' = Nil
      /\ aps' = [aps EXCEPT ![c] = [pc |-> "mpenter", stack |-> code4]]
  BY DEF entryother, ProcsSame
<1>2. aps[c].stack = Nil
  BY <1>1 DEF BootInv
<1>3. aps'[c].stack = code4 /\ \A d \in APs \ {c} : aps'[d] = aps[d]
  BY <1>1 DEF TypeOK
<1>4. PICK h, k : h = <<"code4", 0>> /\ k = <<"ap", c>>
  OBVIOUS
<1>5. h \in Holders /\ k \in Holders /\ h # k /\ h[1] = "code4" /\ k[1] = "ap" /\ k[2] = c
  BY <1>4 DEF Holders
<1>6. Has(h) = {code4} \ {Nil} /\ Has(k) = {} /\ Has(h)' = {} /\ Has(k)' = {code4} \ {Nil}
  BY <1>1, <1>2, <1>3, <1>5, HasIs, HasNext
<1>7. ASSUME NEW i \in Holders \ {h, k}
      PROVE  i[1] # "code4" /\ (i[1] = "ap" => aps'[i[2]].stack = aps[i[2]].stack)
  <2>1. \E x, y : i = <<x, y>>
    BY DEF Holders
  <2> QED
    BY <1>3, <1>4, <2>1, HolderIs
<1>8. Has(h)' \cap Has(k)' = {} /\ Has(h)' \cup Has(k)' = Has(h) \cup Has(k)
  BY <1>6
<1> QED
  BY <1>1, <1>5, <1>7, <1>8, OwnKernel

\* Steps of the start that move no page.
LEMMA BootStaysOwn == ASSUME IInv, startnext \/ allstarted \/ kinit2_read \/ (\E c \in APs : mpenter(c)) PROVE OwnInv'
<1> USE DEF IInv
<1>1. ProcsSame /\ UNCHANGED <<free, useLock, kvm, code4>>
  BY DEF startnext, allstarted, kinit2_read, mpenter, ProcsSame
<1>2. \A c \in APs : aps'[c].stack = aps[c].stack
  <2>1. CASE \E c \in APs : mpenter(c)
    BY <2>1 DEF mpenter, TypeOK, ApType
  <2>2. CASE startnext \/ allstarted \/ kinit2_read
    BY <2>2 DEF startnext, allstarted, kinit2_read
  <2> QED
    BY <2>1, <2>2
<1>3. ASSUME NEW i \in Holders PROVE Has(i)' = Has(i)
  <2>1. i[1] = "ap" => i[2] \in APs
    BY HolderIs
  <2> QED
    BY <1>1, <1>2, <2>1, HasKept DEF ProcsSame
<1> QED
  BY <1>1, <1>3, OwnSame

\* kinit2 adds pages that nobody has, to the list that there is.
LEMMA Kinit2WriteOwn == ASSUME IInv, kinit2_write PROVE OwnInv'
<1> USE DEF IInv
<1>1. /\ ProcsSame /\ UNCHANGED <<kvm, code4, aps>> /\ useLock' = TRUE
      /\ free' = boot.seen \cup ((NLow + 1)..(NLow + NHigh))
  BY DEF kinit2_write, ProcsSame
<1>2. boot.seen = free /\ ~useLock
  BY Kinit2WriteDoes
<1>3. PICK High : High = (NLow + 1)..(NLow + NHigh)
  OBVIOUS
<1>4. Managed = 1..NLow /\ Managed' = Pages /\ Managed \cup High = Pages /\ Managed \cap High = {} /\ High \subseteq Pages
  BY <1>1, <1>2, <1>3, MemoryAssumption DEF Managed, Pages
<1>5. PICK f : f = <<"free", 0>>
  OBVIOUS
<1>6. f \in Holders /\ f[1] = "free"
  BY <1>5 DEF Holders
<1>7. Has(f) = free /\ Has(f)' = free \cup High
  BY <1>1, <1>2, <1>3, <1>6, HasIs, HasNext
<1>8. ASSUME NEW i \in Holders \ {f} PROVE Has(i)' = Has(i)
  <2>1. i[1] # "free"
    <3>1. \E x, y : i = <<x, y>>
      BY DEF Holders
    <3> QED
      BY <1>5, <3>1, HolderIs
  <2> QED
    BY <1>1, <2>1, HasKept DEF ProcsSame
<1>9. ASSUME NEW i \in Holders PROVE Has(i) \cap High = {}
  BY <1>4 DEF OwnInv
<1>10. ASSUME NEW i \in Holders, NEW j \in Holders, i # j PROVE Has(i)' \cap Has(j)' = {}
  <2>1. Has(i) \cap Has(j) = {} /\ Has(i) \cap High = {} /\ Has(j) \cap High = {}
    BY <1>9, <1>10 DEF OwnInv
  <2>2. CASE i = f
    BY <1>7, <1>8, <1>10, <2>1, <2>2
  <2>3. CASE j = f
    BY <1>7, <1>8, <1>10, <2>1, <2>3
  <2>4. CASE i # f /\ j # f
    BY <1>8, <2>1, <2>4
  <2> QED
    BY <2>2, <2>3, <2>4
<1>11. ASSUME NEW g \in Pages PROVE \E i \in Holders : g \in Has(i)'
  <2>1. CASE g \in High
    BY <1>6, <1>7, <2>1
  <2>2. CASE g \in Managed
    <3>1. PICK i \in Holders : g \in Has(i)
      BY <2>2 DEF OwnInv
    <3>2. CASE i = f
      BY <1>7, <3>1, <3>2
    <3>3. CASE i # f
      BY <1>8, <3>1, <3>3
    <3> QED
      BY <3>2, <3>3
  <2> QED
    BY <1>4, <2>1, <2>2
<1> QED
  BY <1>4, <1>10, <1>11 DEF OwnInv

\* Types after a step of a process, ...
LEMMA TypeRun == ASSUME IInv, NEW p \in Procs, Run(p) PROVE TypeOK'
<1>1. CASE fork(p)
  BY <1>1, ForkTyped
<1>2. CASE allocproc(p)
  BY <1>2, AllocprocTyped
<1>3. CASE fork_done(p)
  BY <1>3, ForkDoneTyped
<1>4. CASE setupkvm(p)
  BY <1>4, SetupkvmTyped
<1>5. CASE kmap(p)
  BY <1>5, KmapTyped
<1>6. CASE uvm_page(p)
  BY <1>6, UvmPageTyped
<1>7. CASE mappages(p)
  BY <1>7, MappagesTyped
<1>8. CASE unmapped(p)
  BY <1>8, UnmappedTyped
<1>9. CASE grow_done(p)
  BY <1>9, GrowDoneTyped
<1>10. CASE bad_grow(p)
  BY <1>10, BadGrowTyped
<1>11. CASE bad_new(p)
  BY <1>11, BadNewTyped
<1>12. CASE exec_error(p)
  BY <1>12, ExecErrorTyped
<1>13. CASE exec_commit(p)
  BY <1>13, ExecCommitTyped
<1>14. CASE switchuvm(p)
  BY <1>14, SwitchuvmTyped
<1>15. CASE exec_freevm(p)
  BY <1>15, ExecFreevmTyped
<1>16. CASE exit(p)
  BY <1>16, ExitTyped
<1>17. ASSUME NEW n \in Sizes, exec(p, n) PROVE TypeOK'
  BY <1>17, ExecTyped
<1>18. ASSUME NEW n \in Sizes, grow(p, n) PROVE TypeOK'
  BY <1>18, GrowTyped
<1>19. ASSUME NEW n \in ShrinkSizes, shrink(p, n) PROVE TypeOK'
  BY <1>19, ShrinkTyped
<1>20. ASSUME NEW q \in Procs, wait(p, q) PROVE TypeOK'
  BY <1>20, WaitTyped
<1> QED
  BY <1>1, <1>2, <1>3, <1>4, <1>5, <1>6, <1>7, <1>8, <1>9, <1>10, <1>11, <1>12, <1>13, <1>14, <1>15, <1>16, <1>17, <1>18, <1>19, <1>20 DEF Run

\* ... ProcInv, ...
LEMMA ProcRun == ASSUME IInv, NEW p \in Procs, Run(p) PROVE ProcInv'
<1>1. CASE fork(p)
  BY <1>1, ForkLocal
<1>2. CASE allocproc(p)
  BY <1>2, AllocprocLocal
<1>3. CASE fork_done(p)
  BY <1>3, ForkDoneLocal
<1>4. CASE setupkvm(p)
  BY <1>4, SetupkvmLocal
<1>5. CASE kmap(p)
  BY <1>5, KmapLocal
<1>6. CASE uvm_page(p)
  BY <1>6, UvmPageLocal
<1>7. CASE mappages(p)
  BY <1>7, MappagesLocal
<1>8. CASE unmapped(p)
  BY <1>8, UnmappedLocal
<1>9. CASE grow_done(p)
  BY <1>9, GrowDoneLocal
<1>10. CASE bad_grow(p)
  BY <1>10, BadGrowLocal
<1>11. CASE bad_new(p)
  BY <1>11, BadNewLocal
<1>12. CASE exec_error(p)
  BY <1>12, ExecErrorLocal
<1>13. CASE exec_commit(p)
  BY <1>13, ExecCommitLocal
<1>14. CASE switchuvm(p)
  BY <1>14, SwitchuvmLocal
<1>15. CASE exec_freevm(p)
  BY <1>15, ExecFreevmLocal
<1>16. CASE exit(p)
  BY <1>16, ExitLocal
<1>17. ASSUME NEW n \in Sizes, exec(p, n) PROVE ProcInv'
  BY <1>17, ExecLocal
<1>18. ASSUME NEW n \in Sizes, grow(p, n) PROVE ProcInv'
  BY <1>18, GrowLocal
<1>19. ASSUME NEW n \in ShrinkSizes, shrink(p, n) PROVE ProcInv'
  BY <1>19, ShrinkLocal
<1>20. ASSUME NEW q \in Procs, wait(p, q) PROVE ProcInv'
  BY <1>20, WaitLocal
<1> QED
  BY <1>1, <1>2, <1>3, <1>4, <1>5, <1>6, <1>7, <1>8, <1>9, <1>10, <1>11, <1>12, <1>13, <1>14, <1>15, <1>16, <1>17, <1>18, <1>19, <1>20 DEF Run

\* ... and OwnInv.
LEMMA OwnRun == ASSUME IInv, NEW p \in Procs, Run(p) PROVE OwnInv'
<1>1. CASE fork(p)
  BY <1>1, ForkOwn
<1>2. CASE allocproc(p)
  BY <1>2, AllocprocOwn
<1>3. CASE fork_done(p)
  BY <1>3, ForkDoneOwn
<1>4. CASE setupkvm(p)
  BY <1>4, SetupkvmOwn
<1>5. CASE kmap(p)
  BY <1>5, KmapOwn
<1>6. CASE uvm_page(p)
  BY <1>6, UvmPageOwn
<1>7. CASE mappages(p)
  BY <1>7, MappagesOwn
<1>8. CASE unmapped(p)
  BY <1>8, UnmappedOwn
<1>9. CASE grow_done(p)
  BY <1>9, GrowDoneOwn
<1>10. CASE bad_grow(p)
  BY <1>10, BadGrowOwn
<1>11. CASE bad_new(p)
  BY <1>11, BadNewOwn
<1>12. CASE exec_error(p)
  BY <1>12, StaysOwn
<1>13. CASE exec_commit(p)
  BY <1>13, ExecCommitOwn
<1>14. CASE switchuvm(p)
  BY <1>14, StaysOwn
<1>15. CASE exec_freevm(p)
  BY <1>15, ExecFreevmOwn
<1>16. CASE exit(p)
  BY <1>16, StaysOwn
<1>17. ASSUME NEW n \in Sizes, exec(p, n) PROVE OwnInv'
  BY <1>17, StartCallOwn
<1>18. ASSUME NEW n \in Sizes, grow(p, n) PROVE OwnInv'
  BY <1>18, StartCallOwn
<1>19. ASSUME NEW n \in ShrinkSizes, shrink(p, n) PROVE OwnInv'
  BY <1>19, ShrinkOwn
<1>20. ASSUME NEW q \in Procs, wait(p, q) PROVE OwnInv'
  BY <1>20, WaitOwn
<1> QED
  BY <1>1, <1>2, <1>3, <1>4, <1>5, <1>6, <1>7, <1>8, <1>9, <1>10, <1>11, <1>12, <1>13, <1>14, <1>15, <1>16, <1>17, <1>18, <1>19, <1>20 DEF Run

-----------------------------------------------------------------------------
(***************************************************************************)
(* The invariant.                                                          *)
(***************************************************************************)
\* Every step of a process keeps it.
LEMMA RunKeeps == ASSUME IInv, NEW p \in Procs, Run(p) PROVE IInv'
<1>1. Distinct(kvm')
  BY RunAlive DEF IInv, cpus
<1> QED
  BY <1>1, TypeRun, BootRun, ProcRun, ChildRun, OwnRun DEF IInv

\* Every step of main keeps it.
LEMMA MainKeeps == ASSUME IInv, Main PROVE IInv'
<1>1. CASE kvmalloc
  <2>1. ProcsSame
    BY <1>1 DEF kvmalloc, ProcsSame
  <2> QED
    BY <1>1, <2>1, KvmallocDoes, KvmallocOwn, ChildSame DEF IInv
<1>2. CASE startothers
  <2>1. ProcsSame /\ kvm' = kvm
    BY <1>2 DEF startothers, ProcsSame
  <2> QED
    BY <1>2, <2>1, StartothersDoes, StartothersOwn, ChildSame DEF IInv
<1>3. CASE startnext
  <2>1. ProcsSame /\ kvm' = kvm
    BY <1>3 DEF startnext, ProcsSame
  <2> QED
    BY <1>3, <2>1, StartnextDoes, BootStaysOwn, ChildSame DEF IInv
<1>4. CASE allstarted
  <2>1. ProcsSame /\ kvm' = kvm
    BY <1>4 DEF allstarted, ProcsSame
  <2> QED
    BY <1>4, <2>1, AllstartedDoes, BootStaysOwn, ChildSame DEF IInv
<1>5. CASE kinit2_read
  <2>1. ProcsSame /\ kvm' = kvm
    BY <1>5 DEF kinit2_read, ProcsSame
  <2> QED
    BY <1>5, <2>1, Kinit2ReadDoes, BootStaysOwn, ChildSame DEF IInv
<1>6. CASE kinit2_write
  <2>1. ProcsSame /\ kvm' = kvm
    BY <1>6 DEF kinit2_write, ProcsSame
  <2> QED
    BY <1>6, <2>1, Kinit2WriteDoes, Kinit2WriteOwn, ChildSame DEF IInv
<1>7. CASE userinit
  <2>1. kvm' = kvm
    BY <1>7 DEF userinit
  <2> QED
    BY <1>7, <2>1, UserinitDoes, UserinitOwn, UserinitLocal, UserinitChild DEF IInv
<1> QED
  BY <1>1, <1>2, <1>3, <1>4, <1>5, <1>6, <1>7 DEF Main

\* So do the other CPUs when they start.
LEMMA ApKeeps == ASSUME IInv, NEW c \in APs, entryother(c) \/ mpenter(c) PROVE IInv'
<1>1. ProcsSame /\ kvm' = kvm
  BY DEF entryother, mpenter, ProcsSame
<1>2. CASE entryother(c)
  BY <1>1, <1>2, EntryotherDoes, EntryotherOwn, ChildSame DEF IInv
<1>3. CASE mpenter(c)
  BY <1>1, <1>3, MpenterDoes, BootStaysOwn, ChildSame DEF IInv
<1> QED
  BY <1>2, <1>3

\* A step that changes nothing keeps it.
LEMMA StutterKeeps == ASSUME IInv, UNCHANGED vars PROVE IInv'
<1>1. ProcsSame /\ UNCHANGED <<free, useLock, boot, kvm, code4, aps>>
  BY DEF vars, ProcsSame
<1>2. TypeOK' /\ BootInv'
  BY <1>1 DEF IInv, TypeOK, BootInv, ProcsSame
<1>3. OwnInv'
  <2>1. ASSUME NEW i \in Holders PROVE Has(i)' = Has(i)
    BY <1>1, HasKept DEF ProcsSame
  <2> QED
    BY <1>1, <2>1, OwnSame DEF IInv
<1> QED
  BY <1>1, <1>2, <1>3, ChildSame DEF IInv

\* Every step keeps it.
LEMMA Inductive == IInv /\ [Next]_vars => IInv'
<1> SUFFICES ASSUME IInv, [Next]_vars PROVE IInv'
  OBVIOUS
<1> QED
  BY MainKeeps, ApKeeps, RunKeeps, StutterKeeps DEF Next

\* It holds at the start: the free list has all the pages that there are.
LEMMA InitInv == Init => IInv
<1> SUFFICES ASSUME Init PROVE IInv
  OBVIOUS
<1> USE DEF Init
<1>1. TypeOK
  <2>1. free \subseteq Pages /\ useLock \in BOOLEAN /\ code4 \in Pages \cup {Nil}
    <3>1. 1..NLow \subseteq Pages
      BY MemoryAssumption DEF Pages
    <3> QED
      BY <3>1
  <2>2. boot \in BootType
    BY MemoryAssumption DEF BootType
  <2>3. kvm \in SpaceType /\ space \in [Procs -> SpaceType]
    BY NoSpaceIs
  <2>4. aps \in [APs -> ApType]
    BY DEF ApType
  <2>5. job \in [Procs -> JobType]
    BY NoJobTyped
  <2>6. sz \in [Procs -> 0..(KERNBASE - 1)]
    <3>1. 0 \in 0..(KERNBASE - 1)
      BY RoomForOne, MemoryAssumption
    <3> QED
      BY <3>1
  <2>7. /\ state \in [Procs -> {"unused", "embryo", "alive", "zombie"}]
        /\ kstack \in [Procs -> Pages \cup {Nil}] /\ cr3 \in [Procs -> Pages \cup {Nil}]
    OBVIOUS
  <2> QED
    BY <2>1, <2>2, <2>3, <2>4, <2>5, <2>6, <2>7 DEF TypeOK
<1>2. BootInv
  BY DEF BootInv
<1>3. ASSUME NEW p \in Procs PROVE LocalOk(p) /\ ForkOk(p)
  <2>1. /\ state[p] = "unused" /\ job[p] = NoJob /\ space[p] = NoSpace /\ kstack[p] = Nil /\ sz[p] = 0
    OBVIOUS
  <2>2. ProcOk(p) /\ ForkOk(p)
    BY <2>1, NoJobIs DEF ProcOk, ForkOk
  <2>3. BuildOk(p)
    BY <2>1, NoJobIs, PagesOfOne DEF BuildOk, Target
  <2>4. SizeOk(p) /\ Cr3Ok(p) /\ Distinct(space[p]) /\ Distinct(job[p].new)
    BY <2>1, NoJobIs, NoSpaceIs DEF SizeOk, Cr3Ok
  <2> QED
    BY <2>2, <2>3, <2>4 DEF LocalOk
<1>4. ProcInv /\ ChildInv /\ Distinct(kvm)
  BY <1>3, NoSpaceIs, NoJobIs DEF ProcInv, ChildInv
<1>5. OwnInv
  <2>1. PICK f : f = <<"free", 0>>
    OBVIOUS
  <2>2. f \in Holders /\ f[1] = "free" /\ Has(f) = 1..NLow
    BY <2>1, HasIs DEF Holders
  <2>3. ASSUME NEW i \in Holders \ {f} PROVE Has(i) = {}
    <3>1. i[1] # "free"
      <4>1. \E x, y : i = <<x, y>>
        BY DEF Holders
      <4> QED
        BY <2>1, <4>1, HolderIs
    <3>2. CASE i[1] \in {"kvm", "code4"}
      BY <3>2, HasIs, NoSpaceIs
    <3>3. CASE i[1] = "ap" /\ i[2] \in APs
      BY <3>3, HasIs
    <3>4. CASE i[1] \in {"kstack", "space", "new", "mem"} /\ i[2] \in Procs
      BY <3>4, HasIs, NoSpaceIs, NoJobIs
    <3> QED
      BY <3>1, <3>2, <3>3, <3>4, HolderIs
  <2>4. Managed = 1..NLow
    BY DEF Managed
  <2>5. ASSUME NEW i \in Holders, NEW j \in Holders, i # j PROVE Has(i) \cap Has(j) = {}
    BY <2>3, <2>5
  <2>6. ASSUME NEW g \in Pages PROVE g \in Managed <=> \E i \in Holders : g \in Has(i)
    BY <2>2, <2>3, <2>4
  <2> QED
    BY <2>5, <2>6 DEF OwnInv
<1> QED
  BY <1>1, <1>2, <1>4, <1>5 DEF IInv

\* It always holds.
LEMMA Invariant == Spec => []IInv
BY InitInv, Inductive, PTL DEF Spec

-----------------------------------------------------------------------------
(***************************************************************************)
(* The theorems.                                                           *)
(***************************************************************************)
\* The owners at a holder: the places where it keeps its pages.
At(h) ==
  CASE h[1] = "free"   -> {}
    [] h[1] = "kvm"    -> OwnedBy("kernel", 0, kvm)
    [] h[1] = "code4"  -> {<<"kernel", 0, "code4", 0, code4>>}
    [] h[1] = "ap"     -> {<<"cpu", h[2], "stack", 0, aps[h[2]].stack>>}
    [] h[1] = "kstack" -> {<<"proc", h[2], "kstack", 0, kstack[h[2]]>>}
    [] h[1] = "space"  -> OwnedBy("proc", h[2], space[h[2]])
    [] h[1] = "new"    -> IF job[h[2]].op = "grow" THEN {} ELSE OwnedBy("job", h[2], job[h[2]].new)
    [] h[1] = "mem"    -> {<<"job", h[2], "mem", 0, job[h[2]].mem>>}

\* The places of a page table have its pages, each one once.
LEMMA OwnedIs ==
  ASSUME NEW who, NEW p, NEW s \in SpaceType, Distinct(s)
  PROVE  /\ \A u \in OwnedBy(who, p, s) : u[5] # Nil => u[5] \in PagesOf(s)
         /\ \A g \in PagesOf(s) : \E u \in OwnedBy(who, p, s) : u[5] = g
         /\ \A u, v \in OwnedBy(who, p, s) : u[5] = v[5] /\ u[5] # Nil => u = v
<1>0. DOMAIN s.tabs = Tables \cup {KTable}
  BY DEF SpaceType
<1>1. ASSUME NEW u \in OwnedBy(who, p, s)
      PROVE  \/ u = <<who, p, "pgdir", 0, s.pgdir>>
             \/ \E t \in DOMAIN s.tabs : u = <<who, p, "tab", t, s.tabs[t]>>
             \/ \E a \in PageNos : u = <<who, p, "pg", a, s.pg[a]>>
  BY DEF OwnedBy
<1>2. ASSUME NEW u \in OwnedBy(who, p, s), u[5] # Nil PROVE u[5] \in PagesOf(s)
  BY <1>0, <1>1, <1>2, InPagesOf DEF Points
<1>3. ASSUME NEW g \in PagesOf(s) PROVE \E u \in OwnedBy(who, p, s) : u[5] = g
  <2>1. Points(s, g)
    BY InPagesOf
  <2>2. CASE g = s.pgdir
    <3>1. PICK u : u = <<who, p, "pgdir", 0, s.pgdir>>
      OBVIOUS
    <3> QED
      BY <2>2, <3>1 DEF OwnedBy
  <2>3. ASSUME NEW t \in DOMAIN s.tabs, g = s.tabs[t] PROVE \E u \in OwnedBy(who, p, s) : u[5] = g
    <3>1. PICK u : u = <<who, p, "tab", t, s.tabs[t]>>
      OBVIOUS
    <3> QED
      BY <2>3, <3>1 DEF OwnedBy
  <2>4. ASSUME NEW a \in PageNos, g = s.pg[a] PROVE \E u \in OwnedBy(who, p, s) : u[5] = g
    <3>1. PICK u : u = <<who, p, "pg", a, s.pg[a]>>
      OBVIOUS
    <3> QED
      BY <2>4, <3>1 DEF OwnedBy
  <2> QED
    BY <1>0, <2>1, <2>2, <2>3, <2>4 DEF Points
<1>4. ASSUME NEW u \in OwnedBy(who, p, s), NEW v \in OwnedBy(who, p, s), u[5] = v[5], u[5] # Nil PROVE u = v
  <2>1. CASE u = <<who, p, "pgdir", 0, s.pgdir>>
    BY <1>1, <1>4, <2>1 DEF Distinct
  <2>2. CASE \E t \in DOMAIN s.tabs : u = <<who, p, "tab", t, s.tabs[t]>>
    BY <1>1, <1>4, <2>2 DEF Distinct
  <2>3. CASE \E a \in PageNos : u = <<who, p, "pg", a, s.pg[a]>>
    BY <1>1, <1>4, <2>3 DEF Distinct
  <2> QED
    BY <1>1, <2>1, <2>2, <2>3
<1> QED
  BY <1>2, <1>3, <1>4

\* The owners at a holder have its pages, each one once.
LEMMA AtIs ==
  ASSUME IInv, NEW h \in Holders, h[1] # "free"
  PROVE  /\ \A u \in At(h) : u[5] # Nil => u[5] \in Has(h)
         /\ \A g \in Has(h) : \E u \in At(h) : u[5] = g
         /\ \A u, v \in At(h) : u[5] = v[5] /\ u[5] # Nil => u = v
<1> USE DEF IInv
<1>1. CASE h[1] = "kvm"
  <2>1. At(h) = OwnedBy("kernel", 0, kvm) /\ Has(h) = PagesOf(kvm) /\ kvm \in SpaceType
    BY <1>1, HasIs DEF At, TypeOK
  <2> QED
    BY <2>1, OwnedIs
<1>2. CASE h[1] = "code4"
  <2>1. At(h) = {<<"kernel", 0, "code4", 0, code4>>} /\ Has(h) = {code4} \ {Nil}
    BY <1>2, HasIs DEF At
  <2> QED
    BY <2>1
<1>3. CASE h[1] = "ap"
  <2>1. At(h) = {<<"cpu", h[2], "stack", 0, aps[h[2]].stack>>} /\ Has(h) = {aps[h[2]].stack} \ {Nil}
    BY <1>3, HasIs DEF At
  <2> QED
    BY <2>1
<1>4. CASE h[1] = "kstack"
  <2>1. At(h) = {<<"proc", h[2], "kstack", 0, kstack[h[2]]>>} /\ Has(h) = {kstack[h[2]]} \ {Nil}
    BY <1>4, HasIs DEF At
  <2> QED
    BY <2>1
<1>5. CASE h[1] = "space"
  <2>1. At(h) = OwnedBy("proc", h[2], space[h[2]]) /\ Has(h) = PagesOf(space[h[2]]) /\ h[2] \in Procs
    BY <1>5, HasIs, HolderIs DEF At
  <2>2. space[h[2]] \in SpaceType /\ Distinct(space[h[2]])
    BY <2>1, JobIs DEF ProcInv, LocalOk
  <2> QED
    BY <2>1, <2>2, OwnedIs
<1>6. CASE h[1] = "new"
  <2>1. /\ At(h) = IF job[h[2]].op = "grow" THEN {} ELSE OwnedBy("job", h[2], job[h[2]].new)
        /\ Has(h) = IF job[h[2]].op = "grow" THEN {} ELSE PagesOf(job[h[2]].new)
        /\ h[2] \in Procs
    BY <1>6, HasIs, HolderIs DEF At
  <2>2. job[h[2]].new \in SpaceType /\ Distinct(job[h[2]].new)
    BY <2>1, JobIs DEF ProcInv, LocalOk
  <2> QED
    BY <2>1, <2>2, OwnedIs
<1>7. CASE h[1] = "mem"
  <2>1. At(h) = {<<"job", h[2], "mem", 0, job[h[2]].mem>>} /\ Has(h) = {job[h[2]].mem} \ {Nil}
    BY <1>7, HasIs DEF At
  <2> QED
    BY <2>1
<1> QED
  BY <1>1, <1>2, <1>3, <1>4, <1>5, <1>6, <1>7, HolderIs

\* The owners.
LEMMA OwnerIs ==
  ASSUME NEW u
  PROVE  u \in Owners <=> \/ u \in OwnedBy("kernel", 0, kvm)
                          \/ u = <<"kernel", 0, "code4", 0, code4>>
                          \/ \E c \in APs : u = <<"cpu", c, "stack", 0, aps[c].stack>>
                          \/ \E p \in Procs : u = <<"proc", p, "kstack", 0, kstack[p]>>
                          \/ \E p \in Procs : u \in OwnedBy("proc", p, space[p])
                          \/ \E p \in Procs : job[p].op # "grow" /\ u \in OwnedBy("job", p, job[p].new)
                          \/ \E p \in Procs : u = <<"job", p, "mem", 0, job[p].mem>>
<1> DEFINE A == {<<"cpu", c, "stack", 0, aps[c].stack>> : c \in APs}
           K == {<<"proc", p, "kstack", 0, kstack[p]>> : p \in Procs}
           S == UNION {OwnedBy("proc", p, space[p]) : p \in Procs}
           J == UNION {OwnedBy("job", p, job[p].new) : p \in {q \in Procs : job[q].op # "grow"}}
           M == {<<"job", p, "mem", 0, job[p].mem>> : p \in Procs}
<1>1. Owners = OwnedBy("kernel", 0, kvm) \cup {<<"kernel", 0, "code4", 0, code4>>} \cup A \cup K \cup S \cup J \cup M
  BY DEF Owners
<1>2. u \in A <=> \E c \in APs : u = <<"cpu", c, "stack", 0, aps[c].stack>>
  OBVIOUS
<1>3. u \in K <=> \E p \in Procs : u = <<"proc", p, "kstack", 0, kstack[p]>>
  OBVIOUS
<1>4. u \in S <=> \E p \in Procs : u \in OwnedBy("proc", p, space[p])
  OBVIOUS
<1>5. u \in J <=> \E p \in Procs : job[p].op # "grow" /\ u \in OwnedBy("job", p, job[p].new)
  OBVIOUS
<1>6. u \in M <=> \E p \in Procs : u = <<"job", p, "mem", 0, job[p].mem>>
  OBVIOUS
<1> HIDE DEF A, K, S, J, M
<1>7. u \in Owners <=> \/ u \in OwnedBy("kernel", 0, kvm) \/ u = <<"kernel", 0, "code4", 0, code4>>
                       \/ u \in A \/ u \in K \/ u \in S \/ u \in J \/ u \in M
  BY <1>1
<1> QED
  BY <1>2, <1>3, <1>4, <1>5, <1>6, <1>7

\* Every owner is at a holder, ...
LEMMA OwnerAt == ASSUME NEW u \in Owners PROVE \E h \in Holders : h[1] # "free" /\ u \in At(h)
<1>1. CASE u \in OwnedBy("kernel", 0, kvm)
  <2>1. PICK h : h = <<"kvm", 0>>
    OBVIOUS
  <2>2. h \in Holders /\ h[1] = "kvm"
    BY <2>1 DEF Holders
  <2> QED
    BY <1>1, <2>2 DEF At
<1>2. CASE u = <<"kernel", 0, "code4", 0, code4>>
  <2>1. PICK h : h = <<"code4", 0>>
    OBVIOUS
  <2>2. h \in Holders /\ h[1] = "code4"
    BY <2>1 DEF Holders
  <2> QED
    BY <1>2, <2>2 DEF At
<1>3. ASSUME NEW c \in APs, u = <<"cpu", c, "stack", 0, aps[c].stack>>
      PROVE  \E h \in Holders : h[1] # "free" /\ u \in At(h)
  <2>1. PICK h : h = <<"ap", c>>
    OBVIOUS
  <2>2. h \in Holders /\ h[1] = "ap" /\ h[2] = c
    BY <2>1 DEF Holders
  <2> QED
    BY <1>3, <2>2 DEF At
<1>4. ASSUME NEW p \in Procs, u = <<"proc", p, "kstack", 0, kstack[p]>>
      PROVE  \E h \in Holders : h[1] # "free" /\ u \in At(h)
  <2>1. PICK h : h = <<"kstack", p>>
    OBVIOUS
  <2>2. h \in Holders /\ h[1] = "kstack" /\ h[2] = p
    BY <2>1 DEF Holders
  <2> QED
    BY <1>4, <2>2 DEF At
<1>5. ASSUME NEW p \in Procs, u \in OwnedBy("proc", p, space[p])
      PROVE  \E h \in Holders : h[1] # "free" /\ u \in At(h)
  <2>1. PICK h : h = <<"space", p>>
    OBVIOUS
  <2>2. h \in Holders /\ h[1] = "space" /\ h[2] = p
    BY <2>1 DEF Holders
  <2> QED
    BY <1>5, <2>2 DEF At
<1>6. ASSUME NEW p \in Procs, job[p].op # "grow", u \in OwnedBy("job", p, job[p].new)
      PROVE  \E h \in Holders : h[1] # "free" /\ u \in At(h)
  <2>1. PICK h : h = <<"new", p>>
    OBVIOUS
  <2>2. h \in Holders /\ h[1] = "new" /\ h[2] = p
    BY <2>1 DEF Holders
  <2> QED
    BY <1>6, <2>2 DEF At
<1>7. ASSUME NEW p \in Procs, u = <<"job", p, "mem", 0, job[p].mem>>
      PROVE  \E h \in Holders : h[1] # "free" /\ u \in At(h)
  <2>1. PICK h : h = <<"mem", p>>
    OBVIOUS
  <2>2. h \in Holders /\ h[1] = "mem" /\ h[2] = p
    BY <2>1 DEF Holders
  <2> QED
    BY <1>7, <2>2 DEF At
<1> QED
  BY <1>1, <1>2, <1>3, <1>4, <1>5, <1>6, <1>7, OwnerIs

\* ... and what is at a holder is an owner.
LEMMA AtOwner == ASSUME NEW h \in Holders, NEW u \in At(h) PROVE u \in Owners
<1>1. CASE h[1] = "free"
  BY <1>1 DEF At
<1>2. CASE h[1] \in {"kvm", "code4"}
  BY <1>2, OwnerIs DEF At
<1>3. CASE h[1] = "ap" /\ h[2] \in APs
  BY <1>3, OwnerIs DEF At
<1>4. CASE h[1] \in {"kstack", "mem"} /\ h[2] \in Procs
  BY <1>4, OwnerIs DEF At
<1>5. CASE h[1] = "space" /\ h[2] \in Procs
  BY <1>5, OwnerIs DEF At
<1>6. CASE h[1] = "new" /\ h[2] \in Procs
  <2>1. job[h[2]].op # "grow" /\ u \in OwnedBy("job", h[2], job[h[2]].new)
    BY <1>6 DEF At
  <2> QED
    BY <1>6, <2>1, OwnerIs
<1> QED
  BY <1>1, <1>2, <1>3, <1>4, <1>5, <1>6, HolderIs

\* What a holder has are pages.
LEMMA HasPages == ASSUME IInv, NEW h \in Holders PROVE Has(h) \subseteq Pages
<1> USE DEF IInv
<1>1. CASE h[1] = "free"
  BY <1>1, HasIs DEF TypeOK
<1>2. CASE h[1] = "kvm"
  BY <1>2, HasIs, InPagesOf DEF TypeOK
<1>3. CASE h[1] = "code4"
  BY <1>3, HasIs DEF TypeOK
<1>4. CASE h[1] = "ap" /\ h[2] \in APs
  BY <1>4, HasIs DEF TypeOK, ApType
<1>5. CASE h[1] \in {"kstack", "mem"} /\ h[2] \in Procs
  BY <1>5, HasIs, JobIs
<1>6. CASE h[1] = "space" /\ h[2] \in Procs
  BY <1>6, HasIs, InPagesOf, JobIs
<1>7. CASE h[1] = "new" /\ h[2] \in Procs
  BY <1>7, HasIs, InPagesOf, JobIs
<1> QED
  BY <1>1, <1>2, <1>3, <1>4, <1>5, <1>6, <1>7, HolderIs

\* Sets of the same size.
LEMMA SameSize ==
  ASSUME NEW S, NEW T, NEW f \in [S -> T], IsFiniteSet(T),
         \A x, y \in S : f[x] = f[y] => x = y, \A z \in T : \E x \in S : f[x] = z
  PROVE  Cardinality(S) = Cardinality(T)
<1>1. f \in Injection(S, T) /\ f \in Surjection(S, T)
  BY DEF Injection, Surjection, IsInjective
<1> QED
  BY <1>1, FS_Injection

\* One owner for every page.
LEMMA OwnersOnce == IInv => OneOwner
<1> SUFFICES ASSUME IInv PROVE OneOwner
  OBVIOUS
<1> DEFINE owners == {u \in Owners : u[5] # Nil}
           used   == {u[5] : u \in owners}
<1>1. PICK f : f = <<"free", 0>>
  OBVIOUS
<1>2. f \in Holders /\ f[1] = "free" /\ Has(f) = free
  BY <1>1, HasIs DEF Holders
<1>3. ASSUME NEW g PROVE g \in used <=> \E h \in Holders : h[1] # "free" /\ g \in Has(h)
  <2>1. ASSUME NEW u \in owners, g = u[5] PROVE \E h \in Holders : h[1] # "free" /\ g \in Has(h)
    BY <2>1, OwnerAt, AtIs
  <2>2. ASSUME NEW h \in Holders, h[1] # "free", g \in Has(h) PROVE g \in used
    <3>1. PICK u \in At(h) : u[5] = g
      BY <2>2, AtIs
    <3>2. g \in Pages
      BY <2>2, HasPages
    <3>3. u \in owners
      BY <2>2, <3>1, <3>2, AtOwner, NilNoPage
    <3> QED
      BY <3>1, <3>3
  <2> QED
    BY <2>1, <2>2
<1>4. ASSUME NEW u \in owners, NEW v \in owners, u[5] = v[5] PROVE u = v
  <2>1. PICK h \in Holders : h[1] # "free" /\ u \in At(h)
    BY OwnerAt
  <2>2. PICK k \in Holders : k[1] # "free" /\ v \in At(k)
    BY OwnerAt
  <2>3. u[5] \in Has(h) /\ u[5] \in Has(k)
    BY <1>4, <2>1, <2>2, AtIs
  <2>4. h = k
    BY <2>3 DEF IInv, OwnInv
  <2> QED
    BY <1>4, <2>1, <2>2, <2>4, AtIs
<1> HIDE DEF owners, used
<1>5. used \cap free = {}
  <2>1. ASSUME NEW g \in used, g \in free PROVE FALSE
    <3>1. PICK h \in Holders : h[1] # "free" /\ g \in Has(h)
      BY <1>3
    <3>2. h # f
      BY <1>2, <3>1
    <3> QED
      BY <1>2, <2>1, <3>1, <3>2 DEF IInv, OwnInv
  <2> QED
    BY <2>1
<1>6. used \cup free = Managed
  <2>1. ASSUME NEW g \in used PROVE g \in Managed
    <3>1. PICK h \in Holders : g \in Has(h)
      BY <1>3
    <3> QED
      BY <3>1, HasPages DEF IInv, OwnInv
  <2>2. ASSUME NEW g \in free PROVE g \in Managed
    BY <1>2, HasPages DEF IInv, OwnInv
  <2>3. ASSUME NEW g \in Managed PROVE g \in used \cup free
    <3>1. g \in Pages
      BY MemoryAssumption DEF Managed, Pages
    <3>2. PICK h \in Holders : g \in Has(h)
      BY <3>1 DEF IInv, OwnInv
    <3>3. CASE h[1] = "free"
      BY <3>2, <3>3, HasIs
    <3>4. CASE h[1] # "free"
      BY <1>3, <3>2, <3>4
    <3> QED
      BY <3>3, <3>4
  <2> QED
    BY <2>1, <2>2, <2>3
<1>7. Cardinality(owners) = Cardinality(used)
  <2>1. PICK m : m = [u \in owners |-> u[5]]
    OBVIOUS
  <2>2. m \in [owners -> used] /\ \A z \in used : \E x \in owners : m[x] = z
    BY <2>1 DEF used
  <2>3. \A x, y \in owners : m[x] = m[y] => x = y
    BY <1>4, <2>1
  <2>4. IsFiniteSet(used)
    <3>1. IsFiniteSet(Pages)
      <4>1. NLow + NHigh \in Int /\ 1 \in Int
        BY MemoryAssumption
      <4> QED
        BY <4>1, FS_Interval DEF Pages
    <3>2. used \subseteq Pages
      BY <1>3, HasPages
    <3> QED
      BY <3>1, <3>2, FS_Subset
  <2> QED
    BY <2>2, <2>3, <2>4, SameSize
<1> QED
  BY <1>5, <1>6, <1>7 DEF OneOwner, owners, used

\* Variables and records stay within their types; a process never has more
\* memory than there is room for below KERNBASE.
THEOREM TypeCorrect == Spec => []TypeOK
<1>1. IInv => TypeOK
  BY DEF IInv
<1> QED
  BY <1>1, Invariant, PTL

\* Whatever fails, and in whatever order CPUs and processes allocate and free,
\* no page is leaked, freed twice or given to two owners.
THEOREM OneOwnerHolds == Spec => []OneOwner
BY OwnersOnce, Invariant, PTL

\* Between its calls a process has no page beyond its size and all of its size,
\* also after allocuvm failed half way, unless it has shrunk to size 0: there
\* growproc keeps sz, the pages are gone, and the first never comes back.
THEOREM SizeIsMappedHolds == Spec => []SizeIsMapped
<1>1. IInv => SizeIsMapped
  <2> SUFFICES ASSUME IInv, NEW p \in Procs, Idle(p)
               PROVE  Covers(Mapped(space[p]), Sized(sz[p]))
    BY DEF SizeIsMapped, Covers, Mapped
  <2>1. LocalOk(p)
    BY DEF IInv, ProcInv
  <2>2. job[p].op # "grow" /\ state[p] = "alive"
    BY <2>1, NoJobIs DEF Idle, LocalOk, ProcOk
  <2> QED
    BY <2>1, <2>2 DEF LocalOk, SizeOk
<1> QED
  BY <1>1, Invariant, PTL

\* The page directory that a process runs on is its own, or the one that exec
\* has not freed yet; it is never on the free list.
THEOREM Cr3LiveHolds == Spec => []Cr3Live
<1>1. IInv => Cr3Live
  <2> SUFFICES ASSUME IInv, NEW p \in Procs, state[p] = "alive"
               PROVE  cr3[p] \notin free /\ cr3[p] \in {space[p].pgdir, job[p].new.pgdir}
    BY DEF Cr3Live
  <2>1. LocalOk(p) /\ space[p] \in SpaceType /\ job[p].new \in SpaceType
    BY JobIs DEF IInv, ProcInv
  <2>2. cr3[p] \in {space[p].pgdir, job[p].new.pgdir}
    BY <2>1 DEF LocalOk, Cr3Ok
  <2>3. space[p].pgdir \notin free
    <3>1. free \cap PagesOf(space[p]) = {}
      BY OwnParts DEF IInv, Apart
    <3>2. space[p].pgdir = Nil \/ space[p].pgdir \in PagesOf(space[p])
      BY <2>1, InPagesOf DEF Points
    <3> QED
      BY <3>1, <3>2, NilNoPage DEF IInv, TypeOK
  <2>4. job[p].new.pgdir \notin free
    <3>1. job[p].new.pgdir = Nil \/ job[p].new.pgdir \in PagesOf(job[p].new)
      BY <2>1, InPagesOf DEF Points
    <3> QED
      BY <3>1, NewApart, NilNoPage DEF IInv, TypeOK
  <2> QED
    BY <2>2, <2>3, <2>4
<1> QED
  BY <1>1, Invariant, PTL

=============================================================================
