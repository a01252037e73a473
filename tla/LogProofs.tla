----------------------------- MODULE LogProofs -----------------------------
(* Proofs about Log for any processes, blocks, contents and sizes. *)
EXTENDS Log, TLAPS, SequenceTheorems, FiniteSetTheorems

(***************************************************************************)
(* The inductive invariant.  ControlInv: who commits is alone, and nothing *)
(* runs before recovery is over.  SpaceInv: what is left of the space that *)
(* begin_op reserved still fits in the log.  LogInv: what the header and   *)
(* the logged blocks hold at each stage of a commit and of recovery.       *)
(* CacheInv: a buffer that differs from its home block is pinned.          *)
(***************************************************************************)
Active    == {o \in Ops : pc[o] \in {"run", "log"}}
Logged(s) == {s[k] : k \in 1..Len(s)}

ControlInv ==
  /\ CommitsAlone
  /\ SleeperHasWaker
  /\ committing => \E o \in Ops : pc[o] \in CommitPcs
  /\ boot # "up" => ~panicked /\ ~committing /\ \A o \in Ops : pc[o] = "idle"
  /\ boot = "up" /\ outstanding = 0 /\ ~committing => lh = <<>>

\* The blocks, one by one, that the active calls may still add to the log.
Room ==
  {t \in Active \X (1..MAXOPBLOCKS) : t[2] > Cardinality(used[t[1]] \cap Logged(lh))}

SpaceInv ==
  /\ IsFiniteSet(Active) /\ outstanding = Cardinality(Active)
  /\ \A o \in Ops : /\ IsFiniteSet(used[o]) /\ Cardinality(used[o]) <= OpBlocks
                    /\ o \notin Active => used[o] = {}
                    /\ pc[o] = "log" => blk[o] \in used[o]
  /\ Len(lh) + Cardinality(Room) <= LOGSIZE
  /\ Len(dhead) <= LOGSIZE
  /\ panicked /\ NLOG > LOGSIZE => Room = {}

Distinct(s) == \A k, l \in 1..Len(s) : s[k] = s[l] => k = l

Installing == \E o \in Ops : pc[o] \in {"install", "clear"}

LogInv ==
  /\ Distinct(lh) /\ Distinct(dhead)
  /\ boot = "up" => dhead = IF Installing THEN lh ELSE <<>>
  /\ boot = "up" /\ ~Installing => \A k \in 1..Len(lh) : dirty[lh[k]]
  /\ boot = "read" => rtail = 1
  /\ boot \in {"install", "clear"} =>
       lh = dhead /\ \A k \in 1..Len(lh) : k < rtail \/ boot = "clear" => home[lh[k]] = dlog[k]
  /\ \A o \in Ops, k \in 1..Len(lh) :
       /\ (pc[o] = "write_log" /\ k < tail[o]) \/ pc[o] = "write_head" => dlog[k] = cache[lh[k]]
       /\ pc[o] = "install" /\ k >= tail[o] => dirty[lh[k]] /\ dlog[k] = cache[lh[k]]
       /\ (pc[o] = "install" /\ k < tail[o]) \/ pc[o] = "clear" =>
            ~dirty[lh[k]] /\ dlog[k] = home[lh[k]]
  /\ \A o \in Ops : pc[o] = "done" => lh = <<>>

CacheInv ==
  /\ \A b \in Blocks :
       /\ holder[b] = NoOp /\ ~dirty[b] => cache[b] \in {NotCached, home[b]}
       /\ dirty[b] => cache[b] # NotCached /\ b \in Logged(lh) /\ boot = "up"
       /\ holder[b] # NoOp => /\ cache[b] # NotCached
                              /\ panicked \/ (pc[holder[b]] = "log" /\ blk[holder[b]] = b)
                              /\ boot = "up"
  /\ \A o \in Ops : pc[o] = "log" => blk[o] \in Blocks /\ holder[blk[o]] = o

IInv == TypeOK /\ ControlInv /\ SpaceInv /\ LogInv /\ CacheInv

-----------------------------------------------------------------------------
\* log_write adds a block to the header unless it is there already.
LEMMA AbsorbAdds ==
  ASSUME NEW s \in Seq(Blocks), NEW b \in Blocks
  PROVE  /\ Absorb(s, b) \in Seq(Blocks)
         /\ b \in Logged(s) => Absorb(s, b) = s
         /\ b \notin Logged(s) => /\ Absorb(s, b) = Append(s, b)
                                  /\ Len(Absorb(s, b)) = Len(s) + 1
                                  /\ Absorb(s, b)[Len(s) + 1] = b
                                  /\ \A k \in 1..Len(s) : Absorb(s, b)[k] = s[k]
         /\ Logged(Absorb(s, b)) = Logged(s) \cup {b}
         /\ Distinct(s) => Distinct(Absorb(s, b))
<1>1. CASE b \in Logged(s)
  BY <1>1 DEF Absorb, Logged
<1>2. CASE b \notin Logged(s)
  <2>1. /\ Absorb(s, b) = Append(s, b)
        /\ Append(s, b) \in Seq(Blocks) /\ Len(Append(s, b)) = Len(s) + 1
        /\ \A k \in 1..Len(s) : Append(s, b)[k] = s[k]
        /\ Append(s, b)[Len(s) + 1] = b
    BY <1>2, AppendProperties DEF Absorb, Logged
  <2>2. Len(s) \in Nat
    OBVIOUS
  <2>3. Logged(Append(s, b)) = Logged(s) \cup {b}
    BY <2>1, <2>2 DEF Logged
  <2>4. Distinct(s) => Distinct(Append(s, b))
    BY <1>2, <2>1, <2>2 DEF Distinct, Logged
  <2> QED
    BY <1>2, <2>1, <2>3, <2>4
<1> QED
  BY <1>1, <1>2

\* The part of it that says which blocks are logged.
LEMMA AbsorbLogged ==
  ASSUME NEW s \in Seq(Blocks), NEW b \in Blocks
  PROVE  Logged(Absorb(s, b)) = Logged(s) \cup {b}
BY AbsorbAdds

\* The space reserved for the active calls.
LEMMA RoomBound ==
  SpaceInv => /\ IsFiniteSet(Room) /\ Cardinality(Room) \in Nat
              /\ IsFiniteSet(Active \X (1..MAXOPBLOCKS))
              /\ Cardinality(Active \X (1..MAXOPBLOCKS)) = outstanding * MAXOPBLOCKS
              /\ Cardinality(Room) <= outstanding * MAXOPBLOCKS
              /\ outstanding \in Nat
<1> SUFFICES ASSUME SpaceInv
             PROVE  /\ IsFiniteSet(Room) /\ Cardinality(Room) \in Nat
                    /\ IsFiniteSet(Active \X (1..MAXOPBLOCKS))
                    /\ Cardinality(Active \X (1..MAXOPBLOCKS)) = outstanding * MAXOPBLOCKS
                    /\ Cardinality(Room) <= outstanding * MAXOPBLOCKS
                    /\ outstanding \in Nat
  OBVIOUS
<1>1. MAXOPBLOCKS \in Nat \ {0}
  BY LogAssumption
<1>2. IsFiniteSet(1..MAXOPBLOCKS) /\ Cardinality(1..MAXOPBLOCKS) = MAXOPBLOCKS
  BY <1>1, FS_Interval
<1>3. IsFiniteSet(Active) /\ Cardinality(Active) = outstanding /\ outstanding \in Nat
  BY FS_CardinalityType DEF SpaceInv
<1>4. /\ IsFiniteSet(Active \X (1..MAXOPBLOCKS))
      /\ Cardinality(Active \X (1..MAXOPBLOCKS)) = outstanding * MAXOPBLOCKS
  BY <1>2, <1>3, FS_Product
<1>5. Room \in SUBSET (Active \X (1..MAXOPBLOCKS))
  BY DEF Room
<1>6. IsFiniteSet(Room) /\ Cardinality(Room) <= outstanding * MAXOPBLOCKS
  BY <1>4, <1>5, FS_Subset
<1> QED
  BY <1>3, <1>4, <1>6, FS_CardinalityType

\* The same, in the form in which it is used of the next state.
LEMMA RoomSize == SpaceInv => Cardinality(Room) \in Nat
BY RoomBound


\* A step that leaves the active calls and the log alone.
LEMMA SpaceKept ==
  ASSUME SpaceInv, Active' = Active, UNCHANGED <<outstanding, used, lh, blk>>,
         panicked' => panicked, Len(dhead') <= LOGSIZE,
         \A o \in Ops : pc'[o] = "log" => pc[o] = "log"
  PROVE  SpaceInv'
<1>1. Room' = Room
  BY DEF Room
<1> QED
  BY <1>1 DEF SpaceInv

\* A step after which no call is active.
LEMMA SpaceIdle ==
  ASSUME Active' = {}, outstanding' = 0, ~panicked', Len(lh') <= LOGSIZE, Len(dhead') <= LOGSIZE,
         Len(lh') \in Nat, \A o \in Ops : used'[o] = {} /\ pc'[o] # "log"
  PROVE  SpaceInv'
<1>1. Room' = {}
  BY DEF Room
<1>2. Cardinality(Room') = 0 /\ Cardinality(Active') = 0 /\ IsFiniteSet(Active')
  BY <1>1, FS_EmptySet
<1>3. Len(lh') + Cardinality(Room') <= LOGSIZE
  BY <1>2, LogAssumption
<1>4. ASSUME NEW o \in Ops PROVE IsFiniteSet(used'[o]) /\ Cardinality(used'[o]) <= OpBlocks
  <2>1. used'[o] = {}
    OBVIOUS
  <2>2. IsFiniteSet(used'[o]) /\ Cardinality(used'[o]) = 0
    BY <2>1, FS_EmptySet
  <2> QED
    BY <2>2, LogAssumption
<1> QED
  BY <1>2, <1>3, <1>4 DEF SpaceInv

\* A call that has the log to itself at its end.
LEMMA SoleActive ==
  ASSUME SpaceInv, NEW o \in Active
  PROVE  outstanding \in Nat \ {0} /\ (outstanding = 1 => Active = {o})
<1>1. IsFiniteSet(Active) /\ outstanding = Cardinality(Active) /\ outstanding \in Nat
  BY FS_CardinalityType DEF SpaceInv
<1>2. outstanding # 0
  BY <1>1, FS_EmptySet
<1>3. ASSUME outstanding = 1 PROVE Active = {o}
  <2>1. PICK q : Active = {q}
    BY <1>1, <1>3, FS_Singleton
  <2> QED
    BY <2>1
<1> QED
  BY <1>1, <1>2, <1>3

\* Fewer blocks to come need no more space.
LEMMA RoomShrinks ==
  ASSUME SpaceInv, NEW R \in SUBSET Room
  PROVE  IsFiniteSet(R) /\ Cardinality(R) <= Cardinality(Room) /\ Cardinality(R) \in Nat
BY RoomBound, FS_Subset, FS_CardinalityType

\* A block that is new to the log takes one of the places its call was granted.
LEMMA RoomTaken ==
  ASSUME SpaceInv, NEW o \in Active, NEW b \in used[o], b \notin Logged(lh),
         Logged(lh') = Logged(lh) \cup {b}, used' = used, Active' = Active
  PROVE  /\ Room' \in SUBSET Room
         /\ Cardinality(Room') \in Nat /\ Cardinality(Room') <= Cardinality(Room) - 1
<1>1. ASSUME NEW q \in Active
      PROVE  /\ Cardinality(used[q] \cap Logged(lh)) <= Cardinality(used[q] \cap Logged(lh'))
             /\ Cardinality(used[q] \cap Logged(lh)) \in Nat
             /\ Cardinality(used[q] \cap Logged(lh')) \in Nat
  <2>1. IsFiniteSet(used[q])
    BY DEF SpaceInv, Active
  <2>2. /\ IsFiniteSet(used[q] \cap Logged(lh'))
        /\ used[q] \cap Logged(lh) \in SUBSET (used[q] \cap Logged(lh'))
    BY <2>1, FS_Intersection
  <2> QED
    BY <2>2, FS_Subset, FS_CardinalityType
<1>2. PICK c \in Nat : c = Cardinality(used[o] \cap Logged(lh))
  BY <1>1
<1>3. Cardinality(used[o] \cap Logged(lh')) = c + 1 /\ c + 1 \in 1..MAXOPBLOCKS
  <2>1. used[o] \cap Logged(lh') = (used[o] \cap Logged(lh)) \cup {b}
    OBVIOUS
  <2>2. IsFiniteSet(used[o]) /\ Cardinality(used[o]) <= MAXOPBLOCKS
    <3>1. IsFiniteSet(used[o]) /\ Cardinality(used[o]) <= OpBlocks
      BY DEF SpaceInv, Active
    <3>2. Cardinality(used[o]) \in Nat
      BY <3>1, FS_CardinalityType
    <3> QED
      BY <3>1, <3>2, LogAssumption
  <2>3. IsFiniteSet(used[o] \cap Logged(lh)) /\ b \notin used[o] \cap Logged(lh)
    BY <2>2, FS_Intersection
  <2>4. Cardinality(used[o] \cap Logged(lh')) = c + 1
    BY <1>2, <2>1, <2>3, FS_AddElement
  <2>5. /\ Cardinality(used[o] \cap Logged(lh')) <= Cardinality(used[o])
        /\ Cardinality(used[o]) \in Nat
    BY <2>2, FS_Intersection, FS_CardinalityType
  <2> QED
    BY <2>2, <2>4, <2>5, LogAssumption
<1>4. <<o, c + 1>> \in Room
  <2>1. c + 1 > c
    OBVIOUS
  <2> QED
    BY <1>2, <1>3, <2>1 DEF Room
<1>5. ASSUME NEW q \in Active, NEW j \in 1..MAXOPBLOCKS, j > Cardinality(used[q] \cap Logged(lh'))
      PROVE  j > Cardinality(used[q] \cap Logged(lh)) /\ <<q, j>> # <<o, c + 1>>
  <2>1. j \in Nat
    BY LogAssumption
  <2>2. j > Cardinality(used[q] \cap Logged(lh))
    <3>1. PICK x \in Nat, y \in Nat : /\ x = Cardinality(used[q] \cap Logged(lh))
                                      /\ y = Cardinality(used[q] \cap Logged(lh'))
                                      /\ x <= y
      BY <1>1
    <3> QED
      BY <1>5, <2>1, <3>1
  <2>3. q = o => j # c + 1
    BY <1>3, <1>5, <2>1
  <2> QED
    BY <2>2, <2>3
<1>6. Room' \in SUBSET (Room \ {<<o, c + 1>>})
  <2> SUFFICES ASSUME NEW t \in Room' PROVE t \in Room /\ t # <<o, c + 1>>
    OBVIOUS
  <2>1. /\ t \in Active \X (1..MAXOPBLOCKS)
        /\ t[2] > Cardinality(used[t[1]] \cap Logged(lh'))
    BY DEF Room
  <2>2. PICK q \in Active, j \in 1..MAXOPBLOCKS : t = <<q, j>>
    BY <2>1
  <2>3. j > Cardinality(used[q] \cap Logged(lh'))
    BY <2>1, <2>2
  <2> QED
    BY <1>5, <2>2, <2>3 DEF Room
<1>7. /\ IsFiniteSet(Room \ {<<o, c + 1>>})
      /\ Cardinality(Room \ {<<o, c + 1>>}) = Cardinality(Room) - 1
  <2>1. IsFiniteSet(Room)
    BY RoomBound
  <2> QED
    BY SMTT(60), <1>4, <2>1, FS_RemoveElement
<1>8. Cardinality(Room') \in Nat /\ Cardinality(Room') <= Cardinality(Room) - 1
  <2>1. IsFiniteSet(Room') /\ Cardinality(Room') <= Cardinality(Room \ {<<o, c + 1>>})
    BY <1>6, <1>7, FS_Subset
  <2> QED
    BY <1>7, <2>1, FS_CardinalityType
<1> QED
  BY <1>6, <1>8

\* A call that writes one more block needs no more space than it was granted.
LEMMA RoomWritten ==
  ASSUME SpaceInv, Active' = Active, lh' = lh,
         \A q \in Active : used[q] \subseteq used'[q] /\ IsFiniteSet(used'[q])
  PROVE  Room' \in SUBSET Room
<1>1. ASSUME NEW q \in Active
      PROVE  /\ Cardinality(used[q] \cap Logged(lh)) <= Cardinality(used'[q] \cap Logged(lh))
             /\ Cardinality(used[q] \cap Logged(lh)) \in Nat
             /\ Cardinality(used'[q] \cap Logged(lh)) \in Nat
  <2>1. /\ IsFiniteSet(used'[q] \cap Logged(lh))
        /\ used[q] \cap Logged(lh) \in SUBSET (used'[q] \cap Logged(lh))
    BY FS_Intersection
  <2> QED
    BY <2>1, FS_Subset, FS_CardinalityType
<1> SUFFICES ASSUME NEW t \in Room' PROVE t \in Room
  OBVIOUS
<1>2. /\ t \in Active \X (1..MAXOPBLOCKS)
      /\ t[2] > Cardinality(used'[t[1]] \cap Logged(lh))
  BY DEF Room
<1>3. PICK q \in Active, j \in 1..MAXOPBLOCKS : t = <<q, j>>
  BY <1>2
<1>4. j > Cardinality(used'[q] \cap Logged(lh))
  BY <1>2, <1>3
<1>5. j > Cardinality(used[q] \cap Logged(lh))
  <2>1. PICK x \in Nat, y \in Nat : /\ x = Cardinality(used[q] \cap Logged(lh))
                                    /\ y = Cardinality(used'[q] \cap Logged(lh))
                                    /\ x <= y
    BY <1>1
  <2> QED
    BY <1>4, <2>1, LogAssumption
<1> QED
  BY <1>3, <1>5 DEF Room

\* What begin_op grants a call.
LEMMA OneCall == IsFiniteSet(1..MAXOPBLOCKS) /\ Cardinality(1..MAXOPBLOCKS) = MAXOPBLOCKS
BY FS_Interval, LogAssumption


\* What is reserved and not yet used fits behind what is logged.
LEMMA SpaceStep == IInv /\ [Next]_vars => SpaceInv'
<1> SUFFICES ASSUME IInv, [Next]_vars PROVE SpaceInv'
  OBVIOUS
<1> USE LogAssumption DEF IInv, TypeOK, disk, mem, bufs, PCs, Up
<1>1. ASSUME NEW o \in Ops, CallBegin(o) PROVE SpaceInv'
  <2>1. Active' = Active /\ \A q \in Ops : pc'[q] = "log" => pc[q] = "log"
    BY <1>1 DEF CallBegin, Goto, Active
  <2> QED
    BY <1>1, <2>1, SpaceKept DEF CallBegin, Goto, SpaceInv
<1>2. ASSUME NEW o \in Ops, NEW b \in Blocks, NEW v \in Values, LogWriteTest(o, b, v) PROVE SpaceInv'
  <2>1. o \in Active /\ Active' = Active
    BY <1>2 DEF LogWriteTest, Goto, Active
  <2>2. CASE panicked'
    <3>1. UNCHANGED <<pc, used, lh, dhead, outstanding>>
      BY <1>2, <2>2 DEF LogWriteTest
    <3>2. Room' = Room
      BY <2>1, <3>1 DEF Room
    <3>3. ASSUME NLOG > LOGSIZE PROVE Room = {}
      <4>1. outstanding >= 1
        BY <2>1, SoleActive
      <4>2. Len(lh) >= LOGSIZE
        BY <1>2, <2>2, <3>3, <4>1 DEF LogWriteTest
      <4>3. Cardinality(Room) = 0
        BY <4>2, RoomBound DEF SpaceInv
      <4> QED
        BY <4>3, RoomBound, FS_EmptySet
    <3>4. \A q \in Ops : pc[q] = "log" => q # o
      BY <1>2 DEF LogWriteTest
    <3>5. \A q \in Ops : q # o => blk'[q] = blk[q]
      BY <1>2 DEF LogWriteTest
    <3> QED
      BY <2>1, <3>1, <3>2, <3>3, <3>4, <3>5 DEF SpaceInv
  <2>3. CASE ~panicked'
    <3>1. /\ used' = [used EXCEPT ![o] = used[o] \cup {b}] /\ pc' = [pc EXCEPT ![o] = "log"]
          /\ blk' = [blk EXCEPT ![o] = b] /\ UNCHANGED <<lh, dhead, outstanding>>
          /\ Cardinality(used[o] \cup {b}) <= OpBlocks
      BY <1>2, <2>3 DEF LogWriteTest, Goto
    <3>2. ASSUME NEW q \in Ops
          PROVE  /\ IsFiniteSet(used'[q]) /\ Cardinality(used'[q]) <= OpBlocks
                 /\ q \notin Active' => used'[q] = {}
                 /\ pc'[q] = "log" => blk'[q] \in used'[q]
      <4>1. CASE q = o
        <5>1. used'[o] = used[o] \cup {b} /\ blk'[o] = b
          BY <3>1
        <5>2. IsFiniteSet(used[o])
          BY DEF SpaceInv
        <5>3. IsFiniteSet(used[o] \cup {b})
          BY <5>2, FS_AddElement
        <5> QED
          BY <2>1, <3>1, <4>1, <5>1, <5>3
      <4>2. CASE q # o
        BY <2>1, <3>1, <4>2 DEF SpaceInv
      <4> QED
        BY <4>1, <4>2
    <3>3. \A q \in Active : used[q] \subseteq used'[q] /\ IsFiniteSet(used'[q])
      BY <3>1, <3>2 DEF Active
    <3>4. Room' \in SUBSET Room
      BY <2>1, <3>1, <3>3, RoomWritten
    <3>5. Cardinality(Room') <= Cardinality(Room) /\ Cardinality(Room') \in Nat
      BY <3>4, RoomShrinks
    <3>6. Len(lh') + Cardinality(Room') <= LOGSIZE
      BY SMTT(60), <3>1, <3>5, RoomBound DEF SpaceInv
    <3> QED
      BY <2>1, <2>3, <3>1, <3>2, <3>6 DEF SpaceInv
  <2> QED
    BY <2>2, <2>3
<1>3. ASSUME NEW o \in Ops, end_op(o) PROVE SpaceInv'
  <2>1. ~committing
    BY <1>3 DEF end_op, ControlInv, CommitsAlone, CommitPcs
  <2>2. o \in Active /\ Active' = Active \ {o} /\ \A q \in Ops : pc'[q] = "log" => pc[q] = "log"
    BY SMTT(60), <1>3 DEF end_op, Goto, wakeup_log, Active
  <2>3. IsFiniteSet(Active') /\ outstanding' = Cardinality(Active')
    BY <1>3, <2>2, FS_RemoveElement DEF end_op, SpaceInv
  <2>4. \A q \in Ops : used'[q] = IF q = o THEN {} ELSE used[q]
    BY <1>3 DEF end_op
  <2>5. Room' \in SUBSET Room
    BY ZenonT(60), <1>3, <2>2, <2>4 DEF end_op, Room, Active
  <2>6. Cardinality(Room') <= Cardinality(Room) /\ Cardinality(Room') \in Nat
    BY <2>5, RoomShrinks
  <2>7. Len(lh') + Cardinality(Room') <= LOGSIZE
    BY SMTT(60), <1>3, <2>6, RoomBound DEF end_op, SpaceInv
  <2>8. ASSUME NEW q \in Ops
        PROVE  /\ IsFiniteSet(used'[q]) /\ Cardinality(used'[q]) <= OpBlocks
               /\ q \notin Active' => used'[q] = {}
               /\ pc'[q] = "log" => blk'[q] \in used'[q]
    <3>1. CASE q = o
      BY <1>3, <2>4, <3>1, FS_EmptySet DEF end_op, Goto, wakeup_log
    <3>2. CASE q # o
      BY <1>3, <2>2, <2>4, <3>2 DEF end_op, SpaceInv
    <3> QED
      BY <3>1, <3>2
  <2> QED
    BY <1>3, <2>1, <2>3, <2>7, <2>8 DEF end_op, SpaceInv
<1>4. ASSUME NEW o \in Ops, begin_op(o) PROVE SpaceInv'
  <2>1. CASE committing \/ NoSpace
    <3>1. Active' = Active /\ \A q \in Ops : pc'[q] = "log" => pc[q] = "log"
      BY <1>4, <2>1 DEF begin_op, Goto, Active
    <3> QED
      BY <1>4, <2>1, <3>1, SpaceKept DEF begin_op, SpaceInv
  <2>2. CASE ~(committing \/ NoSpace)
    <3>1. /\ Active' = Active \cup {o} /\ o \notin Active
          /\ \A q \in Ops : pc'[q] = "log" => pc[q] = "log"
      BY <1>4, <2>2 DEF begin_op, Goto, Active
    <3>2. IsFiniteSet(Active') /\ outstanding' = Cardinality(Active')
      BY <1>4, <2>2, <3>1, FS_AddElement DEF begin_op, SpaceInv
    <3>4. /\ IsFiniteSet(Active' \X (1..MAXOPBLOCKS))
          /\ Cardinality(Active' \X (1..MAXOPBLOCKS)) = outstanding' * MAXOPBLOCKS
      BY <3>2, OneCall, FS_Product
    <3>5. Room' \in SUBSET (Active' \X (1..MAXOPBLOCKS))
      BY DEF Room
    <3>6. /\ Cardinality(Room') <= (outstanding + 1) * MAXOPBLOCKS
          /\ Cardinality(Room') \in Nat
      BY <1>4, <2>2, <3>4, <3>5, FS_Subset, FS_CardinalityType DEF begin_op
    <3>7. Len(lh) + (outstanding + 1) * MAXOPBLOCKS <= LOGSIZE
      BY <2>2 DEF NoSpace
    <3>8. Len(lh') + Cardinality(Room') <= LOGSIZE
      <4>1. (outstanding + 1) * MAXOPBLOCKS \in Nat /\ Len(lh) \in Nat /\ lh' = lh
        BY <1>4 DEF begin_op
      <4> QED
        BY <3>6, <3>7, <4>1
    <3> QED
      BY <1>4, <3>1, <3>2, <3>8 DEF begin_op, SpaceInv
  <2> QED
    BY <2>1, <2>2
<1>5. ASSUME NEW o \in Ops, log_write(o) PROVE SpaceInv'
  <2>1. blk[o] \in Blocks /\ o \in Active /\ blk[o] \in used[o]
    BY <1>5 DEF log_write, CacheInv, SpaceInv, Active
  <2>2. /\ lh' = Absorb(lh, blk[o]) /\ UNCHANGED <<used, dhead, outstanding, panicked>>
        /\ Active' = Active
        /\ \A q \in Ops : pc'[q] = "log" => pc[q] = "log" /\ blk'[q] = blk[q]
    BY <1>5 DEF log_write, Goto, Active
  <2>3. CASE blk[o] \in Logged(lh)
    <3>1. lh' = lh
      BY <2>1, <2>2, <2>3, AbsorbAdds
    <3>2. Room' = Room
      BY <2>2, <3>1 DEF Room
    <3> QED
      BY <2>2, <3>1, <3>2 DEF SpaceInv
  <2>4. CASE blk[o] \notin Logged(lh)
    <3>1. Len(lh') = Len(lh) + 1 /\ Logged(lh') = Logged(lh) \cup {blk[o]}
      BY <2>1, <2>2, <2>4, AbsorbAdds
    <3>2. /\ Room' \in SUBSET Room
          /\ Cardinality(Room') \in Nat /\ Cardinality(Room') <= Cardinality(Room) - 1
      BY <2>1, <2>2, <2>4, <3>1, RoomTaken
    <3>3. Len(lh') + Cardinality(Room') <= LOGSIZE
      BY SMTT(60), <3>1, <3>2, RoomBound DEF SpaceInv
    <3> QED
      BY <2>2, <3>2, <3>3 DEF SpaceInv
  <2> QED
    BY <2>3, <2>4
<1>6. ASSUME NEW o \in Ops, commit(o) PROVE SpaceInv'
  <2>1. Active' = Active /\ \A q \in Ops : pc'[q] = "log" => pc[q] = "log"
    BY <1>6 DEF commit, Goto, Active
  <2> QED
    BY <1>6, <2>1, SpaceKept DEF commit, Goto, SpaceInv
<1>7. ASSUME NEW o \in Ops, write_log(o) PROVE SpaceInv'
  <2>1. Active' = Active /\ \A q \in Ops : pc'[q] = "log" => pc[q] = "log"
    BY <1>7 DEF write_log, Goto, Active
  <2> QED
    BY <1>7, <2>1, SpaceKept DEF write_log, Goto, SpaceInv
<1>8. ASSUME NEW o \in Ops, write_head(o) PROVE SpaceInv'
  <2>1. Active' = Active /\ \A q \in Ops : pc'[q] = "log" => pc[q] = "log"
    BY <1>8 DEF write_head, Goto, Active
  <2> QED
    BY <1>8, <2>1, SpaceKept DEF write_head, Goto, SpaceInv
<1>9. ASSUME NEW o \in Ops, install_trans(o) PROVE SpaceInv'
  <2>1. Active' = Active /\ \A q \in Ops : pc'[q] = "log" => pc[q] = "log"
    BY SMTT(60), <1>9 DEF install_trans, Goto, Active
  <2> QED
    BY <1>9, <2>1, SpaceKept DEF install_trans, Goto, SpaceInv
<1>10. ASSUME NEW o \in Ops, ClearLog(o) PROVE SpaceInv'
  <2>1. Active' = {} /\ \A q \in Ops : used'[q] = {} /\ pc'[q] # "log"
    BY ZenonT(60), <1>10 DEF ClearLog, Goto, Active, SpaceInv, ControlInv, CommitsAlone, CommitPcs
  <2>2. outstanding' = 0 /\ ~panicked' /\ Len(lh') \in Nat /\ Len(lh') <= LOGSIZE
        /\ Len(dhead') <= LOGSIZE
    BY <1>10 DEF ClearLog, Goto, SpaceInv, ControlInv, CommitsAlone, CommitPcs
  <2> QED
    BY <2>1, <2>2, SpaceIdle
<1>11. ASSUME NEW o \in Ops, EndCommit(o) PROVE SpaceInv'
  <2>1. Active' = Active /\ \A q \in Ops : pc'[q] = "log" => pc[q] = "log"
    BY <1>11 DEF EndCommit, wakeup_log, Active
  <2> QED
    BY <1>11, <2>1, SpaceKept DEF EndCommit, wakeup_log, SpaceInv
<1>12. ASSUME NEW b \in Blocks, Evict(b) PROVE SpaceInv'
  <2>1. Active' = Active /\ \A q \in Ops : pc'[q] = "log" => pc[q] = "log"
    BY <1>12 DEF Evict, Active
  <2> QED
    BY <1>12, <2>1, SpaceKept DEF Evict, SpaceInv
<1>13. CASE Crash
  <2>1. Active' = {} /\ \A q \in Ops : used'[q] = {} /\ pc'[q] # "log"
    BY <1>13 DEF Crash, Active, SpaceInv, ControlInv, CommitsAlone, CommitPcs
  <2>2. outstanding' = 0 /\ ~panicked' /\ Len(lh') \in Nat /\ Len(lh') <= LOGSIZE
        /\ Len(dhead') <= LOGSIZE
    BY <1>13 DEF Crash, SpaceInv, ControlInv, CommitsAlone, CommitPcs
  <2> QED
    BY <2>1, <2>2, SpaceIdle
<1>14. CASE read_head
  <2>1. Active' = {} /\ Active = {} /\ \A q \in Ops : used'[q] = {} /\ pc'[q] # "log"
    BY <1>14 DEF read_head, Active, SpaceInv, ControlInv
  <2>2. outstanding' = 0
    BY <1>14, <2>1, FS_EmptySet DEF read_head, SpaceInv
  <2>3. ~panicked' /\ Len(lh') \in Nat /\ Len(lh') <= LOGSIZE /\ Len(dhead') <= LOGSIZE
    BY <1>14 DEF read_head, SpaceInv, ControlInv
  <2> QED
    BY <2>1, <2>2, <2>3, SpaceIdle
<1>15. CASE RecoverInstall
  <2>1. Active' = Active /\ \A q \in Ops : pc'[q] = "log" => pc[q] = "log"
    BY <1>15 DEF RecoverInstall, Active
  <2> QED
    BY <1>15, <2>1, SpaceKept DEF RecoverInstall, SpaceInv
<1>16. CASE RecoverClear
  <2>1. Active' = {} /\ Active = {} /\ \A q \in Ops : used'[q] = {} /\ pc'[q] # "log"
    BY <1>16 DEF RecoverClear, Active, SpaceInv, ControlInv
  <2>2. outstanding' = 0
    BY <1>16, <2>1, FS_EmptySet DEF RecoverClear, SpaceInv
  <2>3. ~panicked' /\ Len(lh') \in Nat /\ Len(lh') <= LOGSIZE /\ Len(dhead') <= LOGSIZE
    BY <1>16 DEF RecoverClear, SpaceInv, ControlInv
  <2> QED
    BY <2>1, <2>2, <2>3, SpaceIdle
<1>17. CASE UNCHANGED vars
  <2>1. Active' = Active /\ \A q \in Ops : pc'[q] = "log" => pc[q] = "log"
    BY <1>17 DEF vars, Active
  <2> QED
    BY <1>17, <2>1, SpaceKept DEF vars, SpaceInv
<1> QED
  BY <1>1, <1>2, <1>3, <1>4, <1>5, <1>6, <1>7, <1>8, <1>9, <1>10, <1>11, <1>12, <1>13, <1>14, <1>15, <1>16, <1>17 DEF Next, Step, Recover

\* Every variable keeps its type; the log header has room for every logged block.
LEMMA TypeStep == IInv /\ SpaceInv' /\ [Next]_vars => TypeOK'
<1> SUFFICES ASSUME IInv, SpaceInv', [Next]_vars PROVE TypeOK'
  OBVIOUS
<1> USE LogAssumption DEF IInv, TypeOK, disk, mem, bufs, PCs, Up
<1>1. ASSUME NEW o \in Ops, CallBegin(o) PROVE TypeOK'
  BY <1>1 DEF CallBegin, Goto
<1>2. ASSUME NEW o \in Ops, NEW b \in Blocks, NEW v \in Values, LogWriteTest(o, b, v) PROVE TypeOK'
  <2>1. panicked' \in BOOLEAN
    BY <1>2 DEF LogWriteTest
  <2>2. CASE panicked'
    BY <1>2, <2>1, <2>2 DEF LogWriteTest
  <2>3. CASE ~panicked'
    <3>1. used' = [used EXCEPT ![o] = used[o] \cup {b}] /\ pc' = [pc EXCEPT ![o] = "log"]
      BY <1>2, <2>3 DEF LogWriteTest, Goto
    <3> QED
      BY <1>2, <2>1, <3>1 DEF LogWriteTest
  <2> QED
    BY <2>2, <2>3
<1>3. ASSUME NEW o \in Ops, end_op(o) PROVE TypeOK'
  <2>1. outstanding' \in Nat
    BY FS_CardinalityType DEF SpaceInv
  <2>2. CASE outstanding - 1 = 0
    BY <1>3, <2>1, <2>2 DEF end_op, Goto
  <2>3. CASE outstanding - 1 # 0
    BY <1>3, <2>1, <2>3 DEF end_op, wakeup_log
  <2> QED
    BY <2>2, <2>3
<1>4. ASSUME NEW o \in Ops, begin_op(o) PROVE TypeOK'
  <2>1. CASE committing \/ NoSpace
    BY <1>4, <2>1 DEF begin_op, Goto
  <2>2. CASE ~(committing \/ NoSpace)
    <3>1. outstanding' \in Nat
      BY <1>4, <2>2 DEF begin_op
    <3> QED
      BY <1>4, <2>2, <3>1 DEF begin_op, Goto
  <2> QED
    BY <2>1, <2>2
<1>5. ASSUME NEW o \in Ops, log_write(o) PROVE TypeOK'
  <2>1. blk[o] \in Blocks
    BY <1>5 DEF log_write, CacheInv
  <2>2. lh' \in Seq(Blocks)
    BY <1>5, <2>1, AbsorbAdds DEF log_write
  <2>3. Len(lh') <= LOGSIZE
    <3>1. (SpaceInv => Cardinality(Room) \in Nat)'
      BY RoomSize, PTL
    <3> QED
      BY SMTT(60), <2>2, <3>1 DEF SpaceInv
  <2> QED
    BY <1>5, <2>1, <2>2, <2>3 DEF log_write, Goto
<1>6. ASSUME NEW o \in Ops, commit(o) PROVE TypeOK'
  BY <1>6 DEF commit, Goto
<1>7. ASSUME NEW o \in Ops, write_log(o) PROVE TypeOK'
  <2>1. CASE tail[o] <= Len(lh)
    <3>1. tail[o] \in 1..LOGSIZE /\ lh[tail[o]] \in Blocks
      BY <2>1
    <3>2. bread(lh[tail[o]]) \in Values
      BY <3>1 DEF bread
    <3>3. dlog' \in [1..LOGSIZE -> Values]
      BY <1>7, <2>1, <3>1, <3>2 DEF write_log
    <3>4. tail' \in [Ops -> 1..(LOGSIZE + 1)]
      <4>1. tail' = [tail EXCEPT ![o] = tail[o] + 1]
        BY <1>7, <2>1 DEF write_log
      <4>2. tail[o] + 1 \in 1..(LOGSIZE + 1)
        BY <3>1
      <4> QED
        BY <4>1, <4>2
    <3> QED
      BY <1>7, <2>1, <3>3, <3>4 DEF write_log
  <2>2. CASE ~(tail[o] <= Len(lh))
    BY <1>7, <2>2 DEF write_log, Goto
  <2> QED
    BY <2>1, <2>2
<1>8. ASSUME NEW o \in Ops, write_head(o) PROVE TypeOK'
  BY <1>8 DEF write_head, Goto
<1>9. ASSUME NEW o \in Ops, install_trans(o) PROVE TypeOK'
  <2>1. CASE tail[o] <= Len(lh)
    <3>1. tail[o] \in 1..LOGSIZE /\ lh[tail[o]] \in Blocks /\ dlog[tail[o]] \in Values
      BY <2>1
    <3>2. tail' \in [Ops -> 1..(LOGSIZE + 1)]
      <4>1. tail' = [tail EXCEPT ![o] = tail[o] + 1]
        BY <1>9, <2>1 DEF install_trans
      <4>2. tail[o] + 1 \in 1..(LOGSIZE + 1)
        BY <3>1
      <4> QED
        BY <4>1, <4>2
    <3> QED
      BY ZenonT(60), <1>9, <2>1, <3>1, <3>2 DEF install_trans
  <2>2. CASE ~(tail[o] <= Len(lh))
    BY <1>9, <2>2 DEF install_trans, Goto
  <2> QED
    BY <2>1, <2>2
<1>10. ASSUME NEW o \in Ops, ClearLog(o) PROVE TypeOK'
  BY <1>10 DEF ClearLog, Goto
<1>11. ASSUME NEW o \in Ops, EndCommit(o) PROVE TypeOK'
  <2>1. tail' \in [Ops -> 1..(LOGSIZE + 1)] /\ pc' \in [Ops -> PCs]
    BY <1>11 DEF EndCommit, wakeup_log
  <2> QED
    BY <1>11, <2>1 DEF EndCommit
<1>12. ASSUME NEW b \in Blocks, Evict(b) PROVE TypeOK'
  BY <1>12 DEF Evict
<1>13. CASE Crash
  <2>1. tail' \in [Ops -> 1..(LOGSIZE + 1)] /\ rtail' \in 1..(LOGSIZE + 1)
    BY <1>13 DEF Crash
  <2>2. lh' \in Seq(Blocks) /\ Len(lh') <= LOGSIZE
    BY <1>13 DEF Crash
  <2> QED
    BY <1>13, <2>1, <2>2 DEF Crash
<1>14. CASE read_head
  BY <1>14 DEF read_head
<1>15. CASE RecoverInstall
  <2>1. CASE rtail <= Len(lh)
    <3>1. rtail \in 1..LOGSIZE /\ lh[rtail] \in Blocks /\ dlog[rtail] \in Values
      BY <2>1
    <3>2. rtail' \in 1..(LOGSIZE + 1)
      BY <1>15, <2>1, <3>1 DEF RecoverInstall
    <3> QED
      BY <1>15, <2>1, <3>1, <3>2 DEF RecoverInstall
  <2>2. CASE ~(rtail <= Len(lh))
    BY <1>15, <2>2 DEF RecoverInstall
  <2> QED
    BY <2>1, <2>2
<1>16. CASE RecoverClear
  BY <1>16 DEF RecoverClear
<1>17. CASE UNCHANGED vars
  BY <1>17 DEF vars
<1> QED
  BY <1>1, <1>2, <1>3, <1>4, <1>5, <1>6, <1>7, <1>8, <1>9, <1>10, <1>11, <1>12, <1>13, <1>14, <1>15, <1>16, <1>17 DEF Next, Step, Recover

\* One process commits, alone; sleepers have somebody to wake them.
LEMMA ControlStep == IInv /\ [Next]_vars => ControlInv'
<1> SUFFICES ASSUME IInv, [Next]_vars PROVE ControlInv'
  OBVIOUS
<1> USE LogAssumption DEF IInv, TypeOK, disk, mem, bufs, PCs, Up, ControlInv, CommitsAlone, SleeperHasWaker, CommitPcs
<1>1. ASSUME NEW o \in Ops, CallBegin(o) PROVE ControlInv'
  BY <1>1 DEF CallBegin, Goto
<1>2. ASSUME NEW o \in Ops, NEW b \in Blocks, NEW v \in Values, LogWriteTest(o, b, v) PROVE ControlInv'
  BY <1>2 DEF LogWriteTest, Goto
<1>3. ASSUME NEW o \in Ops, end_op(o) PROVE ControlInv'
  <2>1. ~committing
    BY <1>3 DEF end_op
  <2>2. /\ outstanding \in Nat \ {0}
        /\ outstanding = 1 => \A q \in Ops : q # o => pc[q] \notin {"run", "log"}
    BY <1>3, SoleActive DEF end_op, Active
  <2>3. CASE outstanding - 1 = 0
    <3>1. outstanding = 1 /\ outstanding' = 0 /\ committing' /\ ~panicked'
      BY <1>3, <2>1, <2>2, <2>3 DEF end_op
    <3>2. pc' = [pc EXCEPT ![o] = "commit"]
      BY <1>3, <2>3 DEF end_op, Goto
    <3> QED
      BY <1>3, <2>1, <2>2, <3>1, <3>2 DEF end_op
  <2>4. CASE outstanding - 1 # 0
    <3>1. outstanding' > 0 /\ committing' = committing /\ ~panicked'
      BY <1>3, <2>1, <2>2, <2>4 DEF end_op
    <3>2. \A q \in Ops : pc'[q] = IF q = o THEN "idle" ELSE IF pc[q] = "asleep" THEN "begin" ELSE pc[q]
      BY <1>3, <2>4 DEF end_op, wakeup_log
    <3> QED
      BY <1>3, <2>1, <2>2, <3>1, <3>2 DEF end_op
  <2> QED
    BY <2>3, <2>4
<1>4. ASSUME NEW o \in Ops, begin_op(o) PROVE ControlInv'
  <2>1. CASE committing \/ NoSpace
    <3>1. committing \/ outstanding > 0
      <4> SUFFICES ASSUME outstanding = 0, ~committing PROVE FALSE
        OBVIOUS
      <4>1. Len(lh) = 0
        BY <1>4 DEF begin_op
      <4>2. (0 + 1) * MAXOPBLOCKS = MAXOPBLOCKS
        OBVIOUS
      <4> QED
        BY <2>1, <4>1, <4>2 DEF NoSpace
    <3>2. pc' = [pc EXCEPT ![o] = "asleep"] /\ UNCHANGED outstanding
      BY <1>4, <2>1 DEF begin_op, Goto
    <3> QED
      BY <1>4, <3>1, <3>2 DEF begin_op
  <2>2. CASE ~(committing \/ NoSpace)
    <3>1. pc' = [pc EXCEPT ![o] = "run"] /\ outstanding' = outstanding + 1 /\ ~committing
      BY <1>4, <2>2 DEF begin_op, Goto
    <3>2. outstanding' > 0
      BY <3>1
    <3> QED
      BY <1>4, <3>1, <3>2 DEF begin_op
  <2> QED
    BY <2>1, <2>2
<1>5. ASSUME NEW o \in Ops, log_write(o) PROVE ControlInv'
  <2>1. outstanding \in Nat \ {0}
    BY <1>5, SoleActive DEF log_write, Active
  <2>2. ~committing
    BY <1>5 DEF log_write
  <2> QED
    BY <1>5, <2>1, <2>2 DEF log_write, Goto
<1>6. ASSUME NEW o \in Ops, commit(o) PROVE ControlInv'
  BY <1>6 DEF commit, Goto
<1>7. ASSUME NEW o \in Ops, write_log(o) PROVE ControlInv'
  <2>1. pc' = pc \/ pc' = [pc EXCEPT ![o] = "write_head"]
    BY <1>7 DEF write_log, Goto
  <2>2. UNCHANGED <<outstanding, committing, lh, boot, panicked>>
    BY <1>7 DEF write_log
  <2> QED
    BY <1>7, <2>1, <2>2 DEF write_log
<1>8. ASSUME NEW o \in Ops, write_head(o) PROVE ControlInv'
  BY <1>8 DEF write_head, Goto
<1>9. ASSUME NEW o \in Ops, install_trans(o) PROVE ControlInv'
  <2>1. pc' = pc \/ pc' = [pc EXCEPT ![o] = "clear"]
    BY <1>9 DEF install_trans, Goto
  <2>2. UNCHANGED <<outstanding, committing, lh, boot, panicked>>
    BY <1>9 DEF install_trans
  <2> QED
    <3>1. CASE pc' = pc
      BY <2>2, <3>1
    <3>2. CASE pc' # pc
      <4>1. pc[o] = "install" /\ pc'[o] = "clear" /\ \A q \in Ops : q # o => pc'[q] = pc[q]
        BY <1>9, <2>1, <3>2 DEF install_trans
      <4>2. CommitsAlone' /\ SleeperHasWaker'
        BY <2>2, <4>1
      <4>3. /\ committing' => \E q \in Ops : pc'[q] \in CommitPcs
            /\ boot' # "up" => ~panicked' /\ ~committing' /\ \A q \in Ops : pc'[q] = "idle"
        BY <2>2, <4>1
      <4>4. boot' = "up" /\ outstanding' = 0 /\ ~committing' => lh' = <<>>
        BY <2>2
      <4> QED
        BY <4>2, <4>3, <4>4
    <3> QED
      BY <3>1, <3>2
<1>10. ASSUME NEW o \in Ops, ClearLog(o) PROVE ControlInv'
  BY <1>10 DEF ClearLog, Goto
<1>11. ASSUME NEW o \in Ops, EndCommit(o) PROVE ControlInv'
  <2>1. lh = <<>>
    BY <1>11 DEF EndCommit, LogInv
  <2>2. \A q \in Ops : pc'[q] = IF q = o THEN "idle" ELSE IF pc[q] = "asleep" THEN "begin" ELSE pc[q]
    BY <1>11 DEF EndCommit, wakeup_log
  <2>3. \A q \in Ops : pc'[q] \in {"idle", "begin"}
    BY <1>11, <2>2 DEF EndCommit
  <2> QED
    BY <1>11, <2>1, <2>3 DEF EndCommit
<1>12. ASSUME NEW b \in Blocks, Evict(b) PROVE ControlInv'
  BY <1>12 DEF Evict
<1>13. CASE Crash
  BY <1>13 DEF Crash
<1>14. CASE read_head
  BY <1>14 DEF read_head
<1>15. CASE RecoverInstall
  BY <1>15 DEF RecoverInstall
<1>16. CASE RecoverClear
  BY <1>16 DEF RecoverClear
<1>17. CASE UNCHANGED vars
  BY SMTT(60), <1>17 DEF vars
<1> QED
  BY <1>1, <1>2, <1>3, <1>4, <1>5, <1>6, <1>7, <1>8, <1>9, <1>10, <1>11, <1>12, <1>13, <1>14, <1>15, <1>16, <1>17 DEF Next, Step, Recover

\* Each stage of commit and recovery leaves the log as the next one needs it.
LEMMA LogStep == IInv /\ [Next]_vars => LogInv'
<1> SUFFICES ASSUME IInv, [Next]_vars PROVE LogInv'
  OBVIOUS
<1> USE LogAssumption DEF IInv, TypeOK, disk, mem, bufs, PCs, Up, ControlInv, CommitsAlone, CommitPcs, LogInv, Distinct, Installing
<1>1. ASSUME NEW o \in Ops, CallBegin(o) PROVE LogInv'
  BY SMTT(60), <1>1 DEF CallBegin, Goto
<1>2. ASSUME NEW o \in Ops, NEW b \in Blocks, NEW v \in Values, LogWriteTest(o, b, v) PROVE LogInv'
  <2>1. ASSUME NEW q \in Ops PROVE pc[q] \notin CommitPcs /\ pc'[q] \notin CommitPcs
    <3>1. pc[q] \notin CommitPcs
      BY <1>2 DEF LogWriteTest
    <3> QED
      BY <1>2, <3>1 DEF LogWriteTest, Goto
  <2>2. UNCHANGED <<lh, dhead, dlog, home, dirty, boot, rtail>>
    BY <1>2 DEF LogWriteTest
  <2> QED
    BY <2>1, <2>2
<1>3. ASSUME NEW o \in Ops, end_op(o) PROVE LogInv'
  <2>1. ASSUME NEW q \in Ops PROVE pc[q] \notin CommitPcs /\ pc'[q] \notin CommitPcs \ {"commit"}
    <3>1. pc[q] \notin CommitPcs
      BY <1>3 DEF end_op
    <3> QED
      BY <1>3, <3>1 DEF end_op, Goto, wakeup_log
  <2>2. UNCHANGED <<lh, dhead, dlog, home, dirty, boot, rtail>>
    BY <1>3 DEF end_op
  <2> QED
    BY SMTT(60), <2>1, <2>2
<1>4. ASSUME NEW o \in Ops, begin_op(o) PROVE LogInv'
  BY SMTT(60), <1>4 DEF begin_op, Goto
<1>5. ASSUME NEW o \in Ops, log_write(o) PROVE LogInv'
  <2>1. ASSUME NEW q \in Ops PROVE pc[q] \notin CommitPcs /\ pc'[q] \notin CommitPcs
    <3>1. pc[q] \notin CommitPcs
      BY <1>5 DEF log_write
    <3> QED
      BY <1>5, <3>1 DEF log_write, Goto
  <2>2. blk[o] \in Blocks
    BY <1>5 DEF log_write, CacheInv
  <2>3. /\ lh' = Absorb(lh, blk[o]) /\ dirty' = [dirty EXCEPT ![blk[o]] = TRUE]
        /\ UNCHANGED <<dhead, dlog, home, boot, rtail>> /\ boot = "up"
    BY <1>5 DEF log_write
  <2> HIDE DEF Distinct
  <2>4. Distinct(lh')
    BY <2>2, <2>3, AbsorbAdds
  <2>5. ASSUME NEW k \in 1..Len(lh') PROVE dirty'[lh'[k]]
    <3>1. lh'[k] \in Logged(lh')
      BY DEF Logged
    <3>2. Logged(lh') = Logged(lh) \cup {blk[o]}
      BY <2>2, <2>3, AbsorbLogged
    <3>3. \A b \in Logged(lh) : b \in Blocks /\ dirty[b]
      BY <2>1, <2>3 DEF Logged
    <3> QED
      BY <2>2, <2>3, <3>1, <3>2, <3>3
  <2> QED
    BY SMTT(60), <2>1, <2>3, <2>4, <2>5
<1>6. ASSUME NEW o \in Ops, commit(o) PROVE LogInv'
  BY SMTT(60), <1>6 DEF commit, Goto
<1>7. ASSUME NEW o \in Ops, write_log(o) PROVE LogInv'
  <2>1. \A q \in Ops : q # o => pc[q] \notin CommitPcs
    BY ZenonT(60), <1>7 DEF write_log
  <2>2. UNCHANGED <<lh, dhead, home, cache, dirty, boot, rtail>> /\ boot = "up"
    BY <1>7 DEF write_log
  <2>3. \A k \in 1..Len(lh) : dirty[lh[k]] /\ lh[k] \in Blocks /\ cache[lh[k]] # NotCached
    BY SMTT(60), <1>7, <2>1 DEF write_log, CacheInv
  <2>4. CASE tail[o] <= Len(lh)
    <3>1. tail[o] \in 1..Len(lh) /\ tail[o] \in 1..LOGSIZE
      BY <2>4
    <3>2. /\ dlog' = [dlog EXCEPT ![tail[o]] = cache[lh[tail[o]]]]
          /\ tail' = [tail EXCEPT ![o] = tail[o] + 1]
          /\ pc' = pc
      BY <1>7, <2>3, <2>4, <3>1 DEF write_log, bread
    <3>3. ASSUME NEW k \in 1..Len(lh), k < tail'[o] PROVE dlog'[k] = cache[lh[k]]
      <4>1. k \in 1..LOGSIZE /\ (k < tail[o] \/ k = tail[o])
        BY <3>1, <3>2, <3>3
      <4> QED
        BY <1>7, <3>1, <3>2, <4>1 DEF write_log
    <3> QED
      BY SMTT(60), <1>7, <2>1, <2>2, <2>3, <3>2, <3>3 DEF write_log
  <2>5. CASE ~(tail[o] <= Len(lh))
    <3>1. pc' = [pc EXCEPT ![o] = "write_head"] /\ UNCHANGED <<dlog, tail>>
      BY <1>7, <2>5 DEF write_log, Goto
    <3>2. \A k \in 1..Len(lh) : dlog[k] = cache[lh[k]]
      BY <1>7, <2>5 DEF write_log
    <3> QED
      BY <1>7, <2>1, <2>2, <2>3, <3>1, <3>2 DEF write_log
  <2> QED
    BY <2>4, <2>5
<1>8. ASSUME NEW o \in Ops, write_head(o) PROVE LogInv'
  <2>1. \A q \in Ops : q # o => pc[q] \notin CommitPcs
    BY ZenonT(60), <1>8 DEF write_head
  <2>2. /\ UNCHANGED <<lh, dlog, home, cache, dirty, boot, rtail>> /\ boot = "up"
        /\ dhead' = lh /\ pc' = [pc EXCEPT ![o] = "install"] /\ tail' = [tail EXCEPT ![o] = 1]
    BY <1>8 DEF write_head, Goto
  <2>3. \A k \in 1..Len(lh) : dirty[lh[k]] /\ dlog[k] = cache[lh[k]]
    BY <1>8, <2>1 DEF write_head
  <2>4. \A k \in 1..Len(lh) : k >= tail'[o]
    BY <2>2
  <2>5. Installing'
    BY <2>2
  <2> QED
    BY <2>1, <2>2, <2>3, <2>4, <2>5
<1>9. ASSUME NEW o \in Ops, install_trans(o) PROVE LogInv'
  <2>1. \A q \in Ops : q # o => pc[q] \notin CommitPcs
    BY ZenonT(60), <1>9 DEF install_trans
  <2>2. UNCHANGED <<lh, dhead, dlog, boot, rtail>> /\ boot = "up" /\ dhead = lh
    BY <1>9 DEF install_trans
  <2>3. pc'[o] \in {"install", "clear"} /\ \A q \in Ops : q # o => pc'[q] = pc[q]
    BY <1>9 DEF install_trans, Goto
  <2>4. CASE tail[o] <= Len(lh)
    <3>1. tail[o] \in 1..Len(lh) /\ tail[o] \in 1..LOGSIZE /\ lh[tail[o]] \in Blocks
      BY <2>4
    <3>2. /\ home' = [home EXCEPT ![lh[tail[o]]] = dlog[tail[o]]]
          /\ cache' = [cache EXCEPT ![lh[tail[o]]] = dlog[tail[o]]]
          /\ dirty' = [dirty EXCEPT ![lh[tail[o]]] = FALSE]
          /\ tail' = [tail EXCEPT ![o] = tail[o] + 1]
          /\ pc' = pc /\ pc[o] = "install"
      BY <1>9, <2>4 DEF install_trans
    <3>3. ASSUME NEW k \in 1..Len(lh)
          PROVE  /\ k >= tail'[o] => dirty'[lh[k]] /\ dlog[k] = cache'[lh[k]]
                 /\ k < tail'[o] => ~dirty'[lh[k]] /\ dlog[k] = home'[lh[k]]
      <4>1. CASE k = tail[o]
        BY <3>1, <3>2, <4>1
      <4>2. CASE k # tail[o]
        <5>1. lh[k] # lh[tail[o]] /\ lh[k] \in Blocks
          BY <3>1, <4>2
        <5>2. (k >= tail'[o] <=> k >= tail[o]) /\ (k < tail'[o] <=> k < tail[o])
          BY <3>1, <3>2, <4>2
        <5> QED
          BY <3>1, <3>2, <5>1, <5>2
      <4> QED
        BY <4>1, <4>2
    <3> QED
      BY <2>1, <2>2, <2>3, <3>2, <3>3
  <2>5. CASE ~(tail[o] <= Len(lh))
    <3>1. pc' = [pc EXCEPT ![o] = "clear"] /\ UNCHANGED <<home, cache, dirty, tail>>
      BY <1>9, <2>5 DEF install_trans, Goto
    <3>2. \A k \in 1..Len(lh) : ~dirty[lh[k]] /\ dlog[k] = home[lh[k]]
      BY <1>9, <2>5 DEF install_trans
    <3> QED
      BY <2>1, <2>2, <2>3, <3>1, <3>2
  <2> QED
    BY <2>4, <2>5
<1>10. ASSUME NEW o \in Ops, ClearLog(o) PROVE LogInv'
  BY <1>10 DEF ClearLog, Goto
<1>11. ASSUME NEW o \in Ops, EndCommit(o) PROVE LogInv'
  BY <1>11 DEF EndCommit, wakeup_log
<1>12. ASSUME NEW b \in Blocks, Evict(b) PROVE LogInv'
  <2>1. ~dirty[b] /\ cache' = [cache EXCEPT ![b] = NotCached]
        /\ UNCHANGED <<lh, dhead, dlog, home, dirty, boot, rtail, pc, tail>>
    BY <1>12 DEF Evict
  <2>2. ASSUME NEW o \in Ops, NEW k \in 1..Len(lh), pc[o] \in {"write_log", "write_head"}
        PROVE  cache'[lh[k]] = cache[lh[k]]
    <3>1. ~Installing /\ boot = "up"
      BY ZenonT(60), <1>12, <2>2 DEF Evict
    <3> QED
      BY <2>1, <3>1
  <2>3. ASSUME NEW o \in Ops, NEW k \in 1..Len(lh), pc[o] = "install", k >= tail[o]
        PROVE  cache'[lh[k]] = cache[lh[k]]
    BY <2>1, <2>3
  <2> QED
    BY <2>1, <2>2, <2>3
<1>13. CASE Crash
  BY <1>13 DEF Crash
<1>14. CASE read_head
  BY <1>14 DEF read_head
<1>15. CASE RecoverInstall
  BY <1>15 DEF RecoverInstall
<1>16. CASE RecoverClear
  BY <1>16 DEF RecoverClear
<1>17. CASE UNCHANGED vars
  BY <1>17 DEF vars
<1> QED
  BY <1>1, <1>2, <1>3, <1>4, <1>5, <1>6, <1>7, <1>8, <1>9, <1>10, <1>11, <1>12, <1>13, <1>14, <1>15, <1>16, <1>17 DEF Next, Step, Recover

\* A buffer that differs from its home block is pinned in the cache.
LEMMA CacheStep == IInv /\ [Next]_vars => CacheInv'
<1> SUFFICES ASSUME IInv, [Next]_vars PROVE CacheInv'
  OBVIOUS
<1> USE LogAssumption DEF IInv, TypeOK, disk, mem, bufs, PCs, Up, ControlInv, CommitsAlone, CommitPcs, CacheInv, Logged
<1>1. ASSUME NEW o \in Ops, CallBegin(o) PROVE CacheInv'
  BY <1>1 DEF CallBegin, Goto
<1>2. ASSUME NEW o \in Ops, NEW b \in Blocks, NEW v \in Values, LogWriteTest(o, b, v) PROVE CacheInv'
  <2>1. /\ cache' = [cache EXCEPT ![b] = v] /\ holder' = [holder EXCEPT ![b] = o]
        /\ blk' = [blk EXCEPT ![o] = b] /\ holder[b] = NoOp /\ v # NotCached
        /\ UNCHANGED <<home, dirty, lh, boot>> /\ boot = "up" /\ ~panicked /\ pc[o] = "run"
        /\ o # NoOp
    BY <1>2 DEF LogWriteTest
  <2>2. /\ ~panicked' => pc'[o] = "log"
        /\ panicked' => pc'[o] = "run"
        /\ \A q \in Ops : q # o => pc'[q] = pc[q]
    BY <1>2 DEF LogWriteTest, Goto
  <2>3. ASSUME NEW d \in Blocks
        PROVE  /\ holder'[d] = NoOp /\ ~dirty'[d] => cache'[d] \in {NotCached, home'[d]}
               /\ dirty'[d] => cache'[d] # NotCached /\ d \in Logged(lh') /\ boot' = "up"
               /\ holder'[d] # NoOp => /\ cache'[d] # NotCached
                                       /\ panicked' \/ (pc'[holder'[d]] = "log" /\ blk'[holder'[d]] = d)
                                       /\ boot' = "up"
    <3>1. CASE d = b
      BY <2>1, <2>2, <3>1
    <3>2. CASE d # b
      BY <2>1, <2>2, <3>2
    <3> QED
      BY <3>1, <3>2
  <2>4. ASSUME NEW q \in Ops, pc'[q] = "log" PROVE blk'[q] \in Blocks /\ holder'[blk'[q]] = q
    BY <2>1, <2>2, <2>4
  <2> QED
    BY <2>3, <2>4
<1>3. ASSUME NEW o \in Ops, end_op(o) PROVE CacheInv'
  <2>1. \A q \in Ops : pc[q] = "log" <=> pc'[q] = "log"
    BY <1>3 DEF end_op, Goto, wakeup_log
  <2>2. UNCHANGED <<cache, holder, home, dirty, lh, boot, blk>> /\ ~panicked
    BY <1>3 DEF end_op
  <2> QED
    BY <2>1, <2>2
<1>4. ASSUME NEW o \in Ops, begin_op(o) PROVE CacheInv'
  BY <1>4 DEF begin_op, Goto
<1>5. ASSUME NEW o \in Ops, log_write(o) PROVE CacheInv'
  <2>1. blk[o] \in Blocks /\ holder[blk[o]] = o /\ cache[blk[o]] # NotCached /\ o # NoOp
    BY <1>5 DEF log_write
  <2>2. /\ dirty' = [dirty EXCEPT ![blk[o]] = TRUE] /\ holder' = [holder EXCEPT ![blk[o]] = NoOp]
        /\ blk' = [blk EXCEPT ![o] = NoBlock] /\ pc' = [pc EXCEPT ![o] = "run"]
        /\ UNCHANGED <<cache, home, boot, panicked>> /\ boot = "up" /\ ~panicked /\ pc[o] = "log"
    BY <1>5 DEF log_write, Goto
  <2> HIDE DEF Logged
  <2>3. Logged(lh') = Logged(lh) \cup {blk[o]}
    BY <1>5, <2>1, AbsorbAdds DEF log_write
  <2>4. ASSUME NEW d \in Blocks
        PROVE  /\ holder'[d] = NoOp /\ ~dirty'[d] => cache'[d] \in {NotCached, home'[d]}
               /\ dirty'[d] => cache'[d] # NotCached /\ d \in Logged(lh') /\ boot' = "up"
               /\ holder'[d] # NoOp => /\ cache'[d] # NotCached
                                       /\ panicked' \/ (pc'[holder'[d]] = "log" /\ blk'[holder'[d]] = d)
                                       /\ boot' = "up"
    <3>1. CASE d = blk[o]
      BY <2>1, <2>2, <2>3, <3>1
    <3>2. CASE d # blk[o]
      BY <2>1, <2>2, <2>3, <3>2
    <3> QED
      BY <3>1, <3>2
  <2>5. ASSUME NEW q \in Ops, pc'[q] = "log" PROVE blk'[q] \in Blocks /\ holder'[blk'[q]] = q
    BY <2>1, <2>2, <2>5
  <2> QED
    BY <2>4, <2>5
<1>6. ASSUME NEW o \in Ops, commit(o) PROVE CacheInv'
  BY <1>6 DEF commit, Goto
<1>7. ASSUME NEW o \in Ops, write_log(o) PROVE CacheInv'
  BY <1>7 DEF write_log, Goto
<1>8. ASSUME NEW o \in Ops, write_head(o) PROVE CacheInv'
  BY <1>8 DEF write_head, Goto
<1>9. ASSUME NEW o \in Ops, install_trans(o) PROVE CacheInv'
  <2>1. CASE tail[o] <= Len(lh)
    <3>1. lh[tail[o]] \in Blocks /\ dlog[tail[o]] \in Values
      BY <2>1
    <3>2. /\ home' = [home EXCEPT ![lh[tail[o]]] = dlog[tail[o]]]
          /\ cache' = [cache EXCEPT ![lh[tail[o]]] = dlog[tail[o]]]
          /\ dirty' = [dirty EXCEPT ![lh[tail[o]]] = FALSE]
          /\ pc' = pc /\ UNCHANGED <<holder, blk, lh, boot, panicked>>
      BY <1>9, <2>1 DEF install_trans
    <3> QED
      BY <3>1, <3>2
  <2>2. CASE ~(tail[o] <= Len(lh))
    BY <1>9, <2>2 DEF install_trans, Goto
  <2> QED
    BY <2>1, <2>2
<1>10. ASSUME NEW o \in Ops, ClearLog(o) PROVE CacheInv'
  <2>1. ASSUME NEW b \in Blocks PROVE ~dirty[b]
    BY <1>10 DEF ClearLog, LogInv
  <2> QED
    BY <1>10, <2>1 DEF ClearLog, Goto
<1>11. ASSUME NEW o \in Ops, EndCommit(o) PROVE CacheInv'
  BY <1>11 DEF EndCommit, wakeup_log
<1>12. ASSUME NEW b \in Blocks, Evict(b) PROVE CacheInv'
  BY <1>12 DEF Evict
<1>13. CASE Crash
  BY <1>13 DEF Crash
<1>14. CASE read_head
  BY <1>14 DEF read_head
<1>15. CASE RecoverInstall
  <2>1. CASE rtail <= Len(lh)
    <3>1. lh[rtail] \in Blocks /\ dlog[rtail] \in Values
      BY <2>1
    <3>2. /\ home' = [home EXCEPT ![lh[rtail]] = dlog[rtail]]
          /\ cache' = [cache EXCEPT ![lh[rtail]] = dlog[rtail]]
          /\ UNCHANGED <<dirty, pc, holder, blk, lh, boot, panicked>>
      BY <1>15, <2>1 DEF RecoverInstall
    <3>3. boot # "up"
      BY <1>15 DEF RecoverInstall
    <3> QED
      BY <3>1, <3>2, <3>3
  <2>2. CASE ~(rtail <= Len(lh))
    BY <1>15, <2>2 DEF RecoverInstall
  <2> QED
    BY <2>1, <2>2
<1>16. CASE RecoverClear
  BY <1>16 DEF RecoverClear
<1>17. CASE UNCHANGED vars
  BY <1>17 DEF vars
<1> QED
  BY <1>1, <1>2, <1>3, <1>4, <1>5, <1>6, <1>7, <1>8, <1>9, <1>10, <1>11, <1>12, <1>13, <1>14, <1>15, <1>16, <1>17 DEF Next, Step, Recover

\* A disk made by mkfs, before recovery.
LEMMA InitInv == Init => IInv
<1> SUFFICES ASSUME Init PROVE IInv
  OBVIOUS
<1> USE LogAssumption
<1>1. TypeOK
  <2>1. tail \in [Ops -> 1..(LOGSIZE + 1)] /\ rtail \in 1..(LOGSIZE + 1) /\ outstanding \in Nat
    BY DEF Init
  <2>2. dhead \in Seq(Blocks) /\ Len(dhead) <= LOGSIZE /\ lh \in Seq(Blocks) /\ Len(lh) <= LOGSIZE
    BY DEF Init
  <2>3. dlog \in [1..LOGSIZE -> Values]
    BY DEF Init
  <2> QED
    BY <2>1, <2>2, <2>3 DEF Init, TypeOK, PCs
<1>2. ControlInv
  BY DEF Init, ControlInv, CommitsAlone, SleeperHasWaker, CommitPcs
<1>3. SpaceInv
  <2>1. Active = {} /\ Room = {}
    BY DEF Init, Active, Room
  <2>2. \A o \in Ops : used[o] = {} /\ pc[o] = "idle"
    BY DEF Init
  <2>3. Len(lh) = 0 /\ Len(dhead) = 0 /\ outstanding = 0 /\ ~panicked
    BY DEF Init
  <2>4. IsFiniteSet({}) /\ Cardinality({}) = 0
    BY FS_EmptySet
  <2>5. Len(lh) + Cardinality(Room) <= LOGSIZE /\ Len(dhead) <= LOGSIZE
    BY <2>1, <2>3, <2>4
  <2>6. \A o \in Ops : IsFiniteSet(used[o]) /\ Cardinality(used[o]) <= OpBlocks
    BY <2>2, <2>4
  <2> QED
    BY <2>1, <2>2, <2>3, <2>4, <2>5, <2>6 DEF SpaceInv
<1>4. LogInv
  BY DEF Init, LogInv, Distinct, Installing
<1>5. CacheInv
  BY DEF Init, CacheInv
<1> QED
  BY <1>1, <1>2, <1>3, <1>4, <1>5 DEF IInv

\* The invariant holds in every reachable state.
LEMMA Inductive == Spec => []IInv
<1>1. IInv /\ [Next]_vars => IInv'
  BY TypeStep, ControlStep, SpaceStep, LogStep, CacheStep DEF IInv
<1> QED
  BY <1>1, InitInv, PTL DEF Spec

-----------------------------------------------------------------------------
(***************************************************************************)
(* Type correctness of log.c's state and of the disk; in particular the    *)
(* header never lists more than LOGSIZE blocks, though log_write tests for *)
(* space before it takes log.lock (log.c:218-229).                         *)
(***************************************************************************)
THEOREM TypeCorrect == Spec => []TypeOK
<1>1. IInv => TypeOK
  BY DEF IInv
<1> QED
  BY <1>1, Inductive, PTL

(***************************************************************************)
(* A commit runs while no file system call is active and no other process  *)
(* commits (log.c:142-171), for any number of processes.                   *)
(***************************************************************************)
THEOREM CommitsAloneHolds == Spec => []CommitsAlone
<1>1. IInv => CommitsAlone
  BY DEF IInv, ControlInv
<1> QED
  BY <1>1, Inductive, PTL

(***************************************************************************)
(* Nobody sleeps in begin_op without somebody who will call wakeup(&log)   *)
(* (log.c:126-140, 154-171).                                               *)
(***************************************************************************)
THEOREM SleeperHasWakerHolds == Spec => []SleeperHasWaker
<1>1. IInv => SleeperHasWaker
  BY DEF IInv, ControlInv
<1> QED
  BY <1>1, Inductive, PTL

-----------------------------------------------------------------------------
\* Where calls leave two of their blocks unused, so is the end of the log.
Spare == NLOG >= LOGSIZE /\ OpBlocks + 2 <= MAXOPBLOCKS

FitInv == Spare => ~panicked /\ Len(lh) <= LOGSIZE - 2 /\ Len(dhead) <= LOGSIZE - 2

\* An active call that writes at most OpBlocks blocks has two more reserved.
LEMMA RoomLeft == SpaceInv /\ Active # {} /\ OpBlocks + 2 <= MAXOPBLOCKS => Cardinality(Room) >= 2
<1> SUFFICES ASSUME SpaceInv, NEW o \in Active, OpBlocks + 2 <= MAXOPBLOCKS
             PROVE  Cardinality(Room) >= 2
  OBVIOUS
<1> DEFINE n == Cardinality(used[o] \cap Logged(lh))
<1>1. n \in Nat /\ n <= OpBlocks
  <2>1. IsFiniteSet(used[o]) /\ Cardinality(used[o]) <= OpBlocks
    BY DEF SpaceInv, Active
  <2>2. Cardinality(used[o] \cap Logged(lh)) <= Cardinality(used[o]) /\ IsFiniteSet(used[o] \cap Logged(lh))
    BY <2>1, FS_Intersection
  <2>3. Cardinality(used[o]) \in Nat /\ n \in Nat
    BY <2>1, <2>2, FS_CardinalityType
  <2> QED
    BY <2>1, <2>2, <2>3, LogAssumption
<1> DEFINE s == <<o, MAXOPBLOCKS>>
<1> DEFINE t == <<o, MAXOPBLOCKS - 1>>
<1>2. MAXOPBLOCKS \in 1..MAXOPBLOCKS /\ MAXOPBLOCKS - 1 \in 1..MAXOPBLOCKS /\ s # t
  BY LogAssumption
<1>3. s \in Room /\ t \in Room
  <2>1. MAXOPBLOCKS > n /\ MAXOPBLOCKS - 1 > n
    BY <1>1, LogAssumption
  <2> QED
    BY <1>2, <2>1 DEF Room
<1>4. IsFiniteSet({s}) /\ Cardinality({s}) = 1
  BY FS_Singleton
<1>5. Cardinality({s} \cup {t}) = 2
  <2>1. t \notin {s}
    BY <1>2
  <2> HIDE DEF s, t
  <2>2. Cardinality({s} \cup {t}) = Cardinality({s}) + 1
    BY <1>4, <2>1, FS_AddElement
  <2> QED
    BY <1>4, <2>2
<1>6. {s} \cup {t} \in SUBSET Room /\ IsFiniteSet(Room)
  BY <1>3, RoomBound
<1>7. Cardinality({s} \cup {t}) <= Cardinality(Room)
  BY <1>6, FS_Subset
<1> QED
  BY <1>5, <1>7

\* The log never fills up where calls leave two blocks of their reservation unused.
LEMMA FitStep == IInv /\ IInv' /\ FitInv /\ [Next]_vars => FitInv'
<1> SUFFICES ASSUME IInv, IInv', FitInv, [Next]_vars, Spare PROVE FitInv'
  BY DEF FitInv, Spare
<1>0. ~panicked /\ Len(lh) <= LOGSIZE - 2 /\ Len(dhead) <= LOGSIZE - 2
  BY DEF FitInv
<1> USE LogAssumption DEF disk, mem, Up
<1>1. ASSUME NEW o \in Ops, NEW b \in Blocks, NEW v \in Values, LogWriteTest(o, b, v) PROVE FitInv'
  <2>1. o \in Active
    BY <1>1 DEF LogWriteTest, Active
  <2>2. outstanding >= 1
    BY <2>1, SoleActive DEF IInv
  <2>3. Len(lh) < LOGSIZE /\ Len(lh) < NLOG - 1
    BY <1>0 DEF IInv, TypeOK, Spare
  <2>4. ~panicked'
    BY <1>1, <2>2, <2>3 DEF LogWriteTest, IInv, TypeOK
  <2> QED
    BY <1>0, <1>1, <2>4 DEF LogWriteTest, FitInv
<1>2. ASSUME NEW o \in Ops, log_write(o) PROVE FitInv'
  <2>1. o \in Active'
    BY <1>2 DEF log_write, Goto, Active, IInv, TypeOK
  <2>2. OpBlocks + 2 <= MAXOPBLOCKS /\ SpaceInv'
    BY DEF Spare, IInv
  <2>3. Cardinality(Room') >= 2 /\ Cardinality(Room') \in Nat
    <3>1. (SpaceInv => Cardinality(Room) \in Nat)'
      BY RoomSize, PTL
    <3>2. (SpaceInv /\ Active # {} /\ OpBlocks + 2 <= MAXOPBLOCKS => Cardinality(Room) >= 2)'
      BY RoomLeft, PTL
    <3> QED
      BY <2>1, <2>2, <3>1, <3>2
  <2>4. Len(lh') + Cardinality(Room') <= LOGSIZE /\ Len(lh') \in Nat
    BY <2>2 DEF SpaceInv, IInv, TypeOK
  <2> QED
    BY <1>0, <1>2, <2>3, <2>4 DEF log_write, FitInv
<1>3. ASSUME NEW o \in Ops, end_op(o) PROVE FitInv'
  <2>1. ~committing
    BY <1>3 DEF end_op, IInv, ControlInv, CommitsAlone, CommitPcs
  <2> QED
    BY <1>0, <1>3, <2>1 DEF end_op, FitInv
<1>4. ASSUME NEW o \in Ops, CallBegin(o) \/ begin_op(o) \/ commit(o) \/ write_log(o) \/ install_trans(o) \/ EndCommit(o)
      PROVE  FitInv'
  BY <1>0, <1>4 DEF CallBegin, begin_op, commit, write_log, install_trans, EndCommit, FitInv
<1>5. ASSUME NEW o \in Ops, write_head(o) PROVE FitInv'
  BY <1>0, <1>5 DEF write_head, FitInv
<1>6. Len(<<>>) <= LOGSIZE - 2
  BY DEF Spare
<1>7. ASSUME NEW o \in Ops, ClearLog(o) PROVE FitInv'
  BY <1>0, <1>6, <1>7 DEF ClearLog, FitInv
<1>8. ASSUME NEW b \in Blocks, Evict(b) PROVE FitInv'
  BY <1>0, <1>8 DEF Evict, FitInv
<1>9. CASE Crash
  BY <1>0, <1>6, <1>9 DEF Crash, FitInv
<1>10. CASE Recover
  BY <1>0, <1>6, <1>10 DEF Recover, read_head, RecoverInstall, RecoverClear, FitInv
<1>11. CASE UNCHANGED vars
  BY <1>0, <1>11 DEF vars, FitInv
<1> QED
  BY <1>1, <1>2, <1>3, <1>4, <1>5, <1>7, <1>8, <1>9, <1>10, <1>11 DEF Next, Step

(***************************************************************************)
(* The reservation of begin_op is sound: log_write finds the log full only *)
(* when every active call has written all the blocks it was granted        *)
(* (log.c:132, 218-229).  It holds on a disk whose log has LOGSIZE blocks  *)
(* behind its header; and on the disk of mkfs, whose log is one block      *)
(* shorter, because no call of this repository writes more than seven of   *)
(* its ten blocks: there log_write does not panic at all.                  *)
(***************************************************************************)
THEOREM LogFitsHolds == NLOG > LOGSIZE \/ Spare => (Spec => []LogFits)
<1> SUFFICES ASSUME NLOG > LOGSIZE \/ Spare PROVE Spec => []LogFits
  OBVIOUS
<1>1. ASSUME IInv, FitInv PROVE LogFits
  <2>1. Len(lh) <= NLOG - 1
    BY <1>1, LogAssumption DEF IInv, TypeOK, FitInv, Spare
  <2>2. ASSUME panicked, NEW o \in Ops, pc[o] \in {"run", "log"}
        PROVE  Cardinality(used[o]) = MAXOPBLOCKS
    <3>0. NLOG > LOGSIZE
      BY <1>1, <2>2 DEF FitInv
    <3>1. /\ Room = {} /\ o \in Active
          /\ IsFiniteSet(used[o]) /\ Cardinality(used[o]) <= OpBlocks
      BY <1>1, <2>2, <3>0 DEF IInv, SpaceInv, Active
    <3>2. <<o, MAXOPBLOCKS>> \in Active \X (1..MAXOPBLOCKS)
      BY <3>1, LogAssumption
    <3>3. ~(MAXOPBLOCKS > Cardinality(used[o] \cap Logged(lh)))
      BY <3>1, <3>2 DEF Room
    <3>4. /\ Cardinality(used[o] \cap Logged(lh)) <= Cardinality(used[o])
          /\ Cardinality(used[o] \cap Logged(lh)) \in Nat /\ Cardinality(used[o]) \in Nat
      BY <3>1, FS_Intersection, FS_CardinalityType
    <3> QED
      BY <3>1, <3>3, <3>4, LogAssumption
  <2> QED
    BY <2>1, <2>2 DEF LogFits
<1>2. Init => FitInv
  BY LogAssumption DEF Init, FitInv, Spare
<1> QED
  BY <1>1, <1>2, FitStep, Inductive, PTL DEF Spec

-----------------------------------------------------------------------------
\* What Recovered is, block by block: dhead lists no block twice.
RecoveredMeans ==
  /\ Recovered = [b \in Blocks |-> Recovered[b]]
  /\ \A b \in Blocks : b \notin Logged(dhead) => Recovered[b] = home[b]
  /\ \A k \in 1..Len(dhead) : dhead[k] \in Blocks /\ Recovered[dhead[k]] = dlog[k]

\* The header determines where recovery takes each block from.
LEMMA RecoveredIs == IInv => RecoveredMeans
<1> SUFFICES ASSUME IInv PROVE RecoveredMeans
  OBVIOUS
<1>1. Recovered = [b \in Blocks |-> Recovered[b]]
  BY DEF Recovered
<1>2. ASSUME NEW b \in Blocks, b \notin Logged(dhead) PROVE Recovered[b] = home[b]
  BY <1>2 DEF Recovered, Logged
<1>3. ASSUME NEW k \in 1..Len(dhead) PROVE dhead[k] \in Blocks /\ Recovered[dhead[k]] = dlog[k]
  <2>1. dhead[k] \in Blocks
    BY DEF IInv, TypeOK
  <2>2. \A l \in 1..Len(dhead) : dhead[l] = dhead[k] => l = k
    BY DEF IInv, LogInv, Distinct
  <2>3. (CHOOSE l \in 1..Len(dhead) : dhead[l] = dhead[k]) = k
    BY <2>2
  <2> QED
    BY <2>1, <2>3 DEF Recovered
<1> QED
  BY <1>1, <1>2, <1>3 DEF RecoveredMeans

\* Recovery would find the same blocks if it finds them one by one.
LEMMA RecoveredSame ==
  ASSUME RecoveredMeans, RecoveredMeans', \A b \in Blocks : Recovered'[b] = Recovered[b]
  PROVE  Recovered' = Recovered
BY DEF RecoveredMeans

\* Calls see the same blocks if bread returns the same for each.
LEMMA VisibleSame ==
  ASSUME boot = "up", boot' = "up", \A b \in Blocks : (bread(b))' = bread(b)
  PROVE  Visible' = Visible
BY DEF Visible

\* Every step of the log is a step of the atomic store, or none.
LEMMA StoreStep == IInv /\ IInv' /\ [Next]_vars => [As!StoreNext]_(As!storeVars)
<1> SUFFICES ASSUME IInv, IInv', [Next]_vars PROVE As!StoreNext \/ UNCHANGED As!storeVars
  OBVIOUS
<1>1. RecoveredMeans /\ RecoveredMeans'
  BY RecoveredIs, PTL
<1> USE DEF disk, mem, bufs, Up
<1>2. ASSUME UNCHANGED <<disk, cache, boot>> PROVE Recovered' = Recovered /\ Visible' = Visible
  <2>1. Recovered' = Recovered
    BY <1>2 DEF Recovered
  <2> QED
    BY <1>2, <2>1 DEF Visible, bread
<1>3. CASE UNCHANGED <<disk, cache, boot, outstanding>>
  BY <1>2, <1>3 DEF As!storeVars
<1>4. ASSUME NEW o \in Ops, begin_op(o) PROVE As!StoreNext \/ UNCHANGED As!storeVars
  <2>1. Recovered' = Recovered /\ Visible' = Visible
    BY <1>2, <1>4 DEF begin_op
  <2>2. outstanding' = outstanding + 1 \/ outstanding' = outstanding
    BY <1>4 DEF begin_op
  <2> QED
    BY <2>1, <2>2 DEF As!storeVars, As!StoreNext, As!Begin
<1>5. ASSUME NEW o \in Ops, end_op(o) PROVE As!StoreNext
  <2>1. Recovered' = Recovered /\ Visible' = Visible
    BY <1>2, <1>5 DEF end_op
  <2>2. outstanding' = outstanding - 1
    BY <1>5 DEF end_op
  <2>3. outstanding > 0
    BY <1>5, SoleActive DEF end_op, Active, IInv
  <2> QED
    BY <2>1, <2>2, <2>3 DEF As!StoreNext, As!End
<1>6. ASSUME NEW o \in Ops, NEW b \in Blocks, NEW v \in Values, LogWriteTest(o, b, v)
      PROVE  As!StoreNext
  <2>1. UNCHANGED <<disk, boot, outstanding>> /\ cache' = [cache EXCEPT ![b] = v] /\ boot = "up"
    BY <1>6 DEF LogWriteTest
  <2>2. Recovered' = Recovered
    BY <2>1 DEF Recovered
  <2>3. v # NotCached /\ DOMAIN cache = Blocks
    BY LogAssumption DEF IInv, TypeOK
  <2>4. Visible' = [Visible EXCEPT ![b] = v]
    BY <2>1, <2>3 DEF Visible, bread
  <2>5. outstanding > 0
    BY <1>6, SoleActive DEF LogWriteTest, Active, IInv
  <2> QED
    BY <2>1, <2>2, <2>4, <2>5 DEF As!StoreNext, As!Write
<1>7. ASSUME NEW b \in Blocks, Evict(b) PROVE UNCHANGED As!storeVars
  <2>1. UNCHANGED <<disk, boot, outstanding>> /\ cache' = [cache EXCEPT ![b] = NotCached] /\ boot = "up"
    BY <1>7 DEF Evict
  <2>2. Recovered' = Recovered
    BY <2>1 DEF Recovered
  <2>3. cache[b] = home[b] /\ DOMAIN cache = Blocks
    BY <1>7 DEF Evict, IInv, TypeOK, CacheInv
  <2>4. Visible' = Visible
    BY <2>1, <2>3, VisibleSame DEF bread
  <2> QED
    BY <2>1, <2>2, <2>4 DEF As!storeVars
<1>8. ASSUME NEW o \in Ops, write_log(o) PROVE UNCHANGED As!storeVars
  <2>1. UNCHANGED <<home, dhead, cache, boot, outstanding>> /\ boot = "up"
    BY <1>8 DEF write_log
  <2>2. dhead = <<>>
    BY <1>8 DEF write_log, IInv, LogInv, Installing, ControlInv, CommitsAlone, CommitPcs
  <2>3. Recovered' = Recovered
    BY <2>1, <2>2 DEF Recovered
  <2>4. Visible' = Visible
    BY <2>1, VisibleSame DEF bread
  <2> QED
    BY <2>1, <2>3, <2>4 DEF As!storeVars
<1>9. ASSUME NEW o \in Ops, write_head(o) PROVE As!StoreNext
  <2>1. UNCHANGED <<home, dlog, lh, cache, boot, outstanding>> /\ boot = "up" /\ dhead' = lh
    BY <1>9 DEF write_head
  <2>2. outstanding = 0 /\ \A b \in Blocks : holder[b] = NoOp
    <3>1. outstanding = 0 /\ ~panicked /\ \A q \in Ops : pc[q] # "log"
      BY <1>9 DEF write_head, IInv, ControlInv, CommitsAlone, CommitPcs
    <3> QED
      BY <3>1 DEF IInv, TypeOK, CacheInv
  <2>3. Visible' = Visible
    BY <2>1, VisibleSame DEF bread
  <2>4. ASSUME NEW b \in Blocks PROVE Recovered'[b] = bread(b)
    <3>1. CASE b \in Logged(lh)
      <4>1. PICK k \in 1..Len(lh) : b = lh[k]
        BY <3>1 DEF Logged
      <4>2. dlog[k] = cache[b]
        BY <1>9, <4>1 DEF write_head, IInv, LogInv
      <4>3. cache[b] # NotCached
        BY <1>9, <4>1 DEF write_head, IInv, LogInv, CacheInv, Installing, ControlInv, CommitsAlone, CommitPcs
      <4> QED
        BY <1>1, <2>1, <4>1, <4>2, <4>3 DEF RecoveredMeans, bread
    <3>2. CASE b \notin Logged(lh)
      <4>1. Recovered'[b] = home[b]
        BY <1>1, <2>1, <3>2 DEF RecoveredMeans
      <4>2. cache[b] \in {NotCached, home[b]}
        BY <2>2, <3>2 DEF IInv, CacheInv, TypeOK
      <4> QED
        BY <4>1, <4>2 DEF bread
    <3> QED
      BY <3>1, <3>2
  <2>5. Recovered' = Visible
    BY <1>1, <2>1, <2>4 DEF Visible, RecoveredMeans
  <2> QED
    BY <2>1, <2>2, <2>3, <2>5 DEF As!StoreNext, As!Commit
<1>10. ASSUME NEW o \in Ops, install_trans(o) PROVE UNCHANGED As!storeVars
  <2>1. UNCHANGED <<dlog, dhead, lh, boot, outstanding>> /\ boot = "up" /\ dhead = lh
    BY <1>10 DEF install_trans, IInv, LogInv, Installing
  <2>2. CASE tail[o] <= Len(lh)
    <3>1. tail[o] \in 1..Len(lh) /\ lh[tail[o]] \in Blocks /\ dlog[tail[o]] \in Values
      BY <2>2, LogAssumption DEF IInv, TypeOK
    <3>2. /\ home' = [home EXCEPT ![lh[tail[o]]] = dlog[tail[o]]]
          /\ cache' = [cache EXCEPT ![lh[tail[o]]] = dlog[tail[o]]]
      BY <1>10, <2>2 DEF install_trans
    <3>3. dlog[tail[o]] = cache[lh[tail[o]]]
      BY <1>10, <3>1 DEF install_trans, IInv, LogInv
    <3>4. /\ lh[tail[o]] \in Logged(dhead) /\ dlog[tail[o]] # NotCached
          /\ home \in [Blocks -> Values] /\ DOMAIN cache = Blocks
      BY <2>1, <3>1, LogAssumption DEF Logged, IInv, TypeOK
    <3>5. ASSUME NEW b \in Blocks PROVE (bread(b))' = bread(b)
      <4>1. CASE b = lh[tail[o]]
        BY <3>2, <3>3, <3>4, <4>1 DEF bread
      <4>2. CASE b # lh[tail[o]]
        BY <3>2, <3>4, <4>2 DEF bread
      <4> QED
        BY <4>1, <4>2
    <3>6. ASSUME NEW b \in Blocks PROVE Recovered'[b] = Recovered[b]
      <4>1. CASE b \in Logged(dhead)
        <5>1. PICK k \in 1..Len(dhead) : b = dhead[k]
          BY <4>1 DEF Logged
        <5> QED
          BY <1>1, <2>1, <5>1 DEF RecoveredMeans
      <4>2. CASE b \notin Logged(dhead)
        BY <1>1, <2>1, <3>2, <3>4, <4>2 DEF RecoveredMeans
      <4> QED
        BY <4>1, <4>2
    <3>7. Recovered' = Recovered
      BY <1>1, <3>6, RecoveredSame
    <3> QED
      BY <2>1, <3>5, <3>7, VisibleSame DEF As!storeVars
  <2>3. CASE ~(tail[o] <= Len(lh))
    <3>1. UNCHANGED <<disk, cache, boot, outstanding>>
      BY <1>10, <2>1, <2>3 DEF install_trans
    <3> QED
      BY <1>2, <3>1 DEF As!storeVars
  <2> QED
    BY <2>2, <2>3
<1>11. ASSUME NEW o \in Ops, ClearLog(o) PROVE UNCHANGED As!storeVars
  <2>1. UNCHANGED <<home, cache, boot, outstanding>> /\ boot = "up" /\ dhead = lh /\ dhead' = <<>>
    BY <1>11 DEF ClearLog, IInv, LogInv, Installing
  <2>2. ASSUME NEW b \in Blocks PROVE Recovered'[b] = Recovered[b]
    <3>1. Recovered'[b] = home[b]
      BY <1>1, <2>1 DEF RecoveredMeans, Logged
    <3>2. CASE b \in Logged(dhead)
      <4>1. PICK k \in 1..Len(dhead) : b = dhead[k]
        BY <3>2 DEF Logged
      <4>2. dlog[k] = home[b]
        BY <1>11, <2>1, <4>1 DEF ClearLog, IInv, LogInv
      <4> QED
        BY <1>1, <3>1, <4>1, <4>2 DEF RecoveredMeans
    <3>3. CASE b \notin Logged(dhead)
      BY <1>1, <3>1, <3>3 DEF RecoveredMeans
    <3> QED
      BY <3>2, <3>3
  <2>3. Recovered' = Recovered
    BY <1>1, <2>2, RecoveredSame
  <2>4. Visible' = Visible
    BY <2>1, VisibleSame DEF bread
  <2> QED
    BY <2>1, <2>3, <2>4 DEF As!storeVars
<1>12. CASE Crash
  <2>1. UNCHANGED disk /\ boot' = "read" /\ outstanding' = 0
    BY <1>12 DEF Crash
  <2>2. Recovered' = Recovered
    BY <2>1 DEF Recovered
  <2>3. Visible' = Recovered
    BY <2>1, <2>2 DEF Visible
  <2> QED
    BY <2>1, <2>2, <2>3 DEF As!StoreNext, As!Fail
<1>13. CASE read_head
  <2>1. UNCHANGED <<disk, outstanding>> /\ boot # "up" /\ boot' # "up"
    BY <1>13 DEF read_head
  <2>2. Recovered' = Recovered
    BY <2>1 DEF Recovered
  <2> QED
    BY <2>1, <2>2 DEF Visible, As!storeVars
<1>14. CASE RecoverInstall
  <2>1. /\ UNCHANGED <<dlog, dhead, outstanding>> /\ boot # "up" /\ boot' # "up" /\ lh = dhead
    BY <1>14 DEF RecoverInstall, IInv, LogInv
  <2>2. ASSUME NEW b \in Blocks PROVE Recovered'[b] = Recovered[b]
    <3>1. CASE b \in Logged(dhead)
      <4>1. PICK k \in 1..Len(dhead) : b = dhead[k]
        BY <3>1 DEF Logged
      <4> QED
        BY <1>1, <2>1, <4>1 DEF RecoveredMeans
    <3>2. CASE b \notin Logged(dhead)
      <4>1. home'[b] = home[b]
        BY <1>14, <2>1, <3>2 DEF RecoverInstall, IInv, TypeOK, Logged
      <4> QED
        BY <1>1, <2>1, <3>2, <4>1 DEF RecoveredMeans
    <3> QED
      BY <3>1, <3>2
  <2>3. Recovered' = Recovered
    BY <1>1, <2>2, RecoveredSame
  <2> QED
    BY <2>1, <2>3 DEF Visible, As!storeVars
<1>15. CASE RecoverClear
  <2>1. /\ UNCHANGED <<home, cache, outstanding>> /\ boot # "up" /\ boot' = "up"
        /\ lh = dhead /\ dhead' = <<>>
    BY <1>15 DEF RecoverClear, IInv, LogInv
  <2>2. ASSUME NEW b \in Blocks PROVE Recovered[b] = home[b]
    <3>1. CASE b \in Logged(dhead)
      <4>1. PICK k \in 1..Len(dhead) : b = dhead[k]
        BY <3>1 DEF Logged
      <4>2. dlog[k] = home[b]
        BY <1>15, <2>1, <4>1 DEF RecoverClear, IInv, LogInv
      <4> QED
        BY <1>1, <4>1, <4>2 DEF RecoveredMeans
    <3>2. CASE b \notin Logged(dhead)
      BY <1>1, <3>2 DEF RecoveredMeans
    <3> QED
      BY <3>1, <3>2
  <2>3. ASSUME NEW b \in Blocks PROVE Recovered'[b] = home[b] /\ (bread(b))' = home[b]
    <3>1. Recovered'[b] = home[b]
      BY <1>1, <2>1 DEF RecoveredMeans, Logged
    <3>2. cache[b] \in {NotCached, home[b]}
      BY <2>1 DEF IInv, CacheInv
    <3> QED
      BY <2>1, <3>1, <3>2 DEF bread
  <2>4. Recovered' = Recovered
    BY <1>1, <2>2, <2>3, RecoveredSame
  <2>5. Visible' = Visible
    BY <1>1, <2>1, <2>2, <2>3 DEF Visible, RecoveredMeans
  <2> QED
    BY <2>1, <2>4, <2>5 DEF As!storeVars
<1>16. ASSUME NEW o \in Ops, CallBegin(o) \/ log_write(o) \/ commit(o) \/ EndCommit(o)
       PROVE  UNCHANGED <<disk, cache, boot, outstanding>>
  BY <1>16 DEF CallBegin, log_write, commit, EndCommit
<1>17. CASE UNCHANGED vars
  BY <1>2, <1>17 DEF vars, As!storeVars
<1> QED
  BY <1>3, <1>4, <1>5, <1>6, <1>7, <1>8, <1>9, <1>10, <1>11, <1>12, <1>13, <1>14, <1>15, <1>16, <1>17
  DEF Next, Step, Recover

\* The disk mkfs made is the first durable state.
LEMMA StoreStart == Init => As!StoreInit
<1> SUFFICES ASSUME Init PROVE As!StoreInit
  OBVIOUS
<1>1. Recovered = home /\ home \in [Blocks -> Values] /\ outstanding = 0 /\ boot = "read"
  BY DEF Init, Recovered
<1> QED
  BY <1>1 DEF As!StoreInit, Visible

(***************************************************************************)
(* Crash safety for any number of processes, blocks and sizes: whatever    *)
(* disk write a crash follows, recovery included, the disk holds the       *)
(* effect of whole groups of file system calls, and write_head is the step *)
(* that commits (log.c:98-122, 142-202).                                   *)
(***************************************************************************)
THEOREM LogIsAtomicStore == Spec => IsAtomicStore
<1> QED
  BY Inductive, StoreStart, StoreStep, PTL DEF Spec, IsAtomicStore, As!Store

=============================================================================
