--------------------------- MODULE ConsoleProofs ---------------------------
(* Proofs about Console for any readers, ring size, counter width and screen. *)
EXTENDS Console, TLAPS, SequenceTheorems, WellFoundedInduction, NaturalsInduction

(***************************************************************************)
(* The inductive invariant.  LockInv: who is between its steps in          *)
(* consoleread holds cons.lock, and n is the bytes it still wants.         *)
(* LineInv: what is not committed holds neither a newline nor an end of    *)
(* file, so that C('U') erases to the commit index.                        *)
(***************************************************************************)
DstInv == dst \in [Readers -> Seq(Text)]

LockInv == \A p \in Readers : /\ pc[p] \in {"loop", "sleep"} <=> lock = p
                              /\ pc[p] = "out" <=> n[p] = 0

LineInv == \A k \in 0..(Uint(e - w) - 1) : At(Uint(w + k)) = "x"

IInv == TypeOK /\ DstInv /\ LockInv /\ RingNotStuck /\ LineInv /\ NoLostWakeup /\ CursorOnScreen

-----------------------------------------------------------------------------
\* The remainder is the one u in 0..(m - 1) that x exceeds a multiple of m by.
LEMMA ModUnique ==
  ASSUME NEW m \in Nat \ {0}, NEW x \in Int, NEW q \in Int, NEW u \in 0..(m - 1), x = m * q + u
  PROVE  x % m = u
<1>1. x % m \in 0..(m - 1) /\ x \div m \in Int /\ x = m * (x \div m) + (x % m)
  OBVIOUS
<1>2. ASSUME NEW q2 \in Int, NEW u2 \in 0..(m - 1), m * q + u = m * q2 + u2 PROVE u = u2
  BY <1>2
<1> QED
  BY <1>1, <1>2

\* Adding a multiple of m does not change the remainder.
LEMMA ModShift ==
  ASSUME NEW m \in Nat \ {0}, NEW x \in Int, NEW k \in Int
  PROVE  (x + m * k) % m = x % m
<1>1. x % m \in 0..(m - 1) /\ x \div m \in Int /\ x = m * (x \div m) + (x % m)
  OBVIOUS
<1>2. ASSUME NEW q \in Int, NEW u \in Int, x = m * q + u PROVE x + m * k = m * (q + k) + u
  BY <1>2
<1>3. x + m * k = m * ((x \div m) + k) + (x % m)
  BY <1>1, <1>2
<1>4. x + m * k \in Int /\ (x \div m) + k \in Int
  BY <1>1
<1> QED
  BY <1>1, <1>3, <1>4, ModUnique

\* Numbers less than m apart have different remainders.
LEMMA ModDistinct ==
  ASSUME NEW m \in Nat \ {0}, NEW x \in Int, NEW d \in 1..(m - 1)
  PROVE  (x + d) % m # x % m
<1> SUFFICES ASSUME (x + d) % m = x % m PROVE FALSE
  OBVIOUS
<1>1. PICK q \in Int : x = m * q + (x % m)
  <2>1. x \div m \in Int /\ x = m * (x \div m) + (x % m)
    OBVIOUS
  <2> QED
    BY <2>1
<1>2. PICK q2 \in Int : x + d = m * q2 + ((x + d) % m)
  <2>1. (x + d) \div m \in Int /\ x + d = m * ((x + d) \div m) + ((x + d) % m)
    OBVIOUS
  <2> QED
    BY <2>1
<1>3. d = m * (q2 - q) + 0
  BY <1>1, <1>2
<1>4. d % m = 0
  BY <1>3, ModUnique
<1> QED
  BY <1>4

\* The difference of two unsigned counters that wrap at m.
LEMMA WrapDiff ==
  ASSUME NEW m \in Nat \ {0}, NEW a \in 0..(m - 1), NEW b \in 0..(m - 1)
  PROVE  (a - b) % m = IF b <= a THEN a - b ELSE a - b + m
<1>1. CASE b <= a
  BY <1>1
<1>2. CASE ~(b <= a)
  <2>1. a - b = m * (-1) + (a - b + m) /\ a - b + m \in 0..(m - 1)
    BY <1>2
  <2> QED
    BY <1>2, <2>1, ModUnique
<1> QED
  BY <1>1, <1>2

\* The sum of two unsigned counters that wrap at m.
LEMMA WrapSum ==
  ASSUME NEW m \in Nat \ {0}, NEW a \in 0..(m - 1), NEW b \in 0..(m - 1)
  PROVE  (a + b) % m = IF a + b < m THEN a + b ELSE a + b - m
<1>1. CASE a + b < m
  BY <1>1
<1>2. CASE ~(a + b < m)
  <2>1. a + b = m * 1 + (a + b - m) /\ a + b - m \in 0..(m - 1)
    BY <1>2
  <2> QED
    BY <1>2, <2>1, ModUnique
<1> QED
  BY <1>1, <1>2

\* A quotient is at least k when the number is at least k times the divisor.
LEMMA DivAtLeast ==
  ASSUME NEW x \in Nat, NEW m \in Nat \ {0}, NEW k \in Nat
  PROVE  x \div m >= k <=> x >= k * m
<1>1. PICK q \in Int, u \in 0..(m - 1) : q = x \div m /\ x = m * q + u
  OBVIOUS
<1>2. ASSUME q >= k PROVE x >= k * m
  <2>1. m * (q - k) >= 0
    BY <1>2
  <2>2. m * q = m * (q - k) + k * m
    OBVIOUS
  <2>3. PICK a \in Int, b \in Int, c \in Int : a = m * q /\ b = m * (q - k) /\ c = k * m
    OBVIOUS
  <2> QED
    BY <1>1, <2>1, <2>2, <2>3
<1>3. ASSUME k >= q + 1 PROVE x < k * m
  <2>1. m * (k - (q + 1)) >= 0
    BY <1>3
  <2>2. k * m = m * (k - (q + 1)) + m * q + m
    OBVIOUS
  <2>3. PICK a \in Int, b \in Int, c \in Int : a = m * q /\ b = m * (k - (q + 1)) /\ c = k * m
    OBVIOUS
  <2> QED
    BY <1>1, <2>1, <2>2, <2>3
<1>4. k * m \in Int
  OBVIOUS
<1> QED
  BY <1>1, <1>2, <1>3, <1>4

-----------------------------------------------------------------------------
\* cgaputc leaves the cursor on the screen: the scroll takes a line off at the bottom.
LEMMA CursorMoves ==
  ASSUME NEW at \in 0..(ROWS * COLS - 1), NEW c
  PROVE  cgaputc(at, c) \in 0..(ROWS * COLS - 1)
<1>1. COLS \in Nat \ {0} /\ ROWS \in Nat \ {0} /\ at \in Nat
  BY ConsoleAssumption
<1>2. PICK area \in Nat : area = ROWS * COLS /\ area >= COLS
  <2>1. COLS * (ROWS - 1) >= 0 /\ ROWS * COLS = COLS * (ROWS - 1) + COLS /\ ROWS * COLS \in Nat
    BY <1>1
  <2>2. PICK a \in Int : a = COLS * (ROWS - 1)
    BY <1>1
  <2> QED
    BY <1>1, <2>1, <2>2
<1>3. at < area
  BY <1>2
<1>4. \A x \in Nat : x \div COLS >= ROWS <=> x >= area
  BY <1>1, <1>2, DivAtLeast
<1>5. CASE c = "nl"
  <2>1. PICK q \in Int, u \in 0..(COLS - 1) : q = at \div COLS /\ u = at % COLS /\ at = COLS * q + u
    BY <1>1
  <2>2. Moved(at, c) = at + COLS - u /\ at + COLS - u \in Nat /\ at - u \in Nat
    <3>1. q >= 0
      BY <1>1, <2>1
    <3>2. PICK a \in Nat : a = COLS * q
      BY <1>1, <3>1
    <3>3. Moved(at, c) = at + COLS - (at % COLS)
      BY <1>5 DEF Moved, BACKSPACE
    <3> QED
      BY <1>1, <2>1, <3>2, <3>3
  <2>3. cgaputc(at, c) = IF at + COLS - u >= area THEN at + COLS - u - COLS ELSE at + COLS - u
    BY SMTT(60), <1>1, <1>4, <2>2 DEF cgaputc
  <2> QED
    BY <1>1, <1>2, <1>3, <2>1, <2>2, <2>3
<1>6. CASE c = BACKSPACE
  <2>1. c # "nl"
    BY <1>6 DEF BACKSPACE
  <2>2. Moved(at, c) = IF at > 0 THEN at - 1 ELSE at
    BY <1>6, <2>1 DEF Moved
  <2>3. Moved(at, c) \in Nat /\ Moved(at, c) < area
    BY <1>1, <1>3, <2>2
  <2> QED
    BY <1>2, <1>4, <2>3 DEF cgaputc
<1>7. CASE c # "nl" /\ c # BACKSPACE
  <2>1. Moved(at, c) = at + 1
    BY <1>7 DEF Moved
  <2>2. cgaputc(at, c) = IF at + 1 >= area THEN at + 1 - COLS ELSE at + 1
    BY <1>1, <1>4, <2>1 DEF cgaputc
  <2> QED
    BY <1>1, <1>2, <1>3, <2>2
<1> QED
  BY <1>5, <1>6, <1>7

\* Where the indexes are, counted from r: w - r characters are committed, e - r typed.
LEMMA Counts ==
  ASSUME TypeOK, RingNotStuck
  PROVE  /\ Used \in 0..INPUT_BUF /\ Uint(w - r) \in 0..Used /\ Uint(e - w) = Used - Uint(w - r)
         /\ r = w <=> Uint(w - r) = 0
         /\ e = w <=> Uint(w - r) = Used
         /\ w = Uint(r + Uint(w - r)) /\ e = Uint(r + Used)
<1>1. /\ MaxUint \in Nat \ {0} /\ INPUT_BUF \in 0..(MaxUint - 1)
      /\ r \in 0..(MaxUint - 1) /\ w \in 0..(MaxUint - 1) /\ e \in 0..(MaxUint - 1)
  BY ConsoleAssumption DEF TypeOK
<1>2. /\ Uint(w - r) = IF r <= w THEN w - r ELSE w - r + MaxUint
      /\ Used = IF r <= e THEN e - r ELSE e - r + MaxUint
      /\ Uint(e - w) = IF w <= e THEN e - w ELSE e - w + MaxUint
  BY <1>1, WrapDiff DEF Uint, Used
<1>3. Uint(w - r) \in 0..(MaxUint - 1) /\ Used \in 0..(MaxUint - 1)
  BY <1>1, <1>2
<1>4. /\ Uint(r + Uint(w - r)) = IF r + Uint(w - r) < MaxUint THEN r + Uint(w - r)
                                                              ELSE r + Uint(w - r) - MaxUint
      /\ Uint(r + Used) = IF r + Used < MaxUint THEN r + Used ELSE r + Used - MaxUint
  BY <1>1, <1>3, WrapSum DEF Uint
<1>5. Uint(w - r) <= Used /\ Used <= INPUT_BUF
  BY DEF RingNotStuck
<1> QED
  BY <1>1, <1>2, <1>3, <1>4, <1>5

\* input.e++ adds a character; the ring is full after it when e is r + INPUT_BUF.
LEMMA CountType ==
  ASSUME TypeOK, RingNotStuck, Room, r' = r, e' = Uint(e + 1)
  PROVE  /\ e' \in 0..(MaxUint - 1) /\ Used' = Used + 1
         /\ Uint(e + 1) = Uint(r + INPUT_BUF) <=> Used + 1 = INPUT_BUF
<1>1. /\ MaxUint \in Nat \ {0} /\ INPUT_BUF \in 0..(MaxUint - 1) /\ 1 \in 0..(MaxUint - 1)
      /\ r \in 0..(MaxUint - 1) /\ e \in 0..(MaxUint - 1)
  BY ConsoleAssumption DEF TypeOK
<1>2. e' = IF e + 1 < MaxUint THEN e + 1 ELSE e + 1 - MaxUint
  BY <1>1, WrapSum DEF Uint
<1>3. e' \in 0..(MaxUint - 1)
  BY <1>1, <1>2
<1>4. /\ Used = IF r <= e THEN e - r ELSE e - r + MaxUint
      /\ Used' = IF r <= e' THEN e' - r ELSE e' - r + MaxUint
  BY <1>1, <1>3, WrapDiff DEF Uint, Used
<1>5. Uint(r + INPUT_BUF) = IF r + INPUT_BUF < MaxUint THEN r + INPUT_BUF ELSE r + INPUT_BUF - MaxUint
  BY <1>1, WrapSum DEF Uint
<1>6. Used < INPUT_BUF
  BY DEF Room
<1> QED
  BY <1>1, <1>2, <1>3, <1>4, <1>5, <1>6

\* Taking k characters off the end.
LEMMA CountErase ==
  ASSUME TypeOK, RingNotStuck, NEW k \in 0..Used, r' = r, e' = Uint(e - k)
  PROVE  e' \in 0..(MaxUint - 1) /\ Used' = Used - k
<1>1. /\ MaxUint \in Nat \ {0} /\ INPUT_BUF \in 0..(MaxUint - 1)
      /\ r \in 0..(MaxUint - 1) /\ e \in 0..(MaxUint - 1)
  BY ConsoleAssumption DEF TypeOK
<1>2. Used \in 0..INPUT_BUF
  BY Counts
<1>3. k \in 0..(MaxUint - 1)
  BY <1>1, <1>2
<1>4. e' = IF k <= e THEN e - k ELSE e - k + MaxUint
  BY <1>1, <1>3, WrapDiff DEF Uint
<1>5. e' \in 0..(MaxUint - 1)
  BY <1>1, <1>3, <1>4
<1>6. /\ Used = IF r <= e THEN e - r ELSE e - r + MaxUint
      /\ Used' = IF r <= e' THEN e' - r ELSE e' - r + MaxUint
  BY <1>1, <1>5, WrapDiff DEF Uint, Used
<1> QED
  BY <1>1, <1>2, <1>3, <1>4, <1>5, <1>6

\* input.r++ takes the first committed character.
LEMMA CountRead ==
  ASSUME TypeOK, RingNotStuck, r # w, r' = Uint(r + 1), w' = w, e' = e
  PROVE  /\ r' \in 0..(MaxUint - 1) /\ Used' = Used - 1 /\ Uint(w - r)' = Uint(w - r) - 1
         /\ Uint(w - r) >= 1
<1>1. /\ MaxUint \in Nat \ {0} /\ INPUT_BUF \in 0..(MaxUint - 1) /\ 1 \in 0..(MaxUint - 1)
      /\ r \in 0..(MaxUint - 1) /\ w \in 0..(MaxUint - 1) /\ e \in 0..(MaxUint - 1)
  BY ConsoleAssumption DEF TypeOK
<1>2. r' = IF r + 1 < MaxUint THEN r + 1 ELSE r + 1 - MaxUint
  BY <1>1, WrapSum DEF Uint
<1>3. r' \in 0..(MaxUint - 1)
  BY <1>1, <1>2
<1>4. /\ Used = IF r <= e THEN e - r ELSE e - r + MaxUint
      /\ Used' = IF r' <= e THEN e - r' ELSE e - r' + MaxUint
      /\ Uint(w - r) = IF r <= w THEN w - r ELSE w - r + MaxUint
      /\ Uint(w - r)' = IF r' <= w THEN w - r' ELSE w - r' + MaxUint
  BY <1>1, <1>3, WrapDiff DEF Uint, Used
<1>5. Uint(w - r) \in 1..Used
  BY Counts
<1> QED
  BY <1>1, <1>2, <1>3, <1>4, <1>5

\* What is erased lies between w and e.
LEMMA ErasedIs ==
  ASSUME TypeOK, RingNotStuck
  PROVE  Erased \in 0..Uint(e - w) /\ Kept(Erased)
<1> DEFINE T == {k \in Nat : k \in 0..Uint(e - w) /\ Kept(k)}
<1>1. Uint(e - w) \in Nat
  BY Counts
<1>2. T \subseteq Nat /\ Uint(e - w) \in T
  BY <1>1 DEF Kept
<1>3. PICK k \in T : \A j \in T : ~(<<j, k>> \in OpToRel(<, Nat))
  BY <1>2, NatLessThanWellFounded, WFMin
<1>4. \A j \in T : ~(j < k)
  BY <1>2, <1>3 DEF OpToRel
<1>5. k \in 0..Uint(e - w) /\ Kept(k)
  BY <1>3
<1>6. ASSUME NEW j \in 0..(k - 1), Kept(j) PROVE FALSE
  <2>1. k \in Nat /\ k <= Uint(e - w)
    BY <1>1, <1>5
  <2>2. j \in Nat /\ j \in 0..Uint(e - w) /\ j < k
    BY <1>1, <2>1
  <2> QED
    BY <1>4, <1>6, <2>2
<1> QED
  BY <1>5, <1>6 DEF Erased

\* The ring is indexed alike by a counter and by the number it wrapped from.
LEMMA AtUint ==
  ASSUME NEW x \in Int
  PROVE  Uint(x) % INPUT_BUF = x % INPUT_BUF /\ At(Uint(x)) = At(x)
<1>1. /\ MaxUint \in Nat \ {0} /\ INPUT_BUF \in Nat \ {0} /\ MaxUint % INPUT_BUF = 0
  BY ConsoleAssumption
<1>2. PICK q \in Int : x = MaxUint * q + (x % MaxUint)
  <2>1. x \div MaxUint \in Int /\ x = MaxUint * (x \div MaxUint) + (x % MaxUint)
    BY <1>1
  <2> QED
    BY <2>1
<1>3. PICK t \in Int : MaxUint = INPUT_BUF * t
  <2>1. MaxUint \div INPUT_BUF \in Int /\ MaxUint = INPUT_BUF * (MaxUint \div INPUT_BUF) + (MaxUint % INPUT_BUF)
    BY <1>1
  <2> QED
    BY <1>1, <2>1
<1>4. PICK u \in Int : u = x % MaxUint
  BY <1>1
<1>5. u + INPUT_BUF * (t * q) = x /\ t * q \in Int
  BY <1>1, <1>2, <1>3, <1>4
<1>6. (u + INPUT_BUF * (t * q)) % INPUT_BUF = u % INPUT_BUF
  BY <1>1, <1>5, ModShift
<1> QED
  BY <1>4, <1>5, <1>6 DEF Uint, At

\* Moving x by a whole number of wraps of the counters moves nothing in the ring.
LEMMA AtFrom ==
  ASSUME NEW x \in Int, NEW k \in Int
  PROVE  /\ (Uint(x) + k) % INPUT_BUF = (x + k) % INPUT_BUF
         /\ At(Uint(x) + k) = At(x + k)
<1>1. INPUT_BUF \in Nat \ {0} /\ MaxUint \in Nat \ {0}
  BY ConsoleAssumption
<1>2. Uint(x) % INPUT_BUF = x % INPUT_BUF /\ Uint(x) \in Int
  <2>1. Uint(x) \in Int
    BY <1>1 DEF Uint
  <2> QED
    BY <2>1, AtUint
<1>3. PICK y \in Int : y = Uint(x)
  BY <1>2
<1>4. PICK q \in Int, u \in Int : x = INPUT_BUF * q + u /\ u = x % INPUT_BUF
  <2>1. x \div INPUT_BUF \in Int /\ x % INPUT_BUF \in Int /\ x = INPUT_BUF * (x \div INPUT_BUF) + (x % INPUT_BUF)
    BY <1>1
  <2> QED
    BY <2>1
<1>5. PICK q2 \in Int : y = INPUT_BUF * q2 + u
  <2>1. y \div INPUT_BUF \in Int /\ y = INPUT_BUF * (y \div INPUT_BUF) + (y % INPUT_BUF)
    BY <1>1
  <2> QED
    BY <1>2, <1>3, <1>4, <2>1
<1>6. y + k = (x + k) + INPUT_BUF * (q2 - q) /\ q2 - q \in Int /\ x + k \in Int
  BY <1>1, <1>4, <1>5
<1>7. (y + k) % INPUT_BUF = (x + k) % INPUT_BUF
  <2>1. PICK z \in Int, t \in Int : z = x + k /\ t = q2 - q
    BY <1>6
  <2>2. (z + INPUT_BUF * t) % INPUT_BUF = z % INPUT_BUF
    BY <1>1, ModShift
  <2> QED
    BY <1>6, <2>1, <2>2
<1> QED
  BY <1>3, <1>7 DEF At

\* The ring, counted from r.
RingView ==
  /\ Between(r, w) = [k \in 1..Uint(w - r) |-> At(r + k - 1)]
  /\ Between(w, e) = [k \in 1..(Used - Uint(w - r)) |-> At(r + Uint(w - r) + k - 1)]
  /\ LineInv <=> \A k \in 0..(Used - Uint(w - r) - 1) : At(r + Uint(w - r) + k) = "x"

\* What the ring holds, counted from r, whatever the counters wrapped.
LEMMA RingText == TypeOK /\ RingNotStuck => RingView
<1> SUFFICES ASSUME TypeOK, RingNotStuck PROVE RingView
  OBVIOUS
<1>1. PICK a \in Nat, d \in Nat : a = Uint(w - r) /\ d = Used
  BY Counts
<1>2. Uint(e - w) = d - a /\ w = Uint(r + a) /\ r \in Int /\ w \in Int
  BY <1>1, Counts DEF TypeOK
<1>3. ASSUME NEW k \in Int PROVE At(Uint(r + k - 1)) = At(r + k - 1)
  BY <1>2, AtUint
<1>4. ASSUME NEW k \in Int PROVE At(Uint(w + k)) = At(r + a + k)
  <2>1. At(Uint(w + k)) = At(w + k)
    BY <1>2, AtUint
  <2>2. r + a \in Int
    BY <1>2
  <2>3. At(Uint(r + a) + k) = At(r + a + k)
    BY <2>2, AtFrom
  <2> QED
    BY <1>2, <2>1, <2>3
<1>5. Between(r, w) = [k \in 1..a |-> At(r + k - 1)]
  BY <1>1, <1>3 DEF Between
<1>6. Between(w, e) = [k \in 1..(d - a) |-> At(r + a + k - 1)]
  <2>1. ASSUME NEW k \in 1..(d - a) PROVE At(Uint(w + k - 1)) = At(r + a + k - 1)
    <3>1. w + (k - 1) = w + k - 1 /\ r + a + (k - 1) = r + a + k - 1 /\ k - 1 \in Int
      BY <1>2
    <3> QED
      BY <1>4, <3>1
  <2> QED
    BY <1>2, <2>1 DEF Between
<1>7. LineInv <=> \A k \in 0..(d - a - 1) : At(r + a + k) = "x"
  <2>1. \A k \in 0..(d - a - 1) : At(Uint(w + k)) = At(r + a + k)
    BY <1>4
  <2>2. LineInv <=> \A k \in 0..(d - a - 1) : At(Uint(w + k)) = "x"
    BY <1>2 DEF LineInv
  <2> QED
    BY <2>1, <2>2
<1> QED
  BY <1>1, <1>5, <1>6, <1>7 DEF RingView

\* A typed character overwrites nothing that is in use.
LEMMA AtTyped ==
  ASSUME TypeOK, RingNotStuck, Room, NEW c, buf' = [buf EXCEPT ![e % INPUT_BUF] = c], r' = r,
         NEW d \in Nat, d = Used
  PROVE  (\A k \in 0..(d - 1) : At(r + k)' = At(r + k)) /\ At(r + d)' = c
<1>1. d = Used /\ d < INPUT_BUF
  BY Counts DEF Room
<1>2. INPUT_BUF \in Nat \ {0} /\ r \in Int /\ buf \in [0..(INPUT_BUF - 1) -> Text]
  BY ConsoleAssumption DEF TypeOK
<1>3. e % INPUT_BUF = (r + d) % INPUT_BUF
  <2>1. e = Uint(r + d)
    BY <1>1, Counts
  <2>2. r + d \in Int
    BY <1>2
  <2> QED
    BY <2>1, <2>2, AtUint
<1>4. ASSUME NEW k \in 0..(d - 1) PROVE (r + k) % INPUT_BUF # (r + d) % INPUT_BUF
  <2>1. d - k \in 1..(INPUT_BUF - 1) /\ r + k \in Int /\ (r + k) + (d - k) = r + d
    BY <1>1, <1>2
  <2>2. PICK x \in Int, y \in 1..(INPUT_BUF - 1) : x = r + k /\ y = d - k
    BY <2>1
  <2>3. (x + y) % INPUT_BUF # x % INPUT_BUF
    BY <1>2, ModDistinct
  <2> QED
    BY <2>1, <2>2, <2>3
<1>5. ASSUME NEW x \in Int PROVE x % INPUT_BUF \in 0..(INPUT_BUF - 1)
  BY <1>2
<1>6. ASSUME NEW k \in 0..(d - 1) PROVE At(r + k)' = At(r + k)
  <2>1. r + k \in Int
    BY <1>2
  <2> QED
    BY <1>2, <1>3, <1>4, <1>5, <2>1 DEF At
<1>7. At(r + d)' = c
  <2>1. r + d \in Int
    BY <1>2
  <2> QED
    BY <1>2, <1>3, <1>5, <2>1 DEF At
<1> QED
  BY <1>6, <1>7

\* After input.r++ everything is one place nearer.
LEMMA AtRead ==
  ASSUME TypeOK, r' = Uint(r + 1), buf' = buf, NEW k \in Int
  PROVE  At(r + k)' = At(r + 1 + k)
<1>1. r + 1 \in Int
  BY DEF TypeOK
<1>2. At(Uint(r + 1) + k) = At(r + 1 + k)
  BY <1>1, AtFrom
<1> QED
  BY <1>2 DEF At


\* Every step keeps the types; no read returns more than it asked for.
LEMMA TypeStep == IInv /\ [Next]_vars => (TypeOK' /\ DstInv')
<1> SUFFICES ASSUME IInv, [Next]_vars PROVE (TypeOK' /\ DstInv')
  OBVIOUS
<1> USE ConsoleAssumption DEF IInv
<1>1. ASSUME NEW c \in {"x", "nl"}, consolewrite(c) PROVE (TypeOK' /\ DstInv')
  BY <1>1, CursorMoves DEF consolewrite, TypeOK, DstInv, CursorOnScreen, ring, reader
<1>2. CASE kill_line
  <2>1. Erased \in 0..Used
    BY Counts, ErasedIs
  <2>2. e' \in 0..(MaxUint - 1)
    BY <1>2, <2>1, CountErase DEF kill_line
  <2>3. pos' \in Int
    BY <1>2, <2>1, Counts DEF kill_line, TypeOK
  <2> QED
    BY <1>2, <2>2, <2>3 DEF kill_line, TypeOK, DstInv, reader
<1>3. CASE backspace
  <2>1. 1 \in 0..Used
    BY <1>3, Counts DEF backspace
  <2>2. e' \in 0..(MaxUint - 1)
    BY <1>3, <2>1, CountErase DEF backspace
  <2>3. pos' \in Int
    BY <1>3, CursorMoves DEF backspace, CursorOnScreen
  <2> QED
    BY SMTT(60), <1>3, <2>2, <2>3 DEF backspace, TypeOK, DstInv, reader
<1>4. ASSUME NEW key \in Keys, input_char(key) PROVE (TypeOK' /\ DstInv')
  <2>1. PICK c \in Text : c = IF key = "cr" THEN "nl" ELSE key
    BY DEF Keys, Text
  <2>2. e' \in 0..(MaxUint - 1) /\ e' = Uint(e + 1)
    BY <1>4, CountType DEF input_char
  <2>3. pos' \in Int
    BY <1>4, CursorMoves DEF input_char, CursorOnScreen
  <2>4. buf' \in [0..(INPUT_BUF - 1) -> Text]
    BY <1>4, <2>1 DEF input_char, TypeOK
  <2>5. w' \in 0..(MaxUint - 1) /\ pc' \in [Readers -> {"out", "loop", "sleep", "asleep", "ready"}]
    BY <1>4, <2>2 DEF input_char, Woken, TypeOK
  <2> QED
    BY <1>4, <2>2, <2>3, <2>4, <2>5 DEF input_char, TypeOK, DstInv
<1>5. ASSUME NEW p \in Readers, NEW k \in 1..MaxRead, consoleread(p, k) PROVE (TypeOK' /\ DstInv')
  <2>1. /\ n' \in [Readers -> 0..MaxRead] /\ lock' = p
        /\ pc' \in [Readers -> {"out", "loop", "sleep", "asleep", "ready"}]
        /\ dst' \in [Readers -> Seq(Text)]
    BY <1>5 DEF consoleread, TypeOK, DstInv
  <2>2. ASSUME NEW q \in Readers PROVE Len(dst'[q]) + n'[q] <= MaxRead
    BY <1>5 DEF consoleread, TypeOK, DstInv
  <2> QED
    BY <1>5, <2>1, <2>2 DEF consoleread, TypeOK, DstInv, ring
<1>6. ASSUME NEW p \in Readers, read_byte(p) PROVE (TypeOK' /\ DstInv')
  <2>1. PICK c \in Text : c = At(r)
    BY SMTT(60) DEF At, TypeOK
  <2>2. r' \in 0..(MaxUint - 1)
    BY <1>6, CountRead DEF read_byte
  <2>3. dst' \in [Readers -> Seq(Text)] /\ Len(dst'[p]) = Len(dst[p]) + 1
    BY <1>6, <2>1 DEF read_byte, DstInv
  <2>4. n[p] \in 1..MaxRead
    BY <1>6 DEF read_byte, LockInv, TypeOK
  <2>5. /\ n' \in [Readers -> 0..MaxRead] /\ lock' \in Readers \cup {Nobody}
        /\ pc' \in [Readers -> {"out", "loop", "sleep", "asleep", "ready"}] /\ n'[p] <= n[p] - 1
    <3>1. CASE Done(p, At(r))
      <4>1. n' = [n EXCEPT ![p] = 0] /\ lock' = Nobody /\ pc' = [pc EXCEPT ![p] = "out"]
        BY <1>6, <3>1 DEF read_byte, Leave
      <4>2. 0 \in 0..MaxRead /\ 0 <= n[p] - 1
        BY <2>4
      <4> QED
        BY <4>1, <4>2 DEF TypeOK
    <3>2. CASE ~Done(p, At(r))
      <4>1. n' = [n EXCEPT ![p] = @ - 1] /\ UNCHANGED <<lock, pc>> /\ n[p] - 1 \in 0..MaxRead
        BY <1>6, <2>4, <3>2 DEF read_byte
      <4> QED
        BY <4>1 DEF TypeOK
    <3> QED
      BY <3>1, <3>2
  <2>6. ASSUME NEW q \in Readers PROVE dst'[q] \in Seq(Text) /\ Len(dst'[q]) + n'[q] <= MaxRead
    <3>1. dst[q] \in Seq(Text) /\ Len(dst[q]) + n[q] <= MaxRead /\ Len(dst[q]) \in Nat
      BY DEF TypeOK
    <3>2. CASE q = p
      BY <2>3, <2>4, <2>5, <3>1, <3>2
    <3>3. CASE q # p
      <4>1. dst'[q] = dst[q] /\ n'[q] = n[q]
        BY <1>6, <3>3 DEF read_byte, Leave, DstInv, TypeOK
      <4> QED
        BY <3>1, <4>1
    <3> QED
      BY <3>2, <3>3
  <2> QED
    BY ZenonT(60), <1>6, <2>2, <2>3, <2>5, <2>6 DEF read_byte, TypeOK, DstInv
<1>7. ASSUME NEW p \in Readers, read_eof(p) PROVE (TypeOK' /\ DstInv')
  <2>1. r' \in 0..(MaxUint - 1)
    BY <1>7, CountRead DEF read_eof, TypeOK
  <2>2. /\ n' \in [Readers -> 0..MaxRead] /\ lock' = Nobody
        /\ pc' \in [Readers -> {"out", "loop", "sleep", "asleep", "ready"}]
        /\ \A q \in Readers : n'[q] <= n[q]
    BY <1>7 DEF read_eof, Leave, TypeOK
  <2>3. ASSUME NEW q \in Readers PROVE Len(dst[q]) + n'[q] <= MaxRead
    <3>1. n[q] \in 0..MaxRead /\ n'[q] \in 0..MaxRead /\ n'[q] <= n[q]
      BY <2>2 DEF TypeOK
    <3>2. dst[q] \in Seq(Text) /\ Len(dst[q]) + n[q] <= MaxRead
      BY DEF TypeOK
    <3>3. Len(dst[q]) \in Nat
      BY <3>2, LenProperties
    <3> QED
      BY <3>1, <3>2, <3>3, ConsoleAssumption
  <2> QED
    BY <1>7, <2>1, <2>2, <2>3 DEF read_eof, TypeOK, DstInv
<1>8. ASSUME NEW p \in Readers, read_killed(p) PROVE (TypeOK' /\ DstInv')
  <2>2. /\ n' \in [Readers -> 0..MaxRead] /\ lock' = Nobody
        /\ pc' \in [Readers -> {"out", "loop", "sleep", "asleep", "ready"}]
        /\ \A q \in Readers : n'[q] <= n[q]
    BY <1>8 DEF read_killed, Leave, TypeOK
  <2>3. ASSUME NEW q \in Readers PROVE Len(dst[q]) + n'[q] <= MaxRead
    <3>1. n[q] \in 0..MaxRead /\ n'[q] \in 0..MaxRead /\ n'[q] <= n[q]
      BY <2>2 DEF TypeOK
    <3>2. dst[q] \in Seq(Text) /\ Len(dst[q]) + n[q] <= MaxRead
      BY DEF TypeOK
    <3>3. Len(dst[q]) \in Nat
      BY <3>2, LenProperties
    <3> QED
      BY <3>1, <3>2, <3>3, ConsoleAssumption
  <2> QED
    BY <1>8, <2>2, <2>3 DEF read_killed, TypeOK, DstInv, ring
<1>9. ASSUME NEW p \in Readers, read_empty(p) PROVE (TypeOK' /\ DstInv')
  BY <1>9 DEF read_empty, TypeOK, DstInv, LockInv, Keys, Text, ring, reader
<1>10. ASSUME NEW p \in Readers, read_sleep(p) PROVE (TypeOK' /\ DstInv')
  BY <1>10 DEF read_sleep, TypeOK, DstInv, LockInv, Keys, Text, ring, reader
<1>11. ASSUME NEW p \in Readers, read_woken(p) PROVE (TypeOK' /\ DstInv')
  BY <1>11 DEF read_woken, TypeOK, DstInv, LockInv, Keys, Text, ring, reader
<1>12. ASSUME NEW p \in Readers, kill(p) PROVE (TypeOK' /\ DstInv')
  BY <1>12 DEF kill, TypeOK, DstInv, LockInv, Keys, Text, ring, reader
<1>13. ASSUME NEW p \in Readers, exit(p) PROVE (TypeOK' /\ DstInv')
  BY <1>13 DEF exit, TypeOK, DstInv, LockInv, Keys, Text, ring, reader
<1>14. CASE UNCHANGED vars
  BY <1>14 DEF vars, TypeOK, DstInv, LockInv, Keys, Text, ring, reader
<1> QED
  BY <1>1, <1>2, <1>3, <1>4, <1>5, <1>6, <1>7, <1>8, <1>9, <1>10, <1>11, <1>12, <1>13, <1>14 DEF Next

\* cons.lock is held by the one reader that is between its steps.
LEMMA LockStep == IInv /\ [Next]_vars => LockInv'
<1> SUFFICES ASSUME IInv, [Next]_vars PROVE LockInv'
  OBVIOUS
<1> USE ConsoleAssumption DEF IInv
<1>1. ASSUME NEW c \in {"x", "nl"}, consolewrite(c) PROVE LockInv'
  BY <1>1 DEF consolewrite, LockInv, TypeOK, ring, reader, Woken, Done
<1>2. CASE kill_line
  BY <1>2 DEF kill_line, LockInv, TypeOK, ring, reader, Woken, Done
<1>3. CASE backspace
  BY <1>3 DEF backspace, LockInv, TypeOK, ring, reader, Woken, Done
<1>4. ASSUME NEW key \in Keys, input_char(key) PROVE LockInv'
  BY SMTT(60), <1>4 DEF input_char, LockInv, TypeOK, ring, reader, Woken, Done
<1>5. ASSUME NEW p \in Readers, NEW k \in 1..MaxRead, consoleread(p, k) PROVE LockInv'
  BY <1>5 DEF consoleread, LockInv, TypeOK, ring, reader, Woken, Done
<1>6. ASSUME NEW p \in Readers, read_byte(p) PROVE LockInv'
  BY SMTT(60), <1>6 DEF read_byte, Leave, LockInv, TypeOK, ring, reader, Woken, Done
<1>7. ASSUME NEW p \in Readers, read_eof(p) PROVE LockInv'
  BY <1>7 DEF read_eof, Leave, LockInv, TypeOK, ring, reader, Woken, Done
<1>8. ASSUME NEW p \in Readers, read_killed(p) PROVE LockInv'
  BY <1>8 DEF read_killed, Leave, LockInv, TypeOK, ring, reader, Woken, Done
<1>9. ASSUME NEW p \in Readers, read_empty(p) PROVE LockInv'
  BY <1>9 DEF read_empty, LockInv, TypeOK, ring, reader, Woken, Done
<1>10. ASSUME NEW p \in Readers, read_sleep(p) PROVE LockInv'
  BY <1>10 DEF read_sleep, LockInv, TypeOK, ring, reader, Woken, Done
<1>11. ASSUME NEW p \in Readers, read_woken(p) PROVE LockInv'
  BY <1>11 DEF read_woken, LockInv, TypeOK, ring, reader, Woken, Done
<1>12. ASSUME NEW p \in Readers, kill(p) PROVE LockInv'
  BY <1>12 DEF kill, LockInv, TypeOK, ring, reader, Woken, Done
<1>13. ASSUME NEW p \in Readers, exit(p) PROVE LockInv'
  BY <1>13 DEF exit, LockInv, TypeOK, ring, reader, Woken, Done
<1>14. CASE UNCHANGED vars
  BY <1>14 DEF vars, LockInv, TypeOK, ring, reader, Woken, Done
<1> QED
  BY <1>1, <1>2, <1>3, <1>4, <1>5, <1>6, <1>7, <1>8, <1>9, <1>10, <1>11, <1>12, <1>13, <1>14 DEF Next

\* The indexes stay in order and a full ring is committed.
LEMMA RingStep == IInv /\ [Next]_vars => RingNotStuck'
<1> SUFFICES ASSUME IInv, [Next]_vars PROVE RingNotStuck'
  OBVIOUS
<1> USE ConsoleAssumption DEF IInv
<1>1. ASSUME NEW c \in {"x", "nl"}, consolewrite(c) PROVE RingNotStuck'
  BY <1>1 DEF consolewrite, RingNotStuck, Used, Uint, ring, reader
<1>2. CASE kill_line
  <2>1. Erased \in 0..Uint(e - w)
    BY ErasedIs
  <2>2. Used' = Used - Erased /\ Uint(w - r)' = Uint(w - r)
    BY <1>2, <2>1, Counts, CountErase DEF kill_line
  <2>3. Erased = 0 => e' = e
    <3>1. MaxUint \in Nat \ {0} /\ 0 \in 0..(MaxUint - 1) /\ e \in 0..(MaxUint - 1) /\ 0 <= e
      BY DEF TypeOK
    <3> QED
      BY <1>2, <3>1, WrapDiff DEF kill_line, Uint
  <2>4. Uint(e - w) = Used - Uint(w - r) /\ Uint(w - r) \in 0..Used /\ Used \in 0..INPUT_BUF
    BY Counts
  <2> QED
    BY <1>2, <2>1, <2>2, <2>3, <2>4 DEF kill_line, RingNotStuck
<1>3. CASE backspace
  <2>1. 1 \in 0..Used /\ Uint(w - r) < Used
    BY <1>3, Counts DEF backspace
  <2>2. Used' = Used - 1 /\ Uint(w - r)' = Uint(w - r)
    BY <1>3, <2>1, CountErase DEF backspace
  <2> QED
    BY <1>3, <2>1, <2>2, Counts DEF RingNotStuck
<1>4. ASSUME NEW key \in Keys, input_char(key) PROVE RingNotStuck'
  <2>1. /\ Used' = Used + 1 /\ e' = Uint(e + 1) /\ r' = r /\ Used + 1 <= INPUT_BUF
        /\ Uint(e + 1) = Uint(r + INPUT_BUF) <=> Used + 1 = INPUT_BUF
    BY <1>4, Counts, CountType DEF input_char, Room
  <2>2. CASE w' = e'
    <3>1. Uint(w - r)' = Used'
      BY <2>2 DEF Used
    <3> QED
      BY <2>1, <2>2, <3>1, Counts DEF RingNotStuck
  <2>3. CASE w' = w /\ Used + 1 # INPUT_BUF
    <3>1. Uint(w - r)' = Uint(w - r)
      BY <2>1, <2>3
    <3> QED
      BY <2>1, <2>3, <3>1, Counts DEF RingNotStuck
  <2> QED
    BY <1>4, <2>1, <2>2, <2>3 DEF input_char, Commits
<1>5. ASSUME NEW p \in Readers, NEW k \in 1..MaxRead, consoleread(p, k) PROVE RingNotStuck'
  BY <1>5 DEF consoleread, RingNotStuck, Used, Uint, ring, reader
<1>6. ASSUME NEW p \in Readers, read_byte(p) PROVE RingNotStuck'
  <2>1. Used' = Used - 1 /\ Uint(w - r)' = Uint(w - r) - 1
    BY <1>6, CountRead DEF read_byte
  <2> QED
    BY <2>1, Counts DEF RingNotStuck
<1>7. ASSUME NEW p \in Readers, read_eof(p) PROVE RingNotStuck'
  <2>1. CASE r' = r
    BY <1>7, <2>1 DEF read_eof, RingNotStuck, Used
  <2>2. CASE r' = Uint(r + 1)
    <3>1. Used' = Used - 1 /\ Uint(w - r)' = Uint(w - r) - 1
      BY <1>7, <2>2, CountRead DEF read_eof
    <3> QED
      BY <3>1, Counts DEF RingNotStuck
  <2> QED
    BY <1>7, <2>1, <2>2 DEF read_eof
<1>8. ASSUME NEW p \in Readers, read_killed(p) PROVE RingNotStuck'
  BY <1>8 DEF read_killed, Leave, RingNotStuck, Used, Uint, ring, reader
<1>9. ASSUME NEW p \in Readers, read_empty(p) PROVE RingNotStuck'
  BY <1>9 DEF read_empty, RingNotStuck, Used, Uint, ring, reader
<1>10. ASSUME NEW p \in Readers, read_sleep(p) PROVE RingNotStuck'
  BY <1>10 DEF read_sleep, RingNotStuck, Used, Uint, ring, reader
<1>11. ASSUME NEW p \in Readers, read_woken(p) PROVE RingNotStuck'
  BY <1>11 DEF read_woken, RingNotStuck, Used, Uint, ring, reader
<1>12. ASSUME NEW p \in Readers, kill(p) PROVE RingNotStuck'
  BY <1>12 DEF kill, RingNotStuck, Used, Uint, ring, reader
<1>13. ASSUME NEW p \in Readers, exit(p) PROVE RingNotStuck'
  BY <1>13 DEF exit, RingNotStuck, Used, Uint, ring, reader
<1>14. CASE UNCHANGED vars
  BY <1>14 DEF vars, RingNotStuck, Used, Uint, ring, reader
<1> QED
  BY <1>1, <1>2, <1>3, <1>4, <1>5, <1>6, <1>7, <1>8, <1>9, <1>10, <1>11, <1>12, <1>13, <1>14 DEF Next

\* A reader sleeps only while there is nothing to read.
LEMMA WakeStep == IInv /\ [Next]_vars => NoLostWakeup'
<1> SUFFICES ASSUME IInv, [Next]_vars PROVE NoLostWakeup'
  OBVIOUS
<1> USE ConsoleAssumption DEF IInv
<1>1. ASSUME NEW c \in {"x", "nl"}, consolewrite(c) PROVE NoLostWakeup'
  BY <1>1 DEF consolewrite, NoLostWakeup, LockInv, TypeOK, Woken, ring, reader
<1>2. CASE kill_line
  BY <1>2 DEF kill_line, NoLostWakeup, LockInv, TypeOK, Woken, ring, reader
<1>3. CASE backspace
  BY <1>3 DEF backspace, NoLostWakeup, LockInv, TypeOK, Woken, ring, reader
<1>4. ASSUME NEW key \in Keys, input_char(key) PROVE NoLostWakeup'
  BY SMTT(60), <1>4 DEF input_char, NoLostWakeup, LockInv, TypeOK, Woken, ring, reader
<1>5. ASSUME NEW p \in Readers, NEW k \in 1..MaxRead, consoleread(p, k) PROVE NoLostWakeup'
  BY <1>5 DEF consoleread, NoLostWakeup, LockInv, TypeOK, Woken, ring, reader
<1>6. ASSUME NEW p \in Readers, read_byte(p) PROVE NoLostWakeup'
  BY SMTT(60), <1>6 DEF read_byte, Leave, NoLostWakeup, LockInv, TypeOK, Woken, ring, reader
<1>7. ASSUME NEW p \in Readers, read_eof(p) PROVE NoLostWakeup'
  BY <1>7 DEF read_eof, Leave, NoLostWakeup, LockInv, TypeOK, Woken, ring, reader
<1>8. ASSUME NEW p \in Readers, read_killed(p) PROVE NoLostWakeup'
  BY <1>8 DEF read_killed, Leave, NoLostWakeup, LockInv, TypeOK, Woken, ring, reader
<1>9. ASSUME NEW p \in Readers, read_empty(p) PROVE NoLostWakeup'
  BY <1>9 DEF read_empty, NoLostWakeup, LockInv, TypeOK, Woken, ring, reader
<1>10. ASSUME NEW p \in Readers, read_sleep(p) PROVE NoLostWakeup'
  BY <1>10 DEF read_sleep, NoLostWakeup, LockInv, TypeOK, Woken, ring, reader
<1>11. ASSUME NEW p \in Readers, read_woken(p) PROVE NoLostWakeup'
  BY <1>11 DEF read_woken, NoLostWakeup, LockInv, TypeOK, Woken, ring, reader
<1>12. ASSUME NEW p \in Readers, kill(p) PROVE NoLostWakeup'
  BY <1>12 DEF kill, NoLostWakeup, LockInv, TypeOK, Woken, ring, reader
<1>13. ASSUME NEW p \in Readers, exit(p) PROVE NoLostWakeup'
  BY <1>13 DEF exit, NoLostWakeup, LockInv, TypeOK, Woken, ring, reader
<1>14. CASE UNCHANGED vars
  BY <1>14 DEF vars, NoLostWakeup, LockInv, TypeOK, Woken, ring, reader
<1> QED
  BY <1>1, <1>2, <1>3, <1>4, <1>5, <1>6, <1>7, <1>8, <1>9, <1>10, <1>11, <1>12, <1>13, <1>14 DEF Next

\* The cursor stays on the screen.
LEMMA CursorStep == IInv /\ [Next]_vars => CursorOnScreen'
<1> SUFFICES ASSUME IInv, [Next]_vars PROVE CursorOnScreen'
  OBVIOUS
<1> USE ConsoleAssumption DEF IInv
<1>1. ASSUME NEW c \in {"x", "nl"}, consolewrite(c) PROVE CursorOnScreen'
  BY <1>1, CursorMoves DEF consolewrite, CursorOnScreen
<1>2. CASE kill_line
  <2>1. Erased \in Nat /\ pos \in Nat /\ ROWS * COLS \in Int
    BY ErasedIs, Counts DEF CursorOnScreen
  <2> QED
    BY <1>2, <2>1 DEF kill_line, CursorOnScreen
<1>3. CASE backspace
  BY <1>3, CursorMoves DEF backspace, CursorOnScreen
<1>4. ASSUME NEW key \in Keys, input_char(key) PROVE CursorOnScreen'
  BY <1>4, CursorMoves DEF input_char, CursorOnScreen
<1>5. ASSUME NEW p \in Readers, NEW k \in 1..MaxRead, consoleread(p, k) PROVE CursorOnScreen'
  BY <1>5 DEF consoleread, CursorOnScreen, ring, reader
<1>6. ASSUME NEW p \in Readers, read_byte(p) PROVE CursorOnScreen'
  BY <1>6 DEF read_byte, Leave, CursorOnScreen, ring, reader
<1>7. ASSUME NEW p \in Readers, read_eof(p) PROVE CursorOnScreen'
  BY <1>7 DEF read_eof, Leave, CursorOnScreen, ring, reader
<1>8. ASSUME NEW p \in Readers, read_killed(p) PROVE CursorOnScreen'
  BY <1>8 DEF read_killed, Leave, CursorOnScreen, ring, reader
<1>9. ASSUME NEW p \in Readers, read_empty(p) PROVE CursorOnScreen'
  BY <1>9 DEF read_empty, CursorOnScreen, ring, reader
<1>10. ASSUME NEW p \in Readers, read_sleep(p) PROVE CursorOnScreen'
  BY <1>10 DEF read_sleep, CursorOnScreen, ring, reader
<1>11. ASSUME NEW p \in Readers, read_woken(p) PROVE CursorOnScreen'
  BY <1>11 DEF read_woken, CursorOnScreen, ring, reader
<1>12. ASSUME NEW p \in Readers, kill(p) PROVE CursorOnScreen'
  BY <1>12 DEF kill, CursorOnScreen, ring, reader
<1>13. ASSUME NEW p \in Readers, exit(p) PROVE CursorOnScreen'
  BY <1>13 DEF exit, CursorOnScreen, ring, reader
<1>14. CASE UNCHANGED vars
  BY <1>14 DEF vars, CursorOnScreen, ring, reader
<1> QED
  BY <1>1, <1>2, <1>3, <1>4, <1>5, <1>6, <1>7, <1>8, <1>9, <1>10, <1>11, <1>12, <1>13, <1>14 DEF Next

\* What is not committed is text.
LEMMA LineStep == IInv /\ [Next]_vars /\ TypeOK' /\ RingNotStuck' => LineInv'
<1> SUFFICES ASSUME IInv, [Next]_vars, TypeOK', RingNotStuck' PROVE LineInv'
  OBVIOUS
<1> USE ConsoleAssumption DEF IInv
<1>1. ASSUME NEW c \in {"x", "nl"}, consolewrite(c) PROVE LineInv'
  <2>1. UNCHANGED <<buf, r, w, e>>
    BY <1>1 DEF consolewrite, ring
  <2> QED
    BY <2>1 DEF LineInv, Uint, At
<1>2. CASE kill_line
  <2>0. PICK a \in Nat, d \in Nat : a = Uint(w - r) /\ d = Used /\ a <= d /\ d <= INPUT_BUF /\ Uint(e - w) = d - a
    BY Counts
  <2>1. RingView /\ RingView'
    BY RingText, PTL
  <2>2. Erased \in 0..(d - a) /\ UNCHANGED <<buf, r, w>>
    BY <1>2, <2>0, ErasedIs DEF kill_line
  <2>3. Used' = d - Erased /\ Uint(w - r)' = a
    BY <1>2, <2>0, <2>2, CountErase DEF kill_line
  <2>4. PICK k \in 0..(d - a) : k = Erased
    BY <2>2
  <2>5. \A j \in 0..(d - a - 1) : At(r + a + j) = "x"
    BY <2>0, <2>1 DEF RingView
  <2>6. ASSUME NEW j \in 0..((d - k) - a - 1) PROVE At(r + a + j)' = "x"
    <3>1. j \in 0..(d - a - 1)
      BY <2>0
    <3> QED
      BY <2>2, <2>5, <3>1 DEF At
  <2> QED
    BY <2>1, <2>3, <2>4, <2>6 DEF RingView
<1>3. CASE backspace
  <2>0. PICK a \in Nat, d \in Nat : a = Uint(w - r) /\ d = Used /\ a <= d /\ d <= INPUT_BUF /\ Uint(e - w) = d - a
    BY Counts
  <2>1. RingView /\ RingView'
    BY RingText, PTL
  <2>2. 1 \in 0..(d - a) /\ UNCHANGED <<buf, r, w>>
    BY <1>3, <2>0, Counts DEF backspace
  <2>3. Used' = d - 1 /\ Uint(w - r)' = a
    BY <1>3, <2>0, <2>2, CountErase DEF backspace
  <2>4. PICK k \in 0..(d - a) : k = 1
    BY <2>2
  <2>5. \A j \in 0..(d - a - 1) : At(r + a + j) = "x"
    BY <2>0, <2>1 DEF RingView
  <2>6. ASSUME NEW j \in 0..((d - k) - a - 1) PROVE At(r + a + j)' = "x"
    <3>1. j \in 0..(d - a - 1)
      BY <2>0
    <3> QED
      BY <2>2, <2>5, <3>1 DEF At
  <2> QED
    BY <2>1, <2>3, <2>4, <2>6 DEF RingView
<1>4. ASSUME NEW key \in Keys, input_char(key) PROVE LineInv'
  <2>0. PICK a \in Nat, d \in Nat : a = Uint(w - r) /\ d = Used /\ a <= d /\ d <= INPUT_BUF /\ Uint(e - w) = d - a
    BY Counts
  <2>1. RingView /\ RingView'
    BY RingText, PTL
  <2>2. PICK c \in Text : c = IF key = "cr" THEN "nl" ELSE key
    BY DEF Keys, Text
  <2>3. /\ Used' = d + 1 /\ UNCHANGED r /\ e' = Uint(e + 1) /\ buf' = [buf EXCEPT ![e % INPUT_BUF] = c] /\ Room
    BY <1>4, <2>0, <2>2, CountType DEF input_char
  <2>4. CASE w' = e'
    <3>1. Uint(w - r)' = Used'
      BY <2>4 DEF Used
    <3> QED
      BY <2>0, <2>1, <2>3, <3>1 DEF RingView
  <2>5. CASE w' = w /\ c = "x"
    <3>1. Uint(w - r)' = a
      BY <2>0, <2>3, <2>5
    <3>2. (\A k \in 0..(d - 1) : At(r + k)' = At(r + k)) /\ At(r + d)' = c
      BY <2>0, <2>2, <2>3, AtTyped
    <3>3. \A k \in 0..(d - a - 1) : At(r + a + k) = "x"
      BY <2>0, <2>1 DEF RingView
    <3>4. ASSUME NEW k \in 0..(d + 1 - a - 1) PROVE At(r + a + k)' = "x"
      <4>1. PICK j \in Nat : j = a + k
        BY <2>0
      <4>0. r \in Int
        BY DEF TypeOK
      <4>2. r + a + k = r + j
        BY <2>0, <4>0, <4>1
      <4>3. CASE k = d - a
        <5>1. j = d
          BY <2>0, <4>1, <4>3
        <5> QED
          BY <2>3, <2>5, <3>2, <4>2, <5>1 DEF At
      <4>4. CASE k # d - a
        <5>1. j \in 0..(d - 1) /\ k \in 0..(d - a - 1)
          BY <2>0, <4>1, <4>4
        <5>2. At(r + j)' = At(r + j) /\ At(r + a + k) = "x"
          BY <3>2, <3>3, <5>1
        <5> QED
          BY <2>3, <4>2, <5>2 DEF At
      <4> QED
        BY <4>3, <4>4
    <3> QED
      BY <2>1, <2>3, <3>1, <3>4 DEF RingView
  <2> QED
    BY <1>4, <2>2, <2>3, <2>4, <2>5 DEF input_char, Commits, Text
<1>5. ASSUME NEW p \in Readers, NEW k \in 1..MaxRead, consoleread(p, k) PROVE LineInv'
  <2>1. UNCHANGED <<buf, r, w, e>>
    BY <1>5 DEF consoleread, ring
  <2> QED
    BY <2>1 DEF LineInv, Uint, At
<1>6. ASSUME NEW p \in Readers, read_byte(p) PROVE LineInv'
  <2>0. PICK a \in Nat, d \in Nat : a = Uint(w - r) /\ d = Used /\ a <= d /\ d <= INPUT_BUF /\ Uint(e - w) = d - a
    BY Counts
  <2>1. RingView /\ RingView'
    BY RingText, PTL
  <2>2. Used' = d - 1 /\ Uint(w - r)' = a - 1 /\ a >= 1
    BY <1>6, <2>0, CountRead DEF read_byte
  <2>3. \A k \in Int : At(r + k)' = At(r + 1 + k)
    BY <1>6, AtRead DEF read_byte
  <2>4. \A k \in 0..(d - a - 1) : At(r + a + k) = "x"
    BY <2>0, <2>1 DEF RingView
  <2>5. ASSUME NEW k \in 0..(d - a - 1) PROVE At(r + (a - 1) + k)' = "x"
    <3>1. a - 1 + k \in Int /\ r \in Int /\ r' \in Int
      BY SMTT(60), <2>0, TypeStep DEF TypeOK
    <3>2. At(r + (a - 1 + k))' = At(r + 1 + (a - 1 + k)) /\ At(r + a + k) = "x"
      BY <2>3, <2>4, <3>1
    <3>3. r' + (a - 1) + k = r' + (a - 1 + k) /\ r + 1 + (a - 1 + k) = r + a + k
      BY <2>0, <3>1
    <3> QED
      BY <3>2, <3>3 DEF At
  <2>6. Used' - Uint(w - r)' - 1 = d - a - 1
    BY <2>0, <2>2
  <2> QED
    BY <2>1, <2>2, <2>5, <2>6 DEF RingView
<1>7. ASSUME NEW p \in Readers, read_eof(p) PROVE LineInv'
  <2>7. CASE r' = r
    <3>1. UNCHANGED <<buf, r, w, e>>
      BY <1>7, <2>7 DEF read_eof
    <3> QED
      BY <3>1 DEF LineInv, Uint, At
  <2>8. CASE r' = Uint(r + 1)
    <3>0. PICK a \in Nat, d \in Nat : a = Uint(w - r) /\ d = Used /\ a <= d /\ d <= INPUT_BUF /\ Uint(e - w) = d - a
      BY Counts
    <3>1. RingView /\ RingView'
      BY RingText, PTL
    <3>2. Used' = d - 1 /\ Uint(w - r)' = a - 1 /\ a >= 1
      BY <1>7, <2>8, <3>0, CountRead DEF read_eof
    <3>3. \A k \in Int : At(r + k)' = At(r + 1 + k)
      BY <1>7, <2>8, AtRead DEF read_eof
    <3>4. \A k \in 0..(d - a - 1) : At(r + a + k) = "x"
      BY <3>0, <3>1 DEF RingView
    <3>5. ASSUME NEW k \in 0..(d - a - 1) PROVE At(r + (a - 1) + k)' = "x"
      <4>1. a - 1 + k \in Int /\ r \in Int /\ r' \in Int
        BY SMTT(60), <3>0, TypeStep DEF TypeOK
      <4>2. At(r + (a - 1 + k))' = At(r + 1 + (a - 1 + k)) /\ At(r + a + k) = "x"
        BY <3>3, <3>4, <4>1
      <4>3. r' + (a - 1) + k = r' + (a - 1 + k) /\ r + 1 + (a - 1 + k) = r + a + k
        BY <3>0, <4>1
      <4> QED
        BY <4>2, <4>3 DEF At
    <3>6. Used' - Uint(w - r)' - 1 = d - a - 1
      BY <3>0, <3>2
    <3> QED
      BY <3>1, <3>2, <3>5, <3>6 DEF RingView
  <2> QED
    BY <1>7, <2>7, <2>8 DEF read_eof
<1>8. ASSUME NEW p \in Readers, read_killed(p) PROVE LineInv'
  <2>1. UNCHANGED <<buf, r, w, e>>
    BY <1>8 DEF read_killed, Leave, ring
  <2> QED
    BY <2>1 DEF LineInv, Uint, At
<1>9. ASSUME NEW p \in Readers, read_empty(p) PROVE LineInv'
  <2>1. UNCHANGED <<buf, r, w, e>>
    BY <1>9 DEF read_empty, ring
  <2> QED
    BY <2>1 DEF LineInv, Uint, At
<1>10. ASSUME NEW p \in Readers, read_sleep(p) PROVE LineInv'
  <2>1. UNCHANGED <<buf, r, w, e>>
    BY <1>10 DEF read_sleep, ring
  <2> QED
    BY <2>1 DEF LineInv, Uint, At
<1>11. ASSUME NEW p \in Readers, read_woken(p) PROVE LineInv'
  <2>1. UNCHANGED <<buf, r, w, e>>
    BY <1>11 DEF read_woken, ring
  <2> QED
    BY <2>1 DEF LineInv, Uint, At
<1>12. ASSUME NEW p \in Readers, kill(p) PROVE LineInv'
  <2>1. UNCHANGED <<buf, r, w, e>>
    BY <1>12 DEF kill, ring
  <2> QED
    BY <2>1 DEF LineInv, Uint, At
<1>13. ASSUME NEW p \in Readers, exit(p) PROVE LineInv'
  <2>1. UNCHANGED <<buf, r, w, e>>
    BY <1>13 DEF exit, ring
  <2> QED
    BY <2>1 DEF LineInv, Uint, At
<1>14. CASE UNCHANGED vars
  <2>1. UNCHANGED <<buf, r, w, e>>
    BY <1>14 DEF vars, ring
  <2> QED
    BY <2>1 DEF LineInv, Uint, At
<1> QED
  BY <1>1, <1>2, <1>3, <1>4, <1>5, <1>6, <1>7, <1>8, <1>9, <1>10, <1>11, <1>12, <1>13, <1>14 DEF Next

\* The state after consoleinit satisfies the invariant.
LEMMA InitInv == Init => IInv
<1> SUFFICES ASSUME Init PROVE IInv
  OBVIOUS
<1> USE ConsoleAssumption
<1>1. DstInv
  <2>1. <<>> \in Seq(Text)
    BY EmptySeq
  <2> QED
    BY <2>1 DEF DstInv, Init
<1>2. \A p \in Readers : dst[p] = <<>> /\ Len(dst[p]) = 0 /\ n[p] = 0
  BY DEF Init
<1>3. TypeOK
  <2>1. {r, w, e} \subseteq 0..(MaxUint - 1) /\ pos \in Int /\ lock \in Readers \cup {Nobody}
    BY DEF Init
  <2>2. buf \in [0..(INPUT_BUF - 1) -> Text] /\ killed \in [Readers -> BOOLEAN]
    BY DEF Init, Text
  <2>3. n \in [Readers -> 0..MaxRead] /\ pc \in [Readers -> {"out", "loop", "sleep", "asleep", "ready"}]
    BY DEF Init
  <2>4. \A p \in Readers : dst[p] \in Seq(Text) /\ Len(dst[p]) + n[p] <= MaxRead
    <3> SUFFICES ASSUME NEW p \in Readers PROVE dst[p] \in Seq(Text) /\ Len(dst[p]) + n[p] <= MaxRead
      OBVIOUS
    <3>1. dst[p] \in Seq(Text)
      BY <1>1 DEF DstInv
    <3>2. Len(dst[p]) + n[p] = 0 /\ 0 <= MaxRead
      BY <1>2
    <3> QED
      BY <3>1, <3>2
  <2> QED
    BY <2>1, <2>2, <2>3, <2>4 DEF TypeOK
<1>4. LockInv /\ NoLostWakeup
  BY DEF LockInv, NoLostWakeup, Init
<1>5. Uint(0) = 0
  BY DEF Uint
<1>6. RingNotStuck /\ LineInv
  BY <1>5 DEF RingNotStuck, LineInv, Used, Init
<1>7. CursorOnScreen
  <2>1. ROWS * COLS >= 1 /\ ROWS * COLS \in Int
    OBVIOUS
  <2> QED
    BY <2>1 DEF CursorOnScreen, Init
<1> QED
  BY <1>1, <1>3, <1>4, <1>6, <1>7 DEF IInv

\* The invariant is inductive.
LEMMA Inductive == Spec => []IInv
<1>1. IInv /\ [Next]_vars => IInv'
  BY TypeStep, LockStep, RingStep, LineStep, WakeStep, CursorStep DEF IInv
<1> QED
  BY <1>1, InitInv, PTL DEF Spec

(***************************************************************************)
(* The indexes, the lock and the readers' counts keep their types, and no  *)
(* consoleread returns more than it was asked for (console.c:235-271).     *)
(***************************************************************************)
THEOREM TypeCorrect == Spec => []TypeOK
<1>1. IInv => TypeOK
  BY DEF IInv
<1> QED
  BY <1>1, Inductive, PTL

(***************************************************************************)
(* For any ring size and any counter width it divides, r, w and e stay in  *)
(* order across their wrap, and a full ring is committed: typing never     *)
(* ends with characters dropped and readers asleep (console.c:190-233).    *)
(***************************************************************************)
THEOREM RingNotStuckHolds == Spec => []RingNotStuck
<1>1. IInv => RingNotStuck
  BY DEF IInv
<1> QED
  BY <1>1, Inductive, PTL

(***************************************************************************)
(* No wakeup of consoleintr is lost to a reader that has tested r and w    *)
(* and not yet slept: who sleeps has nothing to read (console.c:220-221,   *)
(* 244-251).  It says nothing of kill, which console.c:246 may miss.       *)
(***************************************************************************)
THEOREM NoLostWakeupHolds == Spec => []NoLostWakeup
<1>1. IInv => NoLostWakeup
  BY DEF IInv
<1> QED
  BY <1>1, Inductive, PTL

(***************************************************************************)
(* On a screen of any size the cursor stays on it through newlines,        *)
(* backspaces at the first column and scrolling (console.c:130-163).       *)
(***************************************************************************)
THEOREM CursorOnScreenHolds == Spec => []CursorOnScreen
<1>1. IInv => CursorOnScreen
  BY DEF IInv
<1> QED
  BY <1>1, Inductive, PTL
-----------------------------------------------------------------------------
(***************************************************************************)
(* The line discipline.  The committed part of the ring is what is done,   *)
(* the rest is the line.                                                   *)
(***************************************************************************)
DoneText == Between(r, w)
LineText == Between(w, e)
Want     == [p \in Readers |-> IF pc[p] = "out" THEN 0 ELSE n[p] + Len(dst[p])]

RingSeqs ==
  /\ DoneText \in Seq(Text) /\ Len(DoneText) = Uint(w - r)
  /\ \A k \in 1..Uint(w - r) : DoneText[k] = At(r + k - 1)
  /\ LineText \in Seq(Text) /\ Len(LineText) = Used - Uint(w - r)
  /\ \A k \in 1..(Used - Uint(w - r)) : LineText[k] = At(r + Uint(w - r) + k - 1)

\* The two parts of the ring are sequences of typed characters.
LEMMA SeqsAre == TypeOK /\ RingNotStuck => RingSeqs
<1> SUFFICES ASSUME TypeOK, RingNotStuck PROVE RingSeqs
  OBVIOUS
<1>1. PICK a \in Nat, d \in Nat : a = Uint(w - r) /\ d = Used /\ a <= d
  BY Counts
<1>2. /\ DoneText = [k \in 1..a |-> At(r + k - 1)]
      /\ LineText = [k \in 1..(d - a) |-> At(r + a + k - 1)]
  BY <1>1, RingText DEF RingView, DoneText, LineText
<1>3. ASSUME NEW x \in Int PROVE At(x) \in Text
  <2>1. x % INPUT_BUF \in 0..(INPUT_BUF - 1)
    BY ConsoleAssumption
  <2> QED
    BY <2>1 DEF At, TypeOK
<1>4. r \in Int /\ d - a \in Nat
  BY <1>1 DEF TypeOK
<1>5. \A k \in 1..a : At(r + k - 1) \in Text
  BY <1>3, <1>4
<1>6. \A k \in 1..(d - a) : At(r + a + k - 1) \in Text
  BY <1>1, <1>3, <1>4
<1>7. DoneText \in Seq(Text) /\ Len(DoneText) = a
  <2>1. DoneText \in [1..a -> Text]
    BY <1>2, <1>5
  <2> QED
    BY <2>1, SeqDef
<1>8. LineText \in Seq(Text) /\ Len(LineText) = d - a
  <2>1. LineText \in [1..(d - a) -> Text]
    BY <1>2, <1>6
  <2> QED
    BY <1>4, <2>1, SeqDef
<1>9. /\ \A k \in 1..a : DoneText[k] = At(r + k - 1)
      /\ \A k \in 1..(d - a) : LineText[k] = At(r + a + k - 1)
  BY <1>2
<1> QED
  BY <1>1, <1>7, <1>8, <1>9 DEF RingSeqs

\* A typed character that ends no line is added to the line.
LEMMA TypeLine ==
  ASSUME TypeOK, RingNotStuck, TypeOK', RingNotStuck', Room, NEW c \in Text,
         buf' = [buf EXCEPT ![e % INPUT_BUF] = c], r' = r, w' = w, e' = Uint(e + 1)
  PROVE  DoneText' = DoneText /\ LineText' = Append(LineText, c)
<1>1. PICK a \in Nat, d \in Nat : a = Uint(w - r) /\ d = Used /\ a <= d
  BY Counts
<1>2. Used' = d + 1 /\ Uint(w - r)' = a
  BY <1>1, CountType
<1>3. (\A k \in 0..(d - 1) : At(r + k)' = At(r + k)) /\ At(r + d)' = c
  BY <1>1, AtTyped
<1>4. RingSeqs /\ RingSeqs'
  BY SeqsAre, PTL
<1>5. r \in Int
  BY DEF TypeOK
<1>6. DoneText' = DoneText
  <2>1. DoneText \in Seq(Text) /\ DoneText' \in Seq(Text) /\ Len(DoneText) = a /\ Len(DoneText') = a
    BY <1>1, <1>2, <1>4 DEF RingSeqs
  <2>2. ASSUME NEW k \in 1..a PROVE DoneText[k] = DoneText'[k]
    <3>1. DoneText[k] = At(r + k - 1) /\ DoneText'[k] = At(r + k - 1)'
      BY <1>1, <1>2, <1>4 DEF RingSeqs
    <3>2. k - 1 \in 0..(d - 1) /\ r + k - 1 = r + (k - 1)
      BY <1>1, <1>5
    <3>3. At(r + (k - 1))' = At(r + (k - 1))
      BY <1>3, <3>2
    <3> QED
      BY <3>1, <3>2, <3>3 DEF At
  <2> QED
    BY <2>1, <2>2, SeqEqual
<1>7. LineText' = Append(LineText, c)
  <2>1. /\ LineText \in Seq(Text) /\ LineText' \in Seq(Text)
        /\ Len(LineText) = d - a /\ Len(LineText') = d - a + 1
    BY <1>1, <1>2, <1>4 DEF RingSeqs
  <2>2. /\ Append(LineText, c) \in Seq(Text) /\ Len(Append(LineText, c)) = d - a + 1
        /\ \A k \in 1..(d - a) : Append(LineText, c)[k] = LineText[k]
        /\ Append(LineText, c)[d - a + 1] = c
    BY <2>1, AppendProperties
  <2>3. ASSUME NEW k \in 1..(d - a + 1) PROVE LineText'[k] = Append(LineText, c)[k]
    <3>1. LineText'[k] = At(r + a + k - 1)'
      BY SMTT(60), <1>1, <1>2, <1>4 DEF RingSeqs
    <3>2. PICK j \in 0..d : j = a + k - 1 /\ r + a + k - 1 = r + j
      BY <1>1, <1>5
    <3>3. LineText'[k] = At(r + j)'
      BY <3>1, <3>2 DEF At
    <3>4. CASE k = d - a + 1
      BY SMTT(60), <1>1, <1>3, <2>2, <3>2, <3>3, <3>4
    <3>5. CASE k # d - a + 1
      <4>1. j \in 0..(d - 1) /\ k \in 1..(d - a)
        BY <1>1, <3>2, <3>5
      <4>2. LineText[k] = At(r + j)
        BY <1>1, <1>4, <3>2, <4>1 DEF RingSeqs
      <4> QED
        BY <1>3, <2>2, <3>3, <4>1, <4>2
    <3> QED
      BY <3>4, <3>5
  <2> QED
    BY <2>1, <2>2, <2>3, SeqEqual
<1> QED
  BY <1>6, <1>7

\* A typed character that ends the line hands all of it to the readers.
LEMMA TypeCommit ==
  ASSUME TypeOK, RingNotStuck, TypeOK', RingNotStuck', Room, NEW c \in Text,
         buf' = [buf EXCEPT ![e % INPUT_BUF] = c], r' = r, w' = e', e' = Uint(e + 1)
  PROVE  DoneText' = DoneText \o Append(LineText, c) /\ LineText' = <<>>
<1>1. PICK a \in Nat, d \in Nat : a = Uint(w - r) /\ d = Used /\ a <= d
  BY Counts
<1>2. Used' = d + 1 /\ Uint(w - r)' = d + 1
  BY <1>1, CountType DEF Used
<1>3. (\A k \in 0..(d - 1) : At(r + k)' = At(r + k)) /\ At(r + d)' = c
  BY <1>1, AtTyped
<1>4. RingSeqs /\ RingSeqs'
  BY SeqsAre, PTL
<1>5. r \in Int
  BY DEF TypeOK
<1>6. /\ LineText \in Seq(Text) /\ LineText' \in Seq(Text) /\ DoneText \in Seq(Text) /\ DoneText' \in Seq(Text)
      /\ Len(LineText) = d - a /\ Len(LineText') = 0 /\ Len(DoneText) = a /\ Len(DoneText') = d + 1
  BY <1>1, <1>2, <1>4 DEF RingSeqs
<1>7. /\ Append(LineText, c) \in Seq(Text) /\ Len(Append(LineText, c)) = d - a + 1
      /\ \A k \in 1..(d - a) : Append(LineText, c)[k] = LineText[k]
      /\ Append(LineText, c)[d - a + 1] = c
  BY <1>6, AppendProperties
<1> DEFINE all == DoneText \o Append(LineText, c)
<1>8. /\ all \in Seq(Text) /\ Len(all) = d + 1
      /\ \A k \in 1..(d + 1) : all[k] = IF k <= a THEN DoneText[k] ELSE Append(LineText, c)[k - a]
  <2>1. /\ all \in Seq(Text) /\ Len(all) = a + (d - a + 1)
        /\ \A k \in 1..(a + (d - a + 1)) : all[k] = IF k <= a THEN DoneText[k] ELSE Append(LineText, c)[k - a]
    BY <1>6, <1>7, ConcatProperties
  <2>2. a + (d - a + 1) = d + 1
    BY <1>1
  <2> QED
    BY <2>1, <2>2
<1>9. ASSUME NEW k \in 1..(d + 1) PROVE DoneText'[k] = all[k]
  <2>1. PICK j \in 0..d : j = k - 1 /\ r + k - 1 = r + j
    BY <1>1, <1>5
  <2>2. DoneText'[k] = At(r + j)'
    <3>1. DoneText'[k] = At(r + k - 1)'
      BY <1>2, <1>4 DEF RingSeqs
    <3> QED
      BY <2>1, <3>1 DEF At
  <2>3. CASE k = d + 1
    <3>1. ~(k <= a) /\ k - a = d - a + 1
      BY <1>1, <2>3
    <3>2. all[k] = Append(LineText, c)[k - a]
      BY <1>8, <3>1
    <3>3. all[k] = Append(LineText, c)[d - a + 1]
      BY <3>1, <3>2
    <3> QED
      BY <1>3, <1>7, <2>1, <2>2, <2>3, <3>3
  <2>4. CASE k <= a
    <3>1. all[k] = At(r + j) /\ j \in 0..(d - 1)
      BY <1>1, <1>4, <1>8, <2>1, <2>4 DEF RingSeqs
    <3> QED
      BY <1>3, <2>2, <3>1
  <2>5. CASE k # d + 1 /\ ~(k <= a)
    <3>1. k - a \in 1..(d - a) /\ j \in 0..(d - 1) /\ r + a + (k - a) - 1 = r + j
      BY <1>1, <1>5, <2>1, <2>5
    <3>2. all[k] = LineText[k - a]
      BY <1>7, <1>8, <2>5, <3>1
    <3>3. LineText[k - a] = At(r + j)
      BY <1>1, <1>4, <3>1 DEF RingSeqs
    <3> QED
      BY <1>3, <2>2, <3>1, <3>2, <3>3
  <2> QED
    BY <2>3, <2>4, <2>5
<1>10. DoneText' = all
  BY <1>6, <1>8, <1>9, SeqEqual
<1>11. LineText' = <<>>
  BY <1>6, EmptySeq
<1> QED
  BY <1>10, <1>11

\* Erasing shortens the line.
LEMMA EraseLine ==
  ASSUME TypeOK, RingNotStuck, TypeOK', RingNotStuck', NEW m \in 0..(Used - Uint(w - r)),
         UNCHANGED <<buf, r, w>>, e' = Uint(e - m)
  PROVE  DoneText' = DoneText /\ LineText' = SubSeq(LineText, 1, Len(LineText) - m)
<1>1. PICK a \in Nat, d \in Nat : a = Uint(w - r) /\ d = Used /\ a <= d
  BY Counts
<1>2. Used' = d - m /\ Uint(w - r)' = a /\ m \in 0..(d - a)
  BY <1>1, CountErase
<1>3. RingSeqs /\ RingSeqs'
  BY SeqsAre, PTL
<1>4. DoneText' = DoneText
  BY DEF DoneText, Between, Uint, At
<1>5. /\ LineText \in Seq(Text) /\ LineText' \in Seq(Text)
      /\ Len(LineText) = d - a /\ Len(LineText') = d - m - a
  BY <1>1, <1>2, <1>3 DEF RingSeqs
<1>6. ASSUME NEW k \in 1..(d - m - a) PROVE LineText'[k] = LineText[k]
  <2>1. LineText'[k] = At(r + a + k - 1)' /\ LineText[k] = At(r + a + k - 1)
    BY SMTT(60), <1>1, <1>2, <1>3 DEF RingSeqs
  <2> QED
    BY <2>1 DEF At
<1> DEFINE s == SubSeq(LineText, 1, d - a - m)
<1>7. s \in Seq(Text) /\ Len(s) = d - a - m /\ \A k \in 1..(d - a - m) : s[k] = LineText[k]
  <2>1. \A k \in 1..(d - a - m) : LineText[k] \in Text
    BY <1>2, <1>5
  <2>2. 1 \in Int /\ d - a - m \in Int
    BY <1>1, <1>2
  <2>3. /\ s \in Seq(Text) /\ Len(s) = IF 1 <= d - a - m THEN d - a - m - 1 + 1 ELSE 0
        /\ \A k \in 1..(d - a - m - 1 + 1) : s[k] = LineText[1 + k - 1]
    BY <2>1, <2>2, SubSeqProperties
  <2> QED
    BY <1>1, <1>2, <2>3
<1>8. LineText' = s
  <2>1. d - m - a = d - a - m
    BY <1>1, <1>2
  <2> QED
    BY <1>5, <1>6, <1>7, <2>1, SeqEqual
<1> QED
  BY <1>4, <1>5, <1>8

\* C('U') erases the whole line: there is no newline in it.
LEMMA ErasesLine ==
  ASSUME TypeOK, RingNotStuck, LineInv
  PROVE  Erased = Used - Uint(w - r)
<1>1. PICK a \in Nat, d \in Nat : a = Uint(w - r) /\ d = Used /\ a <= d /\ Uint(e - w) = d - a
  BY Counts
<1>2. PICK m \in 0..(d - a) : m = Erased /\ Kept(m)
  BY <1>1, ErasedIs
<1> SUFFICES ASSUME m # d - a PROVE FALSE
  BY <1>1, <1>2
<1>3. At(Uint(e - m - 1)) = "nl" /\ r \in Int /\ e \in Int
  BY <1>1, <1>2 DEF Kept, TypeOK
<1>4. e - m - 1 = e + (-m - 1) /\ -m - 1 \in Int /\ e + (-m - 1) \in Int /\ r + d \in Int
  BY <1>1, <1>3
<1>5. At(Uint(e - m - 1)) = At(e + (-m - 1))
  BY <1>4, AtUint
<1>6. e = Uint(r + d)
  BY <1>1, Counts
<1>7. At(Uint(r + d) + (-m - 1)) = At(r + d + (-m - 1))
  BY <1>4, AtFrom
<1>8. PICK j \in 0..(d - a - 1) : j = d - a - m - 1 /\ r + d + (-m - 1) = r + a + j
  BY <1>1, <1>2, <1>3
<1>9. At(r + a + j) = "x"
  BY <1>1, RingText DEF RingView
<1> QED
  BY <1>3, <1>5, <1>6, <1>7, <1>8, <1>9

\* A reader takes the first committed character.
LEMMA ReadLine ==
  ASSUME TypeOK, RingNotStuck, TypeOK', RingNotStuck', r # w, r' = Uint(r + 1), UNCHANGED <<buf, w, e>>
  PROVE  DoneText' = Tail(DoneText) /\ LineText' = LineText
<1>1. PICK a \in Nat, d \in Nat : a = Uint(w - r) /\ d = Used /\ a <= d
  BY Counts
<1>2. Used' = d - 1 /\ Uint(w - r)' = a - 1 /\ a >= 1
  BY <1>1, CountRead
<1>3. RingSeqs /\ RingSeqs'
  BY SeqsAre, PTL
<1>4. LineText' = LineText
  BY DEF LineText, Between, Uint, At
<1>5. DoneText \in Seq(Text) /\ DoneText' \in Seq(Text) /\ Len(DoneText) = a /\ Len(DoneText') = a - 1
  BY <1>1, <1>2, <1>3 DEF RingSeqs
<1>6. DoneText # <<>>
  BY <1>2, <1>5, EmptySeq
<1>7. /\ Tail(DoneText) \in Seq(Text) /\ Len(Tail(DoneText)) = a - 1
      /\ \A k \in 1..(a - 1) : Tail(DoneText)[k] = DoneText[k + 1]
  BY <1>5, <1>6, HeadTailProperties
<1>8. ASSUME NEW k \in 1..(a - 1) PROVE DoneText'[k] = Tail(DoneText)[k]
  <2>1. r \in Int /\ r' \in Int
    BY DEF TypeOK
  <2>2. DoneText'[k] = At(r + k - 1)'
    BY <1>2, <1>3 DEF RingSeqs
  <2>3. r' + k - 1 = r' + (k - 1) /\ r + (k + 1) - 1 = r + 1 + (k - 1) /\ k - 1 \in Int /\ k + 1 \in 1..a
    BY <1>2, <2>1
  <2>4. At(r + (k - 1))' = At(r + 1 + (k - 1))
    BY <2>3, AtRead
  <2>5. DoneText[k + 1] = At(r + (k + 1) - 1)
    BY <1>1, <1>3, <2>3 DEF RingSeqs
  <2> QED
    BY <1>7, <2>2, <2>3, <2>4, <2>5 DEF At
<1> QED
  BY <1>4, <1>5, <1>7, <1>8, SeqEqual

\* Whether there is something to read, and what comes first.
LEMMA DoneHead ==
  ASSUME TypeOK, RingNotStuck
  PROVE  (DoneText = <<>> <=> r = w) /\ (r # w => Head(DoneText) = At(r) /\ At(r) \in Text)
<1>1. PICK a \in Nat : a = Uint(w - r) /\ (r = w <=> a = 0)
  BY Counts
<1>2. DoneText \in Seq(Text) /\ Len(DoneText) = a /\ \A k \in 1..a : DoneText[k] = At(r + k - 1)
  BY <1>1, SeqsAre DEF RingSeqs
<1>3. DoneText = <<>> <=> a = 0
  BY <1>2, EmptySeq
<1>4. ASSUME a # 0 PROVE Head(DoneText) = At(r) /\ At(r) \in Text
  <2>1. Head(DoneText) = DoneText[1] /\ 1 \in 1..a
    BY <1>2, <1>3, <1>4
  <2>2. r + 1 - 1 = r
    BY DEF TypeOK
  <2>3. DoneText[1] = At(r) /\ DoneText[1] \in Text
    BY <1>2, <2>1, <2>2, ElementOfSeq
  <2> QED
    BY <2>1, <2>3
<1> QED
  BY <1>1, <1>3, <1>4

\* Nothing typed, nothing read.
LEMMA RingSame ==
  ASSUME UNCHANGED ring
  PROVE  DoneText' = DoneText /\ LineText' = LineText
<1> QED
  BY DEF ring, DoneText, LineText, Between, At, Uint

\* Sleeping and waking do not change what a reader asks for.
LEMMA WantSame ==
  ASSUME UNCHANGED <<n, dst>>, \A p \in Readers : pc'[p] = "out" <=> pc[p] = "out"
  PROVE  Want' = Want
<1> QED
  BY DEF Want

\* Characters typed, not committed or committed, are characters the discipline gets.
LEMMA DisciplineType ==
  ASSUME IInv, IInv', NEW key \in Keys, input_char(key)
  PROVE  Discipline!Next
<1>1. PICK c \in Text : c = IF key = "cr" THEN "nl" ELSE key
  BY DEF Keys, Text
<1>2. TypeOK /\ RingNotStuck /\ TypeOK' /\ RingNotStuck'
  BY DEF IInv
<1>3. /\ Room /\ buf' = [buf EXCEPT ![e % INPUT_BUF] = c]
      /\ r' = r /\ e' = Uint(e + 1) /\ UNCHANGED <<n, dst>>
  BY <1>1 DEF input_char
<1>4. /\ Commits(c, Uint(e + 1)) => w' = e' /\ pc' = Woken
      /\ ~Commits(c, Uint(e + 1)) => w' = w /\ pc' = pc
  BY <1>1 DEF input_char
<1>5. \A p \in Readers : pc'[p] = "out" <=> pc[p] = "out"
  BY <1>4 DEF Woken
<1>6. Want' = Want
  BY <1>3, <1>5, WantSame
<1>7. PICK d \in 0..INPUT_BUF : d = Used
  BY <1>2, Counts
<1>8. Len(DoneText) + Len(LineText) = d
  <2>1. PICK a \in Nat : a = Uint(w - r)
    BY <1>2, Counts
  <2>2. Len(DoneText) = a /\ Len(LineText) = d - a
    BY <1>2, <1>7, <2>1, SeqsAre DEF RingSeqs
  <2> QED
    BY <2>1, <2>2
<1>9. d < INPUT_BUF
  BY <1>3, <1>7 DEF Room
<1>10. Commits(c, Uint(e + 1)) <=> c \in {"nl", "^D"} \/ d + 1 = INPUT_BUF
  <2>1. Uint(e + 1) = Uint(r + INPUT_BUF) <=> d + 1 = INPUT_BUF
    BY <1>2, <1>3, <1>7, CountType
  <2> QED
    BY <2>1 DEF Commits
<1>11. CASE Commits(c, Uint(e + 1))
  <2>1. DoneText' = DoneText \o Append(LineText, c) /\ LineText' = <<>>
    BY <1>2, <1>3, <1>4, <1>11, TypeCommit
  <2>2. Discipline!Type(c)
    BY <1>3, <1>6, <1>8, <1>9, <1>10, <1>11, <2>1 DEF Discipline!Type, DoneText, LineText, Want
  <2> QED
    BY <2>2 DEF Discipline!Next
<1>12. CASE ~Commits(c, Uint(e + 1))
  <2>1. DoneText' = DoneText /\ LineText' = Append(LineText, c)
    BY <1>2, <1>3, <1>4, <1>12, TypeLine
  <2>2. Discipline!Type(c)
    BY <1>3, <1>6, <1>8, <1>9, <1>10, <1>12, <2>1 DEF Discipline!Type, DoneText, LineText, Want
  <2> QED
    BY <2>2 DEF Discipline!Next
<1> QED
  BY <1>11, <1>12

\* C('U') and backspace erase what the discipline lets them erase.
LEMMA DisciplineErase ==
  ASSUME IInv, IInv', kill_line \/ backspace
  PROVE  Discipline!Next \/ UNCHANGED Discipline!vars
<1>1. TypeOK /\ RingNotStuck /\ TypeOK' /\ RingNotStuck' /\ LineInv
  BY DEF IInv
<1>2. UNCHANGED <<buf, r, w, pc, n, dst>>
  BY DEF kill_line, backspace, reader
<1>3. Want' = Want
  BY <1>2, WantSame
<1>4. PICK u \in Nat : u = Used - Uint(w - r) /\ (e = w <=> u = 0)
  <2>1. PICK a \in Nat, d \in Nat : a = Uint(w - r) /\ d = Used /\ a <= d /\ (e = w <=> a = d)
    BY <1>1, Counts
  <2> QED
    BY <2>1
<1>5. PICK m \in 0..u : e' = Uint(e - m) /\ (m = u \/ (m = 1 /\ u # 0))
  <2>1. CASE kill_line
    BY <1>1, <1>4, <2>1, ErasesLine DEF kill_line
  <2>2. CASE backspace
    BY <1>4, <2>2 DEF backspace
  <2> QED
    BY <2>1, <2>2
<1>6. LineText \in Seq(Text) /\ Len(LineText) = u
  BY <1>1, <1>4, SeqsAre DEF RingSeqs
<1>7. DoneText' = DoneText /\ LineText' = SubSeq(LineText, 1, Len(LineText) - m)
  BY <1>1, <1>2, <1>4, <1>5, EraseLine
<1>8. m = u => LineText' = <<>>
  BY <1>6, <1>7
<1>9. CASE u = 0
  <2>1. LineText = <<>> /\ LineText' = <<>>
    BY <1>5, <1>6, <1>8, <1>9, EmptySeq
  <2> QED
    BY <1>2, <1>3, <1>7, <2>1 DEF Discipline!vars, DoneText, LineText, Want
<1>10. CASE u # 0
  <2>1. LineText # <<>>
    BY <1>6, <1>10, EmptySeq
  <2>2. LineText' \in {<<>>, SubSeq(LineText, 1, Len(LineText) - 1)}
    BY <1>5, <1>7, <1>8
  <2>3. Discipline!Erase
    BY <1>2, <1>3, <1>7, <2>1, <2>2 DEF Discipline!Erase, DoneText, LineText, Want
  <2> QED
    BY <2>3 DEF Discipline!Next
<1> QED
  BY <1>9, <1>10

\* What a reader in the loop asks for.
LEMMA Wanting ==
  ASSUME TypeOK, DstInv, LockInv, NEW p \in Readers
  PROVE  /\ pc[p] = "out" => Want[p] = 0
         /\ pc[p] # "out" => Want[p] = n[p] + Len(dst[p]) /\ Want[p] > 0 /\ n[p] \in Nat /\ n[p] >= 1
         /\ Len(dst[p]) \in Nat /\ dst[p] \in Seq(Text)
<1>1. dst[p] \in Seq(Text) /\ Len(dst[p]) \in Nat
  BY DEF DstInv
<1>2. n[p] \in 0..MaxRead /\ (pc[p] = "out" <=> n[p] = 0)
  BY DEF TypeOK, LockInv
<1>3. MaxRead \in Nat
  BY ConsoleAssumption
<1>4. Want[p] = IF pc[p] = "out" THEN 0 ELSE n[p] + Len(dst[p])
  BY DEF Want
<1> QED
  BY <1>1, <1>2, <1>3, <1>4

\* Leaving consoleread ends what the reader asks for.
LEMMA WantLeave ==
  ASSUME TypeOK, NEW p \in Readers, Leave(p), \A q \in Readers \ {p} : dst'[q] = dst[q]
  PROVE  Want' = [Want EXCEPT ![p] = 0]
<1>1. pc' = [pc EXCEPT ![p] = "out"] /\ n' = [n EXCEPT ![p] = 0]
  BY DEF Leave
<1>2. pc \in [Readers -> {"out", "loop", "sleep", "asleep", "ready"}] /\ n \in [Readers -> 0..MaxRead]
  BY DEF TypeOK
<1>3. \A q \in Readers : (IF pc'[q] = "out" THEN 0 ELSE n'[q] + Len(dst'[q]))
                         = IF q = p THEN 0 ELSE Want[q]
  BY <1>1, <1>2 DEF Want
<1> QED
  BY <1>3 DEF Want

\* consoleread starts a read.
LEMMA DisciplineRead ==
  ASSUME IInv, NEW p \in Readers, NEW k \in 1..MaxRead, consoleread(p, k)
  PROVE  Discipline!Next
<1>1. TypeOK /\ DstInv /\ LockInv
  BY DEF IInv
<1>2. /\ UNCHANGED ring /\ pc[p] = "out" /\ pc' = [pc EXCEPT ![p] = "loop"]
      /\ n' = [n EXCEPT ![p] = k] /\ dst' = [dst EXCEPT ![p] = <<>>]
  BY DEF consoleread
<1>3. DoneText' = DoneText /\ LineText' = LineText
  BY <1>2, RingSame
<1>4. Want[p] = 0
  BY <1>1, <1>2, Wanting
<1>5. Want' = [Want EXCEPT ![p] = k]
  <2>1. \A q \in Readers : (IF pc'[q] = "out" THEN 0 ELSE n'[q] + Len(dst'[q]))
                           = IF q = p THEN k ELSE Want[q]
    <3> SUFFICES ASSUME NEW q \in Readers
                 PROVE  (IF pc'[q] = "out" THEN 0 ELSE n'[q] + Len(dst'[q])) = IF q = p THEN k ELSE Want[q]
      OBVIOUS
    <3>1. CASE q = p
      <4>1. pc'[q] = "loop" /\ n'[q] = k /\ dst'[q] = <<>>
        BY <1>1, <1>2, <3>1 DEF TypeOK, DstInv
      <4>2. n'[q] + Len(dst'[q]) = k
        BY <4>1
      <4> QED
        BY <3>1, <4>1, <4>2
    <3>2. CASE q # p
      BY <1>1, <1>2, <3>2 DEF TypeOK, DstInv, Want
    <3> QED
      BY <3>1, <3>2
  <2> QED
    BY <2>1 DEF Want
<1>6. Discipline!Read(p)
  BY <1>2, <1>3, <1>4, <1>5 DEF Discipline!Read, DoneText, LineText, Want
<1> QED
  BY <1>6 DEF Discipline!Next

\* A byte read is the first one finished, and ends the read when the discipline says so.
LEMMA DisciplineTake ==
  ASSUME IInv, IInv', NEW p \in Readers, read_byte(p)
  PROVE  Discipline!Next
<1>1. TypeOK /\ DstInv /\ LockInv /\ RingNotStuck /\ TypeOK' /\ RingNotStuck'
  BY DEF IInv
<1>2. /\ UNCHANGED <<buf, w, e>> /\ r # w /\ r' = Uint(r + 1) /\ pc[p] = "loop" /\ At(r) # "^D"
      /\ dst' = [dst EXCEPT ![p] = Append(@, At(r))]
  BY DEF read_byte
<1>3. DoneText' = Tail(DoneText) /\ LineText' = LineText
  BY <1>1, <1>2, ReadLine
<1>4. DoneText # <<>> /\ Head(DoneText) = At(r) /\ At(r) \in Text
  BY <1>1, <1>2, DoneHead
<1>5. /\ Want[p] = n[p] + Len(dst[p]) /\ Want[p] > 0 /\ n[p] \in Nat /\ n[p] >= 1
      /\ Len(dst[p]) \in Nat /\ dst[p] \in Seq(Text)
  BY <1>1, <1>2, Wanting
<1>6. Done(p, At(r)) <=> At(r) = "nl" \/ Len(dst[p]) + 1 = Want[p]
  BY <1>5 DEF Done
<1>7. Want' = [Want EXCEPT ![p] = IF Done(p, At(r)) THEN 0 ELSE @]
  <2>1. \A q \in Readers \ {p} : dst'[q] = dst[q]
    BY <1>1, <1>2 DEF DstInv
  <2>2. CASE Done(p, At(r))
    <3>1. Leave(p)
      BY <2>2 DEF read_byte
    <3> QED
      BY <1>1, <2>1, <2>2, <3>1, WantLeave
  <2>3. CASE ~Done(p, At(r))
    <3>1. n' = [n EXCEPT ![p] = @ - 1] /\ pc' = pc
      BY <2>3 DEF read_byte
    <3>2. n'[p] = n[p] - 1 /\ dst'[p] = Append(dst[p], At(r))
      BY <1>1, <1>2, <3>1 DEF TypeOK, DstInv
    <3>3. Len(dst'[p]) = Len(dst[p]) + 1
      BY <1>4, <1>5, <3>2, AppendProperties
    <3>4. n'[p] + Len(dst'[p]) = n[p] + Len(dst[p])
      <4>1. PICK a \in Nat, l \in Nat : a = n[p] /\ l = Len(dst[p])
        BY <1>5
      <4>2. n'[p] = a - 1 /\ Len(dst'[p]) = l + 1
        BY <3>2, <3>3, <4>1
      <4>3. a - 1 + (l + 1) = a + l
        BY <4>1
      <4> QED
        BY <4>1, <4>2, <4>3
    <3>5. \A q \in Readers : (IF pc'[q] = "out" THEN 0 ELSE n'[q] + Len(dst'[q])) = Want[q]
      <4> SUFFICES ASSUME NEW q \in Readers
                   PROVE  (IF pc'[q] = "out" THEN 0 ELSE n'[q] + Len(dst'[q])) = Want[q]
        OBVIOUS
      <4>1. CASE q = p
        BY <1>2, <1>5, <3>1, <3>4, <4>1
      <4>2. CASE q # p
        BY <1>1, <2>1, <3>1, <4>2 DEF TypeOK, Want
      <4> QED
        BY <4>1, <4>2
    <3>6. Want' = Want
      BY <3>5 DEF Want
    <3>7. Want = [q \in Readers |-> Want[q]]
      BY DEF Want
    <3> QED
      BY <2>3, <3>6, <3>7
  <2> QED
    BY <2>2, <2>3
<1>8. Discipline!Take(p)
  <2>1. Want' = [Want EXCEPT ![p] = IF Head(DoneText) = "nl" \/ Len(dst[p]) + 1 = @ THEN 0 ELSE @]
    BY <1>4, <1>6, <1>7
  <2>2. dst' = [dst EXCEPT ![p] = Append(@, Head(DoneText))]
    BY <1>2, <1>4
  <2> QED
    BY <1>2, <1>3, <1>4, <1>5, <2>1, <2>2 DEF Discipline!Take, DoneText, LineText, Want
<1> QED
  BY <1>8 DEF Discipline!Next

\* An end of file ends the read; it stays for the next one if something was read.
LEMMA DisciplineEof ==
  ASSUME IInv, IInv', NEW p \in Readers, read_eof(p)
  PROVE  Discipline!Next
<1>1. TypeOK /\ DstInv /\ LockInv /\ RingNotStuck /\ TypeOK' /\ RingNotStuck'
  BY DEF IInv
<1>2. /\ UNCHANGED <<buf, w, e, dst>> /\ r # w /\ pc[p] = "loop" /\ At(r) = "^D" /\ Leave(p)
      /\ r' = IF dst[p] # <<>> THEN r ELSE Uint(r + 1)
  BY DEF read_eof
<1>3. DoneText' = (IF dst[p] = <<>> THEN Tail(DoneText) ELSE DoneText) /\ LineText' = LineText
  <2>1. CASE dst[p] = <<>>
    BY <1>1, <1>2, <2>1, ReadLine
  <2>2. CASE dst[p] # <<>>
    BY <1>2, <2>2, RingSame DEF ring
  <2> QED
    BY <2>1, <2>2
<1>4. DoneText # <<>> /\ Head(DoneText) = "^D"
  BY <1>1, <1>2, DoneHead
<1>5. Want[p] > 0
  BY <1>1, <1>2, Wanting
<1>6. Want' = [Want EXCEPT ![p] = 0]
  BY <1>1, <1>2, WantLeave
<1>7. Discipline!TakeEof(p)
  BY <1>2, <1>3, <1>4, <1>5, <1>6 DEF Discipline!TakeEof, DoneText, LineText, Want
<1> QED
  BY <1>7 DEF Discipline!Next

\* A killed reader gives up when there is nothing to read.
LEMMA DisciplineGiveUp ==
  ASSUME IInv, NEW p \in Readers, read_killed(p)
  PROVE  Discipline!Next
<1>1. TypeOK /\ DstInv /\ LockInv /\ RingNotStuck
  BY DEF IInv
<1>2. UNCHANGED <<ring, dst>> /\ r = w /\ pc[p] = "loop" /\ Leave(p)
  BY DEF read_killed
<1>3. DoneText' = DoneText /\ LineText' = LineText /\ DoneText = <<>>
  BY <1>1, <1>2, RingSame, DoneHead
<1>4. Want[p] > 0
  BY <1>1, <1>2, Wanting
<1>5. Want' = [Want EXCEPT ![p] = 0]
  BY <1>1, <1>2, WantLeave
<1>6. Discipline!GiveUp(p)
  BY <1>2, <1>3, <1>4, <1>5 DEF Discipline!GiveUp, DoneText, LineText, Want
<1> QED
  BY <1>6 DEF Discipline!Next

\* Every step of the console is a step of the line discipline, or none.
LEMMA DisciplineStep == IInv /\ IInv' /\ [Next]_vars => [Discipline!Next]_(Discipline!vars)
<1> SUFFICES ASSUME IInv, IInv', [Next]_vars PROVE Discipline!Next \/ UNCHANGED Discipline!vars
  OBVIOUS
<1>1. TypeOK
  BY DEF IInv
<1>2. ASSUME UNCHANGED <<ring, n, dst>>, \A p \in Readers : pc'[p] = "out" <=> pc[p] = "out"
      PROVE  UNCHANGED Discipline!vars
  <2>1. DoneText' = DoneText /\ LineText' = LineText /\ Want' = Want
    BY <1>2, RingSame, WantSame
  <2> QED
    BY <1>2, <2>1 DEF Discipline!vars, DoneText, LineText, Want
<1>3. ASSUME NEW c \in {"x", "nl"}, consolewrite(c) PROVE UNCHANGED Discipline!vars
  BY <1>2, <1>3 DEF consolewrite, reader
<1>4. ASSUME NEW p \in Readers, read_empty(p) \/ read_sleep(p) \/ read_woken(p) \/ kill(p) \/ exit(p)
      PROVE  UNCHANGED Discipline!vars
  <2>1. UNCHANGED <<ring, n, dst>>
    BY <1>4 DEF read_empty, read_sleep, read_woken, kill, exit, reader
  <2>2. \A q \in Readers : pc'[q] = "out" <=> pc[q] = "out"
    BY <1>1, <1>4 DEF TypeOK, read_empty, read_sleep, read_woken, kill, exit, reader
  <2> QED
    BY <1>2, <2>1, <2>2
<1>5. CASE UNCHANGED vars
  BY <1>2, <1>5 DEF vars, reader
<1> QED
  BY <1>3, <1>4, <1>5, DisciplineType, DisciplineErase, DisciplineRead, DisciplineTake,
     DisciplineEof, DisciplineGiveUp DEF Next

\* The ring starts empty and nobody reads.
LEMMA DisciplineStart == Init => Discipline!Init
<1> SUFFICES ASSUME Init PROVE Discipline!Init
  OBVIOUS
<1>1. r = 0 /\ w = 0 /\ e = 0 /\ pc = [p \in Readers |-> "out"] /\ dst = [p \in Readers |-> <<>>]
  BY DEF Init
<1>2. Uint(0 - 0) = 0
  BY ConsoleAssumption DEF Uint
<1>3. Between(r, w) = <<>> /\ Between(w, e) = <<>>
  BY <1>1, <1>2 DEF Between
<1>4. [p \in Readers |-> IF pc[p] = "out" THEN 0 ELSE n[p] + Len(dst[p])] = [p \in Readers |-> 0]
  BY <1>1
<1> QED
  BY <1>1, <1>3, <1>4 DEF Discipline!Init

(***************************************************************************)
(* The console implements the line discipline: for every ring size,        *)
(* counter width and number of readers, what was typed and not erased is   *)
(* read in order and once, a full ring ends the line, and an end of file   *)
(* ends one read (console.c:190-271).                                      *)
(***************************************************************************)
THEOREM ConsoleIsLineDiscipline == Spec => IsLineDiscipline
<1> QED
  BY Inductive, DisciplineStart, DisciplineStep, PTL DEF Spec, IsLineDiscipline, Discipline!Spec

=============================================================================
