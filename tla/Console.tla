------------------------------- MODULE Console -------------------------------
(***************************************************************************)
(* The console of xv6 (console.c): the ring of typed characters that the   *)
(* keyboard and serial interrupts fill and edit, the processes that read   *)
(* it, sleep and wakeup between them, kill, and the cursor of the screen.  *)
(*                                                                         *)
(* cons.lock is held by a reader between its steps; a character of an      *)
(* interrupt, and a byte of consolewrite, is one step under it.            *)
(***************************************************************************)
EXTENDS Integers, Sequences

CONSTANTS
  Readers, Nobody,  \* processes in consoleread; no process
  INPUT_BUF,        \* length of the ring
  MaxUint,          \* r, w and e count modulo this (2^32 in the code)
  MaxRead,          \* the largest n of a consoleread
  COLS, ROWS        \* of the screen: 80 and 24

ASSUME ConsoleAssumption ==
  /\ Nobody \notin Readers
  /\ INPUT_BUF \in Nat \ {0} /\ MaxUint \in Nat
  /\ MaxUint > INPUT_BUF /\ MaxUint % INPUT_BUF = 0
  /\ MaxRead \in Nat \ {0} /\ COLS \in Nat \ {0} /\ ROWS \in Nat \ {0}

VARIABLES
  buf, r, w, e,  \* struct input
  lock,          \* cons.lock: the reader that holds it
  pc, n, dst,    \* of each reader: where it is, bytes still asked for, bytes read
  killed,
  pos            \* the cursor, which the CRT controller keeps

ring   == <<buf, r, w, e>>
reader == <<lock, pc, n, dst>>
vars   == <<ring, reader, killed, pos>>

Text      == {"x", "nl", "^D"}        \* "nl" is '\n', "^D" is C('D')
Keys      == {"x", "cr", "nl", "^D"}
BACKSPACE == "BS"

Init ==
  /\ buf = [i \in 0..(INPUT_BUF - 1) |-> "x"]
  /\ r = 0 /\ w = 0 /\ e = 0
  /\ lock = Nobody
  /\ pc = [p \in Readers |-> "out"]
  /\ n = [p \in Readers |-> 0]
  /\ dst = [p \in Readers |-> <<>>]
  /\ killed = [p \in Readers |-> FALSE]
  /\ pos = 0

-----------------------------------------------------------------------------
(***************************************************************************)
(* Output                                                                  *)
(***************************************************************************)
\* The cursor after cgaputc(c): the last line of text scrolls up.
Moved_NoGuard(at, c) ==  \* mutant: no test of pos > 0
  CASE c = "nl"      -> at + COLS - (at % COLS)
    [] c = BACKSPACE -> at - 1
    [] OTHER         -> at + 1
Moved(at, c) ==
  CASE c = "nl"      -> at + COLS - (at % COLS)
    [] c = BACKSPACE -> IF at > 0 THEN at - 1 ELSE at
    [] OTHER         -> at + 1

cgaputc(at, c) ==
  IF Moved(at, c) \div COLS >= ROWS THEN Moved(at, c) - COLS ELSE Moved(at, c)

consolewrite(c) ==
  /\ lock = Nobody
  /\ pos' = cgaputc(pos, c)
  /\ UNCHANGED <<ring, reader, killed>>

-----------------------------------------------------------------------------
(***************************************************************************)
(* consoleintr.  C('P') lists the processes and c = 0 does nothing.        *)
(***************************************************************************)
Uint(i)  == i % MaxUint
Used     == Uint(e - r)            \* input.e - input.r
At(i)    == buf[i % INPUT_BUF]

\* wakeup(&input.r)
Woken == [p \in Readers |-> IF pc[p] = "asleep" THEN "ready" ELSE pc[p]]

\* C('U'): back to the start of the line.
Kept(k) == \* erasing stops after k characters of e - w
  k = Uint(e - w) \/ At(Uint(e - k - 1)) = "nl"
Erased == CHOOSE k \in 0..Uint(e - w) : Kept(k) /\ \A j \in 0..(k - 1) : ~Kept(j)

kill_line ==
  /\ lock = Nobody
  /\ e' = Uint(e - Erased)
  /\ pos' = IF pos > Erased THEN pos - Erased ELSE 0  \* consputc(BACKSPACE) for each
  /\ UNCHANGED <<buf, r, w, reader, killed>>

backspace ==
  /\ lock = Nobody /\ e # w
  /\ e' = Uint(e - 1)
  /\ pos' = cgaputc(pos, BACKSPACE)
  /\ UNCHANGED <<buf, r, w, reader, killed>>

Room == Used < INPUT_BUF

\* The character makes the line, up to the edit index i, readable.
Commits_AtEnd(c, i) == c = "nl" \/ c = "^D"  \* mutant: a full ring stays uncommitted
Commits(c, i) == c = "nl" \/ c = "^D" \/ i = Uint(r + INPUT_BUF)

input_char_NoWakeup(key) ==  \* mutant: wakeup(&input.r) is missing
  LET c == IF key = "cr" THEN "nl" ELSE key IN
  /\ lock = Nobody /\ Room
  /\ buf' = [buf EXCEPT ![e % INPUT_BUF] = c]
  /\ e' = Uint(e + 1)
  /\ w' = IF Commits(c, Uint(e + 1)) THEN Uint(e + 1) ELSE w
  /\ pos' = cgaputc(pos, c)
  /\ UNCHANGED <<r, reader, killed>>

input_char(key) ==
  LET c == IF key = "cr" THEN "nl" ELSE key IN
  /\ lock = Nobody /\ Room
  /\ buf' = [buf EXCEPT ![e % INPUT_BUF] = c]
  /\ e' = Uint(e + 1)
  /\ IF Commits(c, Uint(e + 1))
       THEN w' = Uint(e + 1) /\ pc' = Woken
       ELSE UNCHANGED <<w, pc>>
  /\ pos' = cgaputc(pos, c)
  /\ UNCHANGED <<r, lock, n, dst, killed>>

-----------------------------------------------------------------------------
(***************************************************************************)
(* consoleread, with the lock except where it sleeps                       *)
(***************************************************************************)
consoleread(p, k) ==
  /\ pc[p] = "out" /\ lock = Nobody /\ ~killed[p]
  /\ lock' = p
  /\ pc' = [pc EXCEPT ![p] = "loop"]
  /\ n' = [n EXCEPT ![p] = k]
  /\ dst' = [dst EXCEPT ![p] = <<>>]
  /\ UNCHANGED <<ring, killed, pos>>

Leave(p) == lock' = Nobody /\ pc' = [pc EXCEPT ![p] = "out"] /\ n' = [n EXCEPT ![p] = 0]

\* The loop ends after c.
Done(p, c) == c = "nl" \/ n[p] = 1

read_byte(p) ==
  LET c == At(r) IN
  /\ pc[p] = "loop" /\ r # w /\ c # "^D"
  /\ r' = Uint(r + 1)
  /\ dst' = [dst EXCEPT ![p] = Append(@, c)]
  /\ IF Done(p, c) THEN Leave(p)
                   ELSE n' = [n EXCEPT ![p] = @ - 1] /\ UNCHANGED <<lock, pc>>
  /\ UNCHANGED <<buf, w, e, killed, pos>>

read_eof_Eaten(p) ==  \* mutant: ^D is never saved for the next read
  /\ pc[p] = "loop" /\ r # w /\ At(r) = "^D"
  /\ r' = Uint(r + 1)
  /\ Leave(p)
  /\ UNCHANGED <<buf, w, e, dst, killed, pos>>

read_eof(p) ==
  /\ pc[p] = "loop" /\ r # w /\ At(r) = "^D"
  /\ r' = IF dst[p] # <<>> THEN r ELSE Uint(r + 1)
  /\ Leave(p)
  /\ UNCHANGED <<buf, w, e, dst, killed, pos>>

read_killed(p) ==
  /\ pc[p] = "loop" /\ r = w /\ killed[p]
  /\ Leave(p)
  /\ UNCHANGED <<ring, dst, killed, pos>>

\* killed is tested ...
read_empty(p) ==
  /\ pc[p] = "loop" /\ r = w /\ ~killed[p]
  /\ pc' = [pc EXCEPT ![p] = "sleep"]
  /\ UNCHANGED <<ring, lock, n, dst, killed, pos>>

\* ... before sleep(&input.r, &cons.lock).
read_sleep(p) ==
  /\ pc[p] = "sleep"
  /\ pc' = [pc EXCEPT ![p] = "asleep"] /\ lock' = Nobody
  /\ UNCHANGED <<ring, n, dst, killed, pos>>

read_woken(p) ==
  /\ pc[p] = "ready" /\ lock = Nobody
  /\ lock' = p
  /\ pc' = [pc EXCEPT ![p] = "loop"]
  /\ UNCHANGED <<ring, n, dst, killed, pos>>

\* kill of proc.c wakes the process if it sleeps.
kill(p) ==
  /\ ~killed[p]
  /\ killed' = [killed EXCEPT ![p] = TRUE]
  /\ pc' = [pc EXCEPT ![p] = IF @ = "asleep" THEN "ready" ELSE @]
  /\ UNCHANGED <<ring, lock, n, dst, pos>>

\* A killed process exits when it returns to user space; another takes its place.
exit(p) ==
  /\ killed[p] /\ pc[p] = "out"
  /\ killed' = [killed EXCEPT ![p] = FALSE]
  /\ UNCHANGED <<ring, reader, pos>>

Next ==
  \/ \E c \in {"x", "nl"} : consolewrite(c)
  \/ kill_line \/ backspace
  \/ \E key \in Keys : input_char(key)
  \/ \E p \in Readers :
       \/ \E k \in 1..MaxRead : consoleread(p, k)
       \/ read_byte(p) \/ read_eof(p) \/ read_killed(p)
       \/ read_empty(p) \/ read_sleep(p) \/ read_woken(p)
       \/ kill(p) \/ exit(p)

Spec == Init /\ [][Next]_vars

-----------------------------------------------------------------------------
\* Every variable has its type; no read returns more than it asked for.
TypeOK ==
  /\ buf \in [0..(INPUT_BUF - 1) -> Text]
  /\ {r, w, e} \subseteq 0..(MaxUint - 1)
  /\ lock \in Readers \cup {Nobody}
  /\ pc \in [Readers -> {"out", "loop", "sleep", "asleep", "ready"}]
  /\ n \in [Readers -> 0..MaxRead]
  /\ \A p \in Readers : dst[p] \in Seq(Text) /\ Len(dst[p]) + n[p] <= MaxRead
  /\ killed \in [Readers -> BOOLEAN]
  /\ pos \in Int

\* The three indexes stay in order around the ring, across the wrap of the
\* counters, and a ring with no room left can be read: typing never ends in a
\* state in which characters are dropped and readers sleep.
RingNotStuck ==
  /\ Uint(w - r) <= Used /\ Used <= INPUT_BUF
  /\ Used = INPUT_BUF => w = e

\* A reader sleeps in consoleread only while there is nothing to read: no
\* wakeup of consoleintr is lost between its test of r and w and its sleep
\* (console.c:221, 245-251).  This is about r = w only.  A kill that comes after
\* the test of killed (console.c:246) is lost: the reader sleeps until somebody
\* types a line.
NoLostWakeup == \A p \in Readers : pc[p] \in {"sleep", "asleep"} => r = w

\* Between characters the cursor is on the screen, so cgaputc neither panics
\* nor writes outside the memory of the screen.
CursorOnScreen == pos \in 0..(ROWS * COLS - 1)

(***************************************************************************)
(* The characters from index i to index j of the ring.                     *)
(***************************************************************************)
Between(i, j) == [k \in 1..Uint(j - i) |-> At(Uint(i + k - 1))]

\* n counts down: a reader asked for what it has got and what it still wants.
Discipline == INSTANCE LineDiscipline WITH
  Readers <- Readers, Chars <- Text, NewLine <- "nl", Eof <- "^D", Size <- INPUT_BUF,
  MaxRead <- MaxRead, done <- Between(r, w), line <- Between(w, e), dst <- dst,
  want <- [p \in Readers |-> IF pc[p] = "out" THEN 0 ELSE n[p] + Len(dst[p])]

\* The ring, its editing and consoleread implement the line discipline:
\* readers get what was typed, in order and once, whatever the editing, the
\* wrap of the indexes, several readers and kill.
IsLineDiscipline == Discipline!Spec
=============================================================================
