--------------------------- MODULE LineDiscipline ---------------------------
(***************************************************************************)
(* What the console of xv6 promises its readers: typed characters can be   *)
(* edited until their line ends, at most Size characters wait, readers get *)
(* the finished ones in the order they were typed, each once.              *)
(***************************************************************************)
EXTENDS Naturals, Sequences

CONSTANTS Readers, Chars, NewLine, Eof, Size, MaxRead

VARIABLES
  done,  \* finished characters that nobody has read
  line,  \* characters that can still be edited
  want,  \* want[p]: how many characters p asks for, 0: it is not reading
  dst    \* dst[p]: what the read under way has got

vars == <<done, line, want, dst>>

Init ==
  /\ done = <<>> /\ line = <<>>
  /\ want = [p \in Readers |-> 0]
  /\ dst = [p \in Readers |-> <<>>]

\* A line ends with NewLine, with Eof, or when there is no room for more.
Type(c) ==
  /\ Len(done) + Len(line) < Size
  /\ IF c \in {NewLine, Eof} \/ Len(done) + Len(line) + 1 = Size
       THEN done' = done \o Append(line, c) /\ line' = <<>>
       ELSE line' = Append(line, c) /\ UNCHANGED done
  /\ UNCHANGED <<want, dst>>

Erase ==
  /\ line # <<>>
  /\ line' \in {<<>>, SubSeq(line, 1, Len(line) - 1)}
  /\ UNCHANGED <<done, want, dst>>

Read(p) ==
  /\ want[p] = 0
  /\ \E n \in 1..MaxRead : want' = [want EXCEPT ![p] = n]
  /\ dst' = [dst EXCEPT ![p] = <<>>]
  /\ UNCHANGED <<done, line>>

Take(p) ==
  /\ want[p] > 0 /\ done # <<>> /\ Head(done) # Eof
  /\ done' = Tail(done)
  /\ dst' = [dst EXCEPT ![p] = Append(@, Head(done))]
  /\ want' = [want EXCEPT ![p] = IF Head(done) = NewLine \/ Len(dst[p]) + 1 = @ THEN 0 ELSE @]
  /\ UNCHANGED line

\* Eof ends a read; it is used up by the read that gets nothing.
TakeEof(p) ==
  /\ want[p] > 0 /\ done # <<>> /\ Head(done) = Eof
  /\ done' = IF dst[p] = <<>> THEN Tail(done) ELSE done
  /\ want' = [want EXCEPT ![p] = 0]
  /\ UNCHANGED <<line, dst>>

\* A killed reader gives up when there is nothing to read.
GiveUp(p) ==
  /\ want[p] > 0 /\ done = <<>>
  /\ want' = [want EXCEPT ![p] = 0]
  /\ UNCHANGED <<done, line, dst>>

Next ==
  \/ \E c \in Chars : Type(c)
  \/ Erase
  \/ \E p \in Readers : Read(p) \/ Take(p) \/ TakeEof(p) \/ GiveUp(p)

Spec == Init /\ [][Next]_vars
=============================================================================
