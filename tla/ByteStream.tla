----------------------------- MODULE ByteStream -----------------------------
(***************************************************************************)
(* What a pipe promises its users: bytes come out in the order they went   *)
(* in, none lost, none invented, at most Capacity of them in flight; end   *)
(* of file is reported only when no byte is left and none can come; and    *)
(* nothing is read or written any more once both ends are closed.          *)
(***************************************************************************)
EXTENDS Naturals, Sequences

CONSTANTS Bytes, NoByte, Capacity

VARIABLES
  queue,  \* the bytes in flight
  got,    \* the byte the last read delivered
  wopen, ropen,
  eof     \* some reader was told that the stream has ended

streamVars == <<queue, got, wopen, ropen, eof>>

Open ==
  /\ queue = <<>> /\ got = NoByte
  /\ wopen = TRUE /\ ropen = TRUE /\ eof = FALSE

Send(b) ==
  /\ wopen /\ Len(queue) < Capacity
  /\ queue' = Append(queue, b)
  /\ UNCHANGED <<got, wopen, ropen, eof>>

Receive ==
  /\ ropen /\ queue # <<>>
  /\ got' = Head(queue)
  /\ queue' = Tail(queue)
  /\ UNCHANGED <<wopen, ropen, eof>>

EndOfFile ==
  /\ ropen /\ ~wopen /\ queue = <<>>
  /\ eof' = TRUE
  /\ UNCHANGED <<queue, got, wopen, ropen>>

CloseWrite ==
  /\ wopen
  /\ wopen' = FALSE
  /\ UNCHANGED <<queue, got, ropen, eof>>

CloseRead ==
  /\ ropen
  /\ ropen' = FALSE
  /\ UNCHANGED <<queue, got, wopen, eof>>

Reopen ==
  /\ ~wopen /\ ~ropen
  /\ queue' = <<>> /\ got' = NoByte
  /\ wopen' = TRUE /\ ropen' = TRUE /\ eof' = FALSE

StreamNext ==
  \/ \E b \in Bytes : Send(b)
  \/ Receive \/ EndOfFile \/ CloseWrite \/ CloseRead \/ Reopen

Stream == Open /\ [][StreamNext]_streamVars
=============================================================================
