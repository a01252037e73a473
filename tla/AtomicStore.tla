----------------------------- MODULE AtomicStore -----------------------------
(***************************************************************************)
(* What the log promises the file system: whatever a crash interrupts, the *)
(* disk holds the result of whole file system calls.  Calls run            *)
(* concurrently on the current state; at moments when none is active the   *)
(* current state may become the durable one; a crash falls back to it.     *)
(***************************************************************************)
EXTENDS Naturals

CONSTANTS Blocks, Values

VARIABLES
  durable,  \* the contents of every block after a crash and recovery
  current,  \* the contents file system calls see
  active    \* how many file system calls are between begin_op and end_op

storeVars == <<durable, current, active>>

StoreInit ==
  /\ durable \in [Blocks -> Values]
  /\ current = durable
  /\ active = 0

Begin == active' = active + 1 /\ UNCHANGED <<durable, current>>

Write(b, v) ==
  /\ active > 0
  /\ current' = [current EXCEPT ![b] = v]
  /\ UNCHANGED <<durable, active>>

End == active > 0 /\ active' = active - 1 /\ UNCHANGED <<durable, current>>

Commit ==
  /\ active = 0
  /\ durable' = current
  /\ UNCHANGED <<current, active>>

Fail ==
  /\ current' = durable
  /\ active' = 0
  /\ UNCHANGED durable

StoreNext ==
  \/ Begin \/ End \/ Commit \/ Fail
  \/ \E b \in Blocks, v \in Values : Write(b, v)

Store == StoreInit /\ [][StoreNext]_storeVars
=============================================================================
