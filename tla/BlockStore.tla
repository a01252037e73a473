----------------------------- MODULE BlockStore -----------------------------
(***************************************************************************)
(* What the buffer cache promises its users (the interface comment at the  *)
(* top of xv6_dregmod/src/bio.c): a block has one content; one process at  *)
(* a time has the block in use, and only that process changes it.          *)
(***************************************************************************)
CONSTANTS
  Blocks, Values,
  Procs, NoProc   \* users of the cache; "nobody"

VARIABLES
  content,        \* content[k]: what a process that has block k sees
  user            \* user[k]: the process that has block k, or NoProc

Init ==
  /\ content \in [Blocks -> Values]
  /\ user = [k \in Blocks |-> NoProc]

Get(p, k) ==
  /\ user[k] = NoProc
  /\ user' = [user EXCEPT ![k] = p]
  /\ UNCHANGED content

Change(p, k, v) ==
  /\ user[k] = p
  /\ content' = [content EXCEPT ![k] = v]
  /\ UNCHANGED user

Put(p, k) ==
  /\ user[k] = p
  /\ user' = [user EXCEPT ![k] = NoProc]
  /\ UNCHANGED content

Next == \E p \in Procs, k \in Blocks :
  Get(p, k) \/ Put(p, k) \/ \E v \in Values : Change(p, k, v)

Store == Init /\ [][Next]_<<content, user>>
=============================================================================
