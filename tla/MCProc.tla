------------------------------- MODULE MCProc -------------------------------
(* Proc on small machines: the configurations choose the system calls.      *)
EXTENDS Proc
=============================================================================
