----------------------------- MODULE MCSpinlock -----------------------------
(* Spinlock with two CPUs, and plausible bugs of spinlock.c for it.         *)
EXTENDS Spinlock
=============================================================================
