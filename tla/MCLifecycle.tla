---------------------------- MODULE MCLifecycle -----------------------------
(***************************************************************************)
(* Lifecycle as TLC checks it: the runs differ in the number of workers,   *)
(* of interrupts and of crashes, and in the fairness they assume.          *)
(***************************************************************************)
EXTENDS Lifecycle
=============================================================================
