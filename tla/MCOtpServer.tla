---------------------------- MODULE MCOtpServer -----------------------------
(***************************************************************************)
(* Values for the constants of OtpServer when TLC checks it.               *)
(***************************************************************************)
EXTENDS OtpServer, TLC

Symmetry == Permutations(Workers) \cup Permutations(Accounts) \cup Permutations(Codes)
=============================================================================
