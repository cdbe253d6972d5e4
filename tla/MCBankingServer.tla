-------------------------- MODULE MCBankingServer ---------------------------
(***************************************************************************)
(* Values for the constants of BankingServer when TLC checks it: an        *)
(* opening balance, and an amount it covers only after a deposit; one of   *)
(* the clients sends two packets.                                          *)
(***************************************************************************)
EXTENDS BankingServer, TLC

CONSTANTS c1, c2

MCSends    == (c1 :> 2) @@ (c2 :> 1)
MCOpenings == {2}
MCAmounts  == {3}
=============================================================================
