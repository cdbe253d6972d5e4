---------------------------- MODULE MCAccountDB -----------------------------
(***************************************************************************)
(* Values for the constants of AccountDB when TLC checks it.               *)
(***************************************************************************)
EXTENDS AccountDB, TLC

\* One opening balance that is refused and one that covers both amounts.
MCOpenings == {-1, 2}
MCAmounts  == {-1, 1, 2}

\* A single opening balance, for three workers and for the amounts below.
MCOpeningsFew == {2}

\* An amount that a fresh account does not cover.
MCAmountsOver == {3}

\* What scanf("%lf") in banking_client.c also accepts: "nan" and "inf".
MCAmountsNaN  == {2, NaN}

Symmetry == Permutations(Workers) \cup Permutations(Ids)
=============================================================================
