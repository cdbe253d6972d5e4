--------------------------- MODULE MCLegacyStress ---------------------------
(***************************************************************************)
(* Values for the constants of LegacyStress when TLC checks it: more       *)
(* threads than workers.  Bytes have three values and the checksum wraps   *)
(* at four; a size_t wraps far above a packet's size.  What the packets    *)
(* promise is about values, not states, and evaluated once.                *)
(***************************************************************************)
EXTENDS LegacyStress

MCSends    == [c \in Clients |-> 3]
MCOpenings == {2}
MCAmounts  == {3}

ASSUME PacketsHold == RoundTrip /\ DamageNoticed
=============================================================================
