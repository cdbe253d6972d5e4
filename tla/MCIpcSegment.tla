---------------------------- MODULE MCIpcSegment ----------------------------
(***************************************************************************)
(* Values for the constants of IpcSegment when TLC checks it: two starts   *)
(* on one port and one on another.                                         *)
(***************************************************************************)
EXTENDS IpcSegment, TLC

CONSTANTS s1, s2, s3, p1, p2

MCPortOf == (s1 :> p1) @@ (s2 :> p1) @@ (s3 :> p2)
Symmetry == Permutations({s1, s2})
=============================================================================
