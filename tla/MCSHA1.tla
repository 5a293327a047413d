------------------------------- MODULE MCSHA1 -------------------------------
(* Instances of SHA1 for TLC.                                              *)
EXTENDS SHA1, TLC

CONSTANTS a, b, c, p1

Distinct == (0 :> a) @@ (1 :> b)
=============================================================================
