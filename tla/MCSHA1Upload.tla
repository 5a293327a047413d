---------------------------- MODULE MCSHA1Upload ----------------------------
(* Instances of SHA1Upload for TLC.                                        *)
EXTENDS SHA1Upload, TLC

CONSTANTS a, b, c, p1, p2

\* One chunk, or two different ones.
Single   == (0 :> a)
Distinct == (0 :> a) @@ (1 :> b)
=============================================================================
