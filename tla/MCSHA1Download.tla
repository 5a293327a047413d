--------------------------- MODULE MCSHA1Download ---------------------------
(* Instances of SHA1Download for TLC.                                      *)
EXTENDS SHA1Download, TLC

CONSTANTS a, b, c, p1, p2

\* A table whose first and last chunk are equal.
Duplicated == (0 :> a) @@ (1 :> b) @@ (2 :> a)

\* Iterations are frequent: no time need pass between two of them.  When the machine
\* has slept, all that there is times out at once.
AnyStep == {0, 1, 3}

\* Nothing tells one peer from another.
PeerSymmetry == Permutations(Peers)
=============================================================================
