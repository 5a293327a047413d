---------------------------- MODULE MCToxClient ----------------------------
(* Instances of ToxClient for TLC.                                         *)
EXTENDS ToxClient

CONSTANTS g1, g2, p1, p2, f1
=============================================================================
