------------------------- MODULE MCReceiveStartSHA1 -------------------------
(* Instances of ReceiveStartSHA1 for TLC.                                  *)
EXTENDS ReceiveStartSHA1

CONSTANTS p1, p2
=============================================================================
