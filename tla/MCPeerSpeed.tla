---------------------------- MODULE MCPeerSpeed ----------------------------
(* Instances of PeerSpeed for TLC.                                         *)
EXTENDS PeerSpeed

CONSTANTS p1, p2
=============================================================================
