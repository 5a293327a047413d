------------------------- MODULE MCSHA1DownloadLive -------------------------
(* Instances of SHA1DownloadLive for TLC.                                  *)
EXTENDS SHA1DownloadLive, TLC

CONSTANTS a, b, c, p1

TwoChunks == (0 :> a) @@ (1 :> b)

ThreeChunks == (0 :> a) @@ (1 :> b) @@ (2 :> c)
=============================================================================
