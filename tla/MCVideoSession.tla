--------------------------- MODULE MCVideoSession ---------------------------
(* VideoSession with constants small enough for TLC.                       *)
EXTENDS VideoSession
=============================================================================
