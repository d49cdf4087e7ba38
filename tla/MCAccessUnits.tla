--------------------------- MODULE MCAccessUnits ---------------------------
(* AccessUnits with constants small enough for TLC.                        *)
EXTENDS AccessUnits
=============================================================================
