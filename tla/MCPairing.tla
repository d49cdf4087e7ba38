------------------------------ MODULE MCPairing ------------------------------
(* Pairing with constants small enough for TLC.                              *)
EXTENDS Pairing
=============================================================================
