---------------------------- MODULE MCKmsCapture ----------------------------
(* KmsCapture with constants small enough for TLC.                         *)
EXTENDS KmsCapture
=============================================================================
