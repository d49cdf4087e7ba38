--------------------------- MODULE MCPeerSession ---------------------------
(* PeerSession with constants small enough for TLC.                        *)
EXTENDS PeerSession
=============================================================================
