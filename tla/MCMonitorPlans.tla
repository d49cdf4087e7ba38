--------------------------- MODULE MCMonitorPlans ---------------------------
(* MonitorPlans with constants small enough for TLC.                       *)
EXTENDS MonitorPlans
CONSTANTS s1, s2
MCSessions == {s1, s2}
=============================================================================
