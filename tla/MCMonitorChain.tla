---------------------------- MODULE MCMonitorChain ----------------------------
(* MonitorChain on small instances: c1 is locked at set-up, the others may be added. *)
EXTENDS MonitorChain

CONSTANTS c1, c2
=============================================================================
