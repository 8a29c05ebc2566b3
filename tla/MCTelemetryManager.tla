-------------------------- MODULE MCTelemetryManager --------------------------
(* Instances of TelemetryManager for TLC.                                   *)
EXTENDS TelemetryManager
=============================================================================
