----------------------------- MODULE MCSampling -----------------------------
(* Instances of Sampling for TLC: a clock that wraps while the system runs,   *)
(* voltages below, on, between and above the two thresholds.                 *)
EXTENDS Sampling
=============================================================================
