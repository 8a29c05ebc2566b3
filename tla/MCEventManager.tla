--------------------------- MODULE MCEventManager ---------------------------
(* Instances of EventManager for TLC: core 0 alone, and both cores.         *)
EXTENDS EventManager

CONSTANTS core0, core1, other
=============================================================================
