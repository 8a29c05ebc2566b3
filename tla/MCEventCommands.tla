--------------------------- MODULE MCEventCommands ---------------------------
(* Instances of EventCommands for TLC.                                      *)
EXTENDS EventCommands

CONSTANTS core0, core1, other

=============================================================================
