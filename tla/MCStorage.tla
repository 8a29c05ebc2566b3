------------------------------ MODULE MCStorage ------------------------------
(* Instances of Storage for TLC: one core, a card of three blocks; the         *)
(* standard one erases two at a time, so that it cannot be trimmed whole.      *)
EXTENDS Storage

CONSTANTS core0, blank

MCEraseSize == [k \in Kinds |-> IF k = "V2" THEN 2 ELSE 1]
=============================================================================
