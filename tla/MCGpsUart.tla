------------------------------ MODULE MCGpsUart ------------------------------
(* Instances of GpsUart for TLC.  The exit sequence overlaps itself, like     *)
(* ##EXIT##.                                                                *)
EXTENDS GpsUart

MCExit == <<"#", "E", "#">>
=============================================================================
