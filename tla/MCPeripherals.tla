---------------------------- MODULE MCPeripherals ----------------------------
(* Instances of Peripherals for TLC: two times that differ in every field and  *)
(* use both digits, a battery that is there or not, a current that is small,    *)
(* over the limit of the mode, over a byte, or negative.                       *)
EXTENDS Peripherals

MCPowerOnTime ==
    [sec |-> 59, min |-> 48, hour |-> 23, mday |-> 31, mon |-> 11, year |-> 129, wday |-> 1]
MCTimes ==
    {[sec |-> 0, min |-> 5, hour |-> 9, mday |-> 1, mon |-> 0, year |-> 126, wday |-> 0]}
MCDraws == {512, -3}
=============================================================================
