----------------------------- MODULE PowerEvents -----------------------------
(***************************************************************************)
(* TelemetryManager::emit_power_events: the POWER events that one sample of *)
(* the power monitor gives rise to.  The ground station sees nothing but    *)
(* the events; `seen' is what it has been told.  Voltages and currents are  *)
(* integers; only their order matters.                                      *)
(***************************************************************************)
EXTENDS Integers

CONSTANTS
    Volts,            \* battery voltages
    Milliamps,        \* currents: USB, solar, drawn
    CurrentThreshold, \* USB_CURRENT_THRESHOLD and SOLAR_CURRENT_THRESHOLD
    Low, Full         \* BATTERY_LOW_THRESHOLD, BATTERY_FULL_THRESHOLD

ASSUME UnitAssumption == Volts \subseteq Int /\ Milliamps \subseteq Int
ASSUME ThresholdAssumption ==
    CurrentThreshold \in Int /\ Low \in Int /\ Full \in Int /\ Low < Full

VARIABLES
    usb, solar,       \* usb_charging_active, solar_charging_active
    low, full,        \* battery_low, battery_full
    charging,         \* discharge_active: TRUE while the battery charges
    sampled, sample,  \* whether there was a call yet, and the last one's arguments
    emitted,          \* the event of each topic that it emitted, or "none"
    seen, before      \* ghosts: last event of each topic, now and before it

flags == <<usb, solar, low, full, charging>>
powerVars == <<flags, sampled, sample, emitted, seen, before>>

Topics == {"usb", "solar", "battery", "charge"}
Samples == [battery : Volts, usb : Milliamps, solar : Milliamps, draw : Milliamps]
Nothing == [usb |-> "none", solar |-> "none", battery |-> "none", charge |-> "none"]

PowerInit ==
    /\ usb = FALSE /\ solar = FALSE /\ low = FALSE /\ full = FALSE
    /\ charging = TRUE
    /\ sampled = FALSE /\ sample \in Samples
    /\ emitted = Nothing /\ seen = Nothing /\ before = Nothing

-----------------------------------------------------------------------------
\* A two-valued topic: the event that goes with a change of its flag.
Above(x, level, flag, on, off) ==
    IF x > level /\ ~flag THEN on ELSE IF x < level /\ flag THEN off ELSE "none"

UsbEvent(s) == Above(s.usb, CurrentThreshold, usb, "USB_CONNECTED", "USB_DISCONNECTED")
SolarEvent(s) == Above(s.solar, CurrentThreshold, solar, "SOLAR_ACTIVE", "SOLAR_INACTIVE")
ChargeEvent(s) == Above(s.solar + s.usb, s.draw, charging, "CHARGING", "DISCHARGING")

\* The four branches of the battery's voltage; each is tried after the ones before.
ToLow(s) == s.battery < Low /\ ~low

\* Mutant: BATTERY_FULL whether or not it was full.
ToFull_NoFlag(s) == ~ToLow(s) /\ s.battery > Full
ToFull(s) == ~ToLow(s) /\ s.battery > Full /\ ~full

LeaveLow(s) == ~ToFull(s) /\ s.battery > Low /\ low

\* Mutant: a full battery that sinks is not reported.
LeaveFull_Never(s) == FALSE
LeaveFull(s) == ~ToLow(s) /\ ~LeaveLow(s) /\ s.battery < Full /\ full

BatteryEvent(s) ==
    CASE ToLow(s) -> "BATTERY_LOW"
      [] ToFull(s) -> "BATTERY_FULL"
      [] LeaveLow(s) \/ LeaveFull(s) -> "BATTERY_NORMAL"
      [] OTHER -> "none"

LowAfter(s) == ToLow(s) \/ (low /\ ~ToFull(s) /\ ~LeaveLow(s))
FullAfter(s) == ToFull(s) \/ (full /\ ~ToLow(s) /\ ~LeaveFull(s))

Events(s) ==
    [usb |-> UsbEvent(s), solar |-> SolarEvent(s),
     battery |-> BatteryEvent(s), charge |-> ChargeEvent(s)]

\* The flag of a two-valued topic after its event.
Flag(old, event, on) == IF event = "none" THEN old ELSE event = on

EmitPowerEvents(s) ==
    LET e == Events(s) IN
    /\ sampled' = TRUE
    /\ sample' = s
    /\ emitted' = e
    /\ usb' = Flag(usb, e.usb, "USB_CONNECTED")
    /\ solar' = Flag(solar, e.solar, "SOLAR_ACTIVE")
    /\ low' = LowAfter(s)
    /\ full' = FullAfter(s)
    /\ charging' = Flag(charging, e.charge, "CHARGING")
    /\ before' = seen
    /\ seen' = [t \in Topics |-> IF e[t] = "none" THEN seen[t] ELSE e[t]]

PowerNext == \E s \in Samples : EmitPowerEvents(s)

PowerSpec == PowerInit /\ [][PowerNext]_powerVars

-----------------------------------------------------------------------------
TopicType ==
    [usb : {"none", "USB_CONNECTED", "USB_DISCONNECTED"},
     solar : {"none", "SOLAR_ACTIVE", "SOLAR_INACTIVE"},
     battery : {"none", "BATTERY_LOW", "BATTERY_NORMAL", "BATTERY_FULL"},
     charge : {"none", "CHARGING", "DISCHARGING"}]

PowerTypeOK ==
    /\ sampled \in BOOLEAN
    /\ flags \in BOOLEAN \X BOOLEAN \X BOOLEAN \X BOOLEAN \X BOOLEAN
    /\ ~(low /\ full)
    /\ sample \in Samples
    /\ emitted \in TopicType /\ seen \in TopicType /\ before \in TopicType

\* Who follows the events alone knows where the last sample was: no sequence of
\* samples, jumps over the middle band and values on a threshold included, leaves
\* the ground station with the wrong side of a threshold.  (A topic whose first
\* event is still to come is in its state at boot.)
EventsTellState ==
    sampled =>
    /\ sample.usb > CurrentThreshold => seen.usb = "USB_CONNECTED"
    /\ sample.usb < CurrentThreshold => seen.usb # "USB_CONNECTED"
    /\ sample.solar > CurrentThreshold => seen.solar = "SOLAR_ACTIVE"
    /\ sample.solar < CurrentThreshold => seen.solar # "SOLAR_ACTIVE"
    /\ sample.battery < Low => seen.battery = "BATTERY_LOW"
    /\ sample.battery > Full => seen.battery = "BATTERY_FULL"
    /\ Low < sample.battery /\ sample.battery < Full =>
           seen.battery \in {"none", "BATTERY_NORMAL"}
    /\ sample.solar + sample.usb > sample.draw => seen.charge # "DISCHARGING"
    /\ sample.solar + sample.usb < sample.draw => seen.charge = "DISCHARGING"

\* An event says that something has changed: no topic reports the same event
\* twice in a row, however long a condition lasts; each one is also a save to the
\* card (EventManager saves POWER events at once).
NoEventRepeated == \A t \in Topics : emitted[t] # "none" => emitted[t] # before[t]

PowerIInv ==
    /\ PowerTypeOK /\ EventsTellState /\ NoEventRepeated
    /\ usb <=> seen.usb = "USB_CONNECTED"
    /\ solar <=> seen.solar = "SOLAR_ACTIVE"
    /\ low <=> seen.battery = "BATTERY_LOW"
    /\ full <=> seen.battery = "BATTERY_FULL"
    /\ charging <=> seen.charge # "DISCHARGING"
=============================================================================
