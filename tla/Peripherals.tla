---------------------------- MODULE Peripherals ----------------------------
(***************************************************************************)
(* The devices on the I2C buses, the mutexes around them and the two cores   *)
(* that use them: core 0 boots, launches core 1 and then serves commands,    *)
(* core 1 collects telemetry; both log events, which are stamped by the      *)
(* clock.  The clock and the power monitor share the main bus, each under a  *)
(* mutex of its own; the sensors have the other bus and no mutex.           *)
(*                                                                         *)
(* What a core does is an operation, made of I2C calls.  Two calls on one    *)
(* bus at the same time spoil each other: the SDK's i2c functions set up the *)
(* controller anew at every call, and what then comes back may be anything. *)
(***************************************************************************)
EXTENDS I2cDevices

CONSTANTS
    core0, core1, Nobody,
    PowerOnTime,  \* the time of a clock nobody has set, struct tm
    Times,        \* the times it may be set to
    Offsets,      \* timezone offsets
    Volts, Draws, \* what the monitor measures: battery in 8 mV, drawn current
    Warmth,       \* the chip's temperature, in quarters of a degree
    MaxFaults, MaxRounds, MaxCommands \* bounds of the model

ASSUME PeripheralsAssumption ==
    /\ core0 # core1 /\ Nobody \notin {core0, core1}
    /\ Volts \subseteq 0 .. 4095 /\ Draws \subseteq (-4096) .. 4095 /\ Warmth \in (-512) .. 511
    /\ MaxFaults \in Nat /\ MaxRounds \in Nat /\ MaxCommands \in Nat

\* The chip's two digits of the year are those of this century; command 3.0 lets pass
\* what lies between March 2025 and the first day of 2030.
ASSUME TimeAssumption ==
    \A tm \in Times \cup {PowerOnTime} :
        /\ tm.sec \in 0 .. 59 /\ tm.min \in 0 .. 59 /\ tm.hour \in 0 .. 23
        /\ tm.mday \in 1 .. 31 /\ tm.mon \in 0 .. 11 /\ tm.year \in 100 .. 199

VARIABLES
    owner,       \* of each mutex
    pc, todo,    \* of each core: where it is, the operations it still has to do
    op, calls,   \* of each core: its operation, and the I2C calls left of it
    got, bad,    \* of each core: what was read, and whether a call has failed
    wire,        \* cores inside an I2C call on the main bus
    mixed, seen, \* ghosts, of each core: its call met another; the clock's times meanwhile
    pointer,     \* register each chip would send next
    rtc, conf, light, env, \* DS3231, INA3221, BH1750 and BME280
    now,         \* ghost: the time the clock was given
    level,       \* what the monitor measures
    offset,      \* timezone_offset_minutes_
    initialized, \* PowerManager::initialized_
    power,       \* the last values measured
    envReady, calibrated, \* BME280::initialized_ and calib_params
    t_fine,      \* the round whose temperature it is from, or -1: of no measurement
    mode, launched,
    faults, bootFaults, rounds, commands

Cores == {core0, core1}
Locks == {"event", "clock", "power", "uart"}

locals == <<pc, todo, op, calls, got, bad, mixed, seen>>
chips == <<pointer, rtc, now, conf, light, env>>
drivers == <<offset, initialized, power, envReady, calibrated, t_fine, mode, launched>>
counters == <<faults, bootFaults, rounds, commands>>
vars == <<owner, locals, wire, chips, level, drivers, counters>>

-----------------------------------------------------------------------------
(* Operations.                                                             *)

Op(do, dev, list) == [do |-> do, dev |-> dev, calls |-> list]

\* A register is read by a call that writes its number, without a stop, and a second
\* one; it is written by one.
Read(reg) == <<[call |-> "select", reg |-> reg], [call |-> "get", reg |-> reg]>>
Write(reg) == <<[call |-> "put", reg |-> reg]>>

LogEvent == Op("log", "DS3231", Read("time"))
GetTime == Op("time", "DS3231", Read("time"))
ReadTemperature == Op("temp", "DS3231", Read("temp"))
SetTime(tm) == [do |-> "set", dev |-> "DS3231", calls |-> Write("time"), data |-> tm]
SetTimezoneOffset(o) == [do |-> "zone", dev |-> "none", calls |-> <<>>, data |-> o]

\* INA3221::begin, PowerManager::configure and its getters.
Initialize == Op("ids", "INA3221", Read("MANUF_ID") \o Read("DIE_ID"))
Configure == Op("conf", "INA3221", Read("CONF") \o Write("CONF") \o Read("CONF") \o Write("CONF"))
Measure(reg) == Op("power", "INA3221", Read(reg))
DefineMode == Op("mode", "none", <<>>)

\* BH1750::configure and begin; the wrapper configures it when it is made, and init
\* begins it.
LightConfigure == Write("CONTINUOUS")
LightBegin == Write("POWER_ON") \o Write("RESET") \o LightConfigure
LightInit == Op("none", "BH1750", LightConfigure \o LightBegin)

EnvConfigure == Write("CTRL_HUM") \o Write("CONFIG") \o Write("CTRL_MEAS")
EnvCalibration == Read("CALIB") \o Read("HUM_CALIB")
EnvInit == Op("env", "BME280", Read("ID") \o EnvConfigure \o EnvCalibration)

\* read_raw_all names the first of eight data registers by a write of two bytes.
Sense(type) == Op(type, "BME280", Write("PRESSURE_MSB") \o <<[call |-> "get", reg |-> "PRESSURE_MSB"]>>)
Light == Op("light", "BH1750", <<[call |-> "get", reg |-> "light"]>>)

\* Mutant: the pressure first, with the temperature of the round before.
SensorReads_PressureFirst == <<Sense("pressure"), Sense("temperature"), Sense("humidity"), Light>>

SensorReads == <<Sense("temperature"), Sense("pressure"), Sense("humidity"), Light>>

\* The power of the GPS, the radio and the boot are events.
InitHw == <<LogEvent>>
InitModules == <<LogEvent, LightInit, EnvInit>>
Boot ==
    InitHw \o InitModules
    \o <<LogEvent, Initialize, Configure, Measure("CH1_BUSV"), Measure("CH2_SHUNTV"), DefineMode>>

\* A round of core 1: of the five power values the two that the mode is decided by;
\* POWER events are logged on the way.
Collections ==
    { <<GetTime, Measure("CH1_BUSV"), Measure("CH2_SHUNTV"), LogEvent>> \o SensorReads }

Commands ==
    {<<GetTime>>, <<ReadTemperature>>, <<LogEvent>>}
    \cup { <<SetTime(tm), LogEvent, GetTime>> : tm \in Times }
    \cup { <<SetTimezoneOffset(o)>> : o \in Offsets }

Idle == [c \in Cores |-> <<>>]

Init ==
    /\ owner = [l \in Locks |-> Nobody]
    /\ pc = [c \in Cores |-> "next"]
    /\ todo = [c \in Cores |-> IF c = core0 THEN Boot ELSE <<>>]
    /\ op = [c \in Cores |-> DefineMode] /\ calls = Idle /\ got = Idle
    /\ bad = [c \in Cores |-> FALSE] /\ mixed = [c \in Cores |-> FALSE]
    /\ seen = [c \in Cores |-> {}]
    /\ wire = {}
    /\ pointer = [DS3231 |-> "time", INA3221 |-> "CONF", BME280 |-> "ID"]
    /\ rtc = TimeRegisters(PowerOnTime) /\ now = Known(PowerOnTime)
    /\ conf = <<"continuous", 1>> /\ light = "down" /\ env = "sleep"
    /\ level \in [volt : Volts, draw : Draws]
    /\ offset = 60 /\ initialized = FALSE /\ power = [volt |-> 0, draw |-> 0]
    /\ envReady = FALSE /\ calibrated = FALSE /\ t_fine = 0
    /\ mode = "none" /\ launched = FALSE
    /\ faults = 0 /\ bootFaults = 0 /\ rounds = 0 /\ commands = 0

-----------------------------------------------------------------------------
(* What the cores are given to do.                                         *)

At(c, label) == pc[c] = label
Go(c, label) == pc' = [pc EXCEPT ![c] = label]

\* multicore_launch_core1, once the mode is known.
Launch ==
    /\ ~launched /\ At(core0, "next") /\ todo[core0] = <<>>
    /\ launched' = TRUE /\ bootFaults' = faults
    /\ todo' = [todo EXCEPT ![core1] = <<LogEvent>>]
    /\ UNCHANGED <<owner, pc, op, calls, got, bad, mixed, seen, wire, chips, level, offset,
                   initialized, power, envReady, calibrated, t_fine, mode, faults, rounds, commands>>

Round == \E list \in Collections :
    /\ launched /\ At(core1, "next") /\ todo[core1] = <<>> /\ rounds < MaxRounds
    /\ rounds' = rounds + 1
    /\ todo' = [todo EXCEPT ![core1] = list]
    /\ UNCHANGED <<owner, pc, op, calls, got, bad, mixed, seen, wire, chips, level, drivers,
                   faults, bootFaults, commands>>

Command == \E list \in Commands :
    /\ launched /\ At(core0, "next") /\ todo[core0] = <<>> /\ commands < MaxCommands
    /\ commands' = commands + 1
    /\ todo' = [todo EXCEPT ![core0] = list]
    /\ UNCHANGED <<owner, pc, op, calls, got, bad, mixed, seen, wire, chips, level, drivers,
                   faults, bootFaults, rounds>>

\* A sensor that loses its supply for a moment is asleep again, and nobody asks.
EnvResets ==
    /\ launched /\ env = "normal" /\ faults < MaxFaults
    /\ faults' = faults + 1 /\ env' = "sleep"
    /\ UNCHANGED <<owner, locals, wire, pointer, rtc, now, conf, light, level, drivers,
                   bootFaults, rounds, commands>>

-----------------------------------------------------------------------------
(* One operation of core c: the mutexes, the calls, the messages.          *)

OnMain(c) == op[c].dev \in {"DS3231", "INA3221"}
Mutex(c) == IF op[c].dev = "DS3231" THEN "clock" ELSE "power"

\* A driver that is not initialised, when the operation begins, makes no call at all.
Refused(o) ==
    \/ o.do \in {"power", "conf"} /\ ~initialized'
    \/ o.do \in {"temperature", "pressure", "humidity"} /\ ~envReady'

First(o) ==
    IF o.do = "log" THEN "event"
    ELSE IF Refused(o) \/ o.calls = <<>> THEN "done"
    ELSE IF o.dev \in {"DS3231", "INA3221"} THEN "lock" ELSE "call"

\* Core c turns to the operations in list.
Begin(c, list) ==
    IF list = <<>>
    THEN /\ op' = [op EXCEPT ![c] = DefineMode] /\ todo' = [todo EXCEPT ![c] = <<>>]
         /\ bad' = [bad EXCEPT ![c] = FALSE] /\ seen' = [seen EXCEPT ![c] = {}]
         /\ Go(c, "next") /\ UNCHANGED calls
    ELSE LET o == Head(list) IN
         /\ op' = [op EXCEPT ![c] = o] /\ todo' = [todo EXCEPT ![c] = Tail(list)]
         /\ calls' = [calls EXCEPT ![c] = IF Refused(o) THEN <<>> ELSE o.calls]
         /\ bad' = [bad EXCEPT ![c] = Refused(o)] /\ seen' = [seen EXCEPT ![c] = {now}]
         /\ Go(c, First(o))

Start(c) ==
    /\ At(c, "next") /\ todo[c] # <<>>
    /\ UNCHANGED <<owner, got, mixed, wire, chips, level, drivers, counters>>
    /\ Begin(c, todo[c])

Take(l, c) == owner' = [owner EXCEPT ![l] = c]
Quiet == UNCHANGED <<todo, op, calls, got, bad, mixed, seen, wire, chips, level, drivers, counters>>

\* log_event holds eventMutex while it asks for the time.
LockEvent(c) == At(c, "event") /\ owner["event"] = Nobody /\ Take("event", c) /\ Go(c, "lock") /\ Quiet

DeviceFree(c) == owner[Mutex(c)] = Nobody

\* A core takes the mutex of the device and makes its calls under it.
Lock(c) == At(c, "lock") /\ DeviceFree(c) /\ Take(Mutex(c), c)
NextCall(c) == At(c, "call") /\ OnMain(c) /\ UNCHANGED owner

CallBegin(c) ==
    /\ Lock(c) \/ NextCall(c)
    /\ wire' = wire \cup {c}
    /\ mixed' = [d \in Cores |-> mixed[d] \/ (wire # {} /\ d \in wire')]
    /\ Go(c, "calling")
    /\ UNCHANGED <<todo, op, calls, got, bad, seen, chips, level, drivers, counters>>

\* What a chip sends: where it comes from, and the bytes or fields that matter (of
\* CONF the continuous mode and the averaging).
Value(reg, data) == [from |-> reg, data |-> data]
Nothing == Value("nothing", <<>>)
Garbage == Value("garbage", <<>>)

Contents(reg) ==
    CASE reg = "time" -> Value(reg, rtc)
      [] reg = "temp" -> Value(reg, HoldsQuarters(Warmth))
      [] reg = "CONF" -> Value(reg, conf)
      [] reg = "CH1_BUSV" -> Value(reg, <<HoldsChannel(level.volt)>>)
      [] reg = "CH2_SHUNTV" -> Value(reg, <<HoldsChannel(level.draw)>>)
      [] reg = "PRESSURE_MSB" -> IF env = "normal" THEN Value(reg, <<>>) ELSE Garbage
      [] reg = "light" -> IF light = "measuring" THEN Value(reg, <<>>) ELSE Garbage
      [] OTHER -> Value(reg, <<>>)

\* set_mode_continuous and set_averaging_mode change what they have read; when
\* that has failed, it is a variable nobody has set and may be anything.
Last(c) == got[c][Len(got[c])]
NewConf(c) ==
    LET read == IF Last(c).from = "CONF" THEN Last(c).data ELSE <<"any", "any">> IN
    IF Len(got[c]) = 1 THEN [read EXCEPT ![1] = "continuous"] ELSE [read EXCEPT ![2] = 16]

\* A call that works: a chip's register is selected, sent or set.
Done(c) ==
    LET call == Head(calls[c]) dev == op[c].dev IN
    /\ pointer' = IF call.call = "get" \/ dev = "BH1750" THEN pointer
                  ELSE [pointer EXCEPT ![dev] = call.reg]
    /\ IF call.call = "get"
         THEN \E v \in {Contents(IF dev = "BH1750" THEN "light" ELSE pointer[dev])} \cup (IF mixed[c] THEN {Garbage} ELSE {}) :
                  got' = [got EXCEPT ![c] = Append(@, v)]
         ELSE UNCHANGED got
    /\ IF call = [call |-> "put", reg |-> "time"]
         THEN /\ rtc' = TimeRegisters(op[c].data) /\ now' = Known(op[c].data)
              /\ seen' = [d \in Cores |-> IF At(d, "next") THEN {} ELSE seen[d] \cup {now'}]
         ELSE UNCHANGED <<rtc, now, seen>>
    /\ IF call = [call |-> "put", reg |-> "CONF"] THEN conf' = NewConf(c) ELSE UNCHANGED conf
    /\ light' = IF dev # "BH1750" \/ call.call = "get" THEN light
                ELSE IF call.reg = "CONTINUOUS" THEN "measuring"
                ELSE IF call.reg = "POWER_ON" THEN "on" ELSE light
    /\ env' = IF call.reg = "CTRL_MEAS" THEN "normal" ELSE env
    /\ calls' = [calls EXCEPT ![c] = Tail(@)]
    /\ UNCHANGED <<bad, faults>>

\* A call that fails.  The clock's functions and the BME280's return at once; a
\* register of the monitor is left at what it was; the BH1750's do not look.
Fails(c) ==
    LET call == Head(calls[c]) dev == op[c].dev IN
    /\ mixed[c] \/ faults < MaxFaults
    /\ faults' = IF mixed[c] THEN faults ELSE faults + 1
    /\ bad' = [bad EXCEPT ![c] = TRUE]
    /\ calls' = [calls EXCEPT ![c] =
                    IF dev \in {"DS3231", "BME280"} THEN <<>>
                    ELSE IF call.call = "select" THEN Tail(Tail(@)) ELSE Tail(@)]
    /\ got' = [got EXCEPT ![c] = IF call.call = "put" THEN @ ELSE Append(@, Nothing)]
    /\ UNCHANGED <<seen, chips>>

\* i2c_read_reg and i2c_write_reg report a failure, and begin always prints, while
\* they hold the mutex of the device; the others let it go after the last call.
Reports(c) == op[c].do = "ids" \/ (op[c].dev = "DS3231" /\ bad'[c])

\* On the sensors' bus a call meets no other and is one step.
CallEnd(c) ==
    /\ At(c, IF OnMain(c) THEN "calling" ELSE "call")
    /\ wire' = wire \ {c}
    /\ Done(c) \/ Fails(c)
    /\ Go(c, IF calls'[c] # <<>> THEN "call" ELSE IF OnMain(c) /\ Reports(c) THEN "inner" ELSE "done")
    /\ owner' = IF pc'[c] = "done" /\ OnMain(c) THEN [owner EXCEPT ![Mutex(c)] = Nobody] ELSE owner
    /\ UNCHANGED <<todo, op, mixed, level, drivers, bootFaults, rounds, commands>>

\* Mutant: a failed access to the clock is logged as an event where it happens.
PrintLock_Event(c) == IF At(c, "inner") THEN "event" ELSE "uart"

\* uart_print waits for the console's mutex.  One whose verbosity is too low returns
\* at once: the model prints everything.
PrintLock(c) == "uart"

Prints(c) == pc[c] \in {"inner", "outer", "announce"}

UartPrint(c) == Prints(c) /\ owner[PrintLock(c)] = Nobody /\ Take(PrintLock(c), c) /\ UNCHANGED pc /\ Quiet

\* The message is out.  Behind an inner one the mutex of the device goes too, and a
\* failed access to the clock is reported by the caller as well.
Printed(c) ==
    /\ Prints(c) /\ owner[PrintLock(c)] = c
    /\ owner' = [l \in Locks |-> IF l = PrintLock(c) \/ (At(c, "inner") /\ l = Mutex(c)) THEN Nobody ELSE owner[l]]
    /\ UNCHANGED <<got, mixed, wire, chips, level, drivers, counters>>
    /\ IF At(c, "announce") THEN Begin(c, todo[c])
       ELSE /\ Go(c, IF At(c, "inner") /\ op[c].dev = "DS3231" THEN "outer" ELSE "done")
            /\ UNCHANGED <<todo, op, calls, bad, seen>>

-----------------------------------------------------------------------------
(* What comes of an operation.                                             *)

\* get_local_time: the time and the offset, or -1.
Failed == [time |-> {}, offset |-> 0]
LocalTime(c) ==
    IF bad[c] THEN Failed
    ELSE IF Last(c).from = "time" THEN [time |-> {TimeOf(Last(c).data)}, offset |-> offset]
    ELSE [time |-> {"garbage"}, offset |-> offset]

Garbled == 9999

\* A getter of PowerManager: 0 when the monitor is not there or does not answer.
Reading(c) ==
    IF got[c] = <<>> \/ Last(c).from = "nothing" THEN 0
    ELSE CASE Last(c).from = "CH1_BUSV" -> Voltage(Last(c).data[1])
           [] Last(c).from = "CH2_SHUNTV" -> Current(Last(c).data[1])
           [] OTHER -> Garbled

Channel(c) == IF op[c].calls[1].reg = "CH1_BUSV" THEN "volt" ELSE "draw"

RawReal(c) == ~bad[c] /\ Last(c).from = "PRESSURE_MSB" /\ calibrated

\* The conversions of pressure and humidity need the calibration and t_fine: the round
\* whose temperature went into a value, or -1.
Compensation(c) == IF RawReal(c) THEN t_fine ELSE -1

BatteryThreshold == 2400
DischargeThreshold == 40

Returns(c) ==
    /\ power' = IF op[c].do = "power" THEN [power EXCEPT ![Channel(c)] = Reading(c)] ELSE power
    /\ initialized' = IF op[c].do = "ids" THEN [i \in 1 .. 2 |-> got[c][i].from] = <<"MANUF_ID", "DIE_ID">>
                                          ELSE initialized
    /\ envReady' = IF op[c].do = "env" THEN ~bad[c] ELSE envReady
    /\ calibrated' = IF op[c].do = "env" THEN ~bad[c] ELSE calibrated
    /\ t_fine' = IF op[c].do = "temperature" THEN IF RawReal(c) THEN rounds ELSE -1 ELSE t_fine
    /\ offset' = IF op[c].do = "zone" /\ op[c].data \in (-720) .. 720 THEN op[c].data ELSE offset
    /\ mode' = IF op[c].do # "mode" THEN mode
               ELSE IF power.volt < BatteryThreshold /\ Uint8(power.draw) < DischargeThreshold
               THEN "USB" ELSE "BATTERY"

\* The operation ends.  A log_event lets eventMutex go and prints the event; a
\* time that could not be set ends the command.
Finish(c) ==
    /\ At(c, "done")
    /\ Returns(c)
    /\ owner' = IF op[c].do = "log" THEN [owner EXCEPT !["event"] = Nobody] ELSE owner
    /\ IF op[c].do = "log" THEN Go(c, "announce") /\ UNCHANGED <<todo, op, calls, bad, seen>>
       ELSE Begin(c, IF op[c].do = "set" /\ bad[c] THEN <<>> ELSE todo[c])
    /\ got' = [got EXCEPT ![c] = <<>>] /\ mixed' = [mixed EXCEPT ![c] = FALSE]
    /\ UNCHANGED <<wire, chips, level, launched, counters>>

CoreStep(c) ==
    \/ Start(c) \/ LockEvent(c) \/ CallBegin(c) \/ CallEnd(c) \/ UartPrint(c) \/ Printed(c) \/ Finish(c)

Over ==
    /\ launched /\ rounds = MaxRounds /\ commands = MaxCommands
    /\ \A c \in Cores : At(c, "next") /\ todo[c] = <<>>
    /\ UNCHANGED vars

Next == Launch \/ Round \/ Command \/ EnvResets \/ (\E c \in Cores : CoreStep(c)) \/ Over

Spec == Init /\ [][Next]_vars
FairSpec == Spec /\ \A c \in Cores : WF_vars(CoreStep(c))

-----------------------------------------------------------------------------
(* Properties.                                                             *)

\* A time that was read, for an event, a record or a command, is one the clock had
\* while it was read, and never another register's bytes; a failed access is told by
\* the -1.  (Calls that met on the bus are excused: nothing keeps them apart.)
StampsHonest ==
    \A c \in Cores :
        At(c, "done") /\ op[c].do \in {"log", "time"} /\ ~mixed[c] =>
            IF bad[c] THEN LocalTime(c) = Failed
            ELSE LocalTime(c).time # {} /\ LocalTime(c).time \subseteq seen[c]

\* A shunt voltage of k steps of 5 uV over 10 mOhm, in whole milliamps.
Milliamps(k) == k \div 2

\* A value of the power monitor is what its channel holds, or 0 when a call failed; but
\* a current that flows the other way is not told as that (the driver loses the sign,
\* whatever INA3221.cpp:162 and 194 say), only as more than any current of the register's
\* range, so that it is not taken for one; the chip's temperature is right; pressure and
\* humidity are compensated by the temperature of the same round, unless that or they
\* could not be read; and a satellite on its battery whose boot met no failure has
\* found that out.
ReadingsHonest ==
    /\ \A c \in Cores : At(c, "done") /\ ~mixed[c] =>
        /\ op[c].do = "power" =>
              /\ bad[c] => Reading(c) = 0
              /\ ~bad[c] /\ Channel(c) = "volt" => Reading(c) = 8 * level.volt
              /\ ~bad[c] /\ Channel(c) = "draw" =>
                    IF level.draw >= 0 THEN Reading(c) = Milliamps(level.draw)
                    ELSE Reading(c) > Milliamps(4095)
        /\ op[c].do = "temp" /\ ~bad[c] =>
              Last(c).from = "temp" /\ Quarters(Last(c).data) = Warmth
        /\ op[c].do \in {"pressure", "humidity"} => Compensation(c) \in {rounds, -1}
    /\ launched /\ bootFaults = 0 /\ 8 * level.volt >= BatteryThreshold => mode = "BATTERY"

\* No mutexes wait for each other: every operation ends.
OperationsEnd == \A c \in Cores : pc[c] # "next" ~> pc[c] = "next"
=============================================================================
