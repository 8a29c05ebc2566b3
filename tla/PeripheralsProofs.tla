-------------------------- MODULE PeripheralsProofs --------------------------
(***************************************************************************)
(* Theorems about Peripherals: what is read from a device under a mutex is    *)
(* what the device holds, for all times, levels, failures and interleavings   *)
(* of the two cores; and the mode is the right one after a boot without       *)
(* failures.                                                               *)
(***************************************************************************)
EXTENDS Peripherals, TLAPS

-----------------------------------------------------------------------------
(* What the drivers make of the registers.                                 *)

\* A BCD byte of the DS3231 gives back the number it was made of.
LEMMA DigitsReadBack == \A n \in 0 .. 99 : Binary(Bcd(n)) = n
  BY DEF Binary, Bcd

LEMMA MonthReadsBack == \A n \in 0 .. 11 : Month(Bcd(n + 1)) = n
  BY DEF Month, Binary, Bcd

\* What set_time writes, get_time reads.
LEMMA TimeReadsBack ==
    ASSUME NEW tm \in Times \cup {PowerOnTime}
    PROVE  TimeOf(TimeRegisters(tm)) = Known(tm)
<1>1. /\ tm.sec \in 0 .. 59 /\ tm.min \in 0 .. 59 /\ tm.hour \in 0 .. 23
      /\ tm.mday \in 1 .. 31 /\ tm.mon \in 0 .. 11 /\ tm.year \in 100 .. 199
  BY TimeAssumption
<1>2. PICK r : r = TimeRegisters(tm)
  OBVIOUS
<1>3. /\ r[1] = Bcd(tm.sec) /\ r[2] = Bcd(tm.min) /\ r[3] = Bcd(tm.hour)
      /\ r[5] = Bcd(tm.mday) /\ r[6] = Bcd(tm.mon + 1) /\ r[7] = Bcd(tm.year - 100)
  BY <1>2 DEF TimeRegisters
<1>4. PICK t : t = TimeOf(r)
  OBVIOUS
<1>5. /\ Binary(r[1]) = tm.sec /\ Binary(r[2]) = tm.min /\ Binary(r[3]) = tm.hour
      /\ Binary(r[5]) = tm.mday /\ Month(r[6]) = tm.mon /\ Binary(r[7]) = tm.year - 100
  BY <1>1, <1>3, DigitsReadBack, MonthReadsBack
<1>6. t = [sec |-> tm.sec, min |-> tm.min, hour |-> tm.hour,
           mday |-> tm.mday, mon |-> tm.mon, year |-> tm.year]
  BY <1>1, <1>4, <1>5 DEF TimeOf
<1>7. t = Known(tm)
  <2>1. PICK k : k = Known(tm)
    OBVIOUS
  <2>2. k = [f \in Fields |-> tm[f]]
    BY <2>1 DEF Known
  <2>3. \A f \in Fields : t[f] = k[f]
    BY <1>6, <2>2 DEF Fields
  <2>4. t = [f \in Fields |-> t[f]]
    BY <1>6 DEF Fields
  <2> QED
    BY <2>1, <2>2, <2>3, <2>4
<1>8. TimeOf(r) = Known(tm)
  BY <1>4, <1>7
<1> QED
  BY <1>2, <1>8, Zenon

LEMMA QuartersReadBack == \A q \in (-512) .. 511 : Quarters(HoldsQuarters(q)) = q
  BY DEF Quarters, HoldsQuarters

-----------------------------------------------------------------------------
(* The operations, who does them, and which calls they are made of.          *)

BatteryVoltage == Measure("CH1_BUSV")
Draw == Measure("CH2_SHUNTV")
Temperature == Sense("temperature")
Conversions == {Sense("pressure"), Sense("humidity")}
NeedsMonitor == {Configure, BatteryVoltage, Draw}

BootOps ==
    {LogEvent, LightInit, EnvInit, Initialize, Configure, BatteryVoltage, Draw, DefineMode}
RoundOps == {LogEvent, GetTime, BatteryVoltage, Draw, Temperature, Light} \cup Conversions
CommandOps ==
    {LogEvent, GetTime, ReadTemperature}
    \cup {SetTime(tm) : tm \in Times} \cup {SetTimezoneOffset(o) : o \in Offsets}
Operations == BootOps \cup RoundOps \cup CommandOps

Registers ==
    {"temp", "CONF", "MANUF_ID", "DIE_ID", "CH1_BUSV", "CH2_SHUNTV", "CONTINUOUS", "POWER_ON",
     "RESET", "CTRL_HUM", "CONFIG", "CTRL_MEAS", "ID", "CALIB", "HUM_CALIB", "PRESSURE_MSB", "light"}
Others == [call : {"select", "get", "put"}, reg : Registers]
Accesses == [call : {"select", "get", "put"}, reg : Registers \cup {"time"}]

Main == {"DS3231", "INA3221"}
Chips == {"DS3231", "INA3221", "BME280"}

\* A register that is read, and the one of an operation that reads one.
Asks(o) == o.do \in {"log", "time", "temp", "power"}
Reg(o) == o.calls[1].reg

LEMMA Joined ==
    ASSUME NEW S, NEW s \in Seq(S), NEW t \in Seq(S), NEW r, r = s \o t
    PROVE  /\ r \in Seq(S) /\ Len(r) = Len(s) + Len(t)
           /\ \A i \in 1 .. Len(s) : r[i] = s[i]
           /\ \A i \in 1 .. Len(t) : r[Len(s) + i] = t[i]
  OBVIOUS

LEMMA ClockOps ==
    /\ LogEvent.do = "log" /\ LogEvent.dev = "DS3231" /\ LogEvent.calls = Read("time")
    /\ GetTime.do = "time" /\ GetTime.dev = "DS3231" /\ GetTime.calls = Read("time")
    /\ ReadTemperature.do = "temp" /\ ReadTemperature.dev = "DS3231"
    /\ ReadTemperature.calls = Read("temp")
    /\ \A tm : /\ SetTime(tm).do = "set" /\ SetTime(tm).dev = "DS3231"
               /\ SetTime(tm).calls = Write("time") /\ SetTime(tm).data = tm
    /\ \A o : /\ SetTimezoneOffset(o).do = "zone" /\ SetTimezoneOffset(o).dev = "none"
              /\ SetTimezoneOffset(o).calls = <<>>
  BY DEF LogEvent, GetTime, ReadTemperature, SetTime, SetTimezoneOffset, Op

LEMMA MonitorOps ==
    /\ Initialize.do = "ids" /\ Initialize.dev = "INA3221"
    /\ Initialize.calls = Read("MANUF_ID") \o Read("DIE_ID")
    /\ Configure.do = "conf" /\ Configure.dev = "INA3221"
    /\ Configure.calls = Read("CONF") \o Write("CONF") \o Read("CONF") \o Write("CONF")
    /\ BatteryVoltage.do = "power" /\ BatteryVoltage.dev = "INA3221"
    /\ BatteryVoltage.calls = Read("CH1_BUSV")
    /\ Draw.do = "power" /\ Draw.dev = "INA3221" /\ Draw.calls = Read("CH2_SHUNTV")
    /\ DefineMode.do = "mode" /\ DefineMode.dev = "none" /\ DefineMode.calls = <<>>
  BY DEF Initialize, Configure, BatteryVoltage, Draw, Measure, DefineMode, Op

LEMMA SensorOps ==
    /\ LightInit.do = "none" /\ LightInit.dev = "BH1750"
    /\ LightInit.calls = LightConfigure \o LightBegin
    /\ EnvInit.do = "env" /\ EnvInit.dev = "BME280"
    /\ EnvInit.calls = Read("ID") \o EnvConfigure \o EnvCalibration
    /\ Light.do = "light" /\ Light.dev = "BH1750"
    /\ Light.calls = <<[call |-> "get", reg |-> "light"]>>
    /\ \A type : /\ Sense(type).do = type /\ Sense(type).dev = "BME280"
                 /\ Sense(type).calls =
                      Write("PRESSURE_MSB") \o <<[call |-> "get", reg |-> "PRESSURE_MSB"]>>
  BY DEF LightInit, EnvInit, Light, Sense, Op

\* The four calls of begin.
LEMMA IdsCalls ==
    /\ Initialize.calls \in Seq(Others) /\ Len(Initialize.calls) = 4
    /\ Initialize.calls[1] = [call |-> "select", reg |-> "MANUF_ID"]
    /\ Initialize.calls[2] = [call |-> "get", reg |-> "MANUF_ID"]
    /\ Initialize.calls[3] = [call |-> "select", reg |-> "DIE_ID"]
    /\ Initialize.calls[4] = [call |-> "get", reg |-> "DIE_ID"]
<1>1. PICK r, s, l : r = Read("MANUF_ID") /\ s = Read("DIE_ID") /\ l = r \o s
  OBVIOUS
<1>2. /\ r \in Seq(Others) /\ s \in Seq(Others) /\ Len(r) = 2 /\ Len(s) = 2
      /\ r[1] = [call |-> "select", reg |-> "MANUF_ID"] /\ r[2] = [call |-> "get", reg |-> "MANUF_ID"]
      /\ s[1] = [call |-> "select", reg |-> "DIE_ID"] /\ s[2] = [call |-> "get", reg |-> "DIE_ID"]
  BY <1>1 DEF Read, Others, Registers
<1>3. /\ l \in Seq(Others) /\ Len(l) = Len(r) + Len(s)
      /\ \A i \in 1 .. Len(r) : l[i] = r[i]
      /\ \A i \in 1 .. Len(s) : l[Len(r) + i] = s[i]
  <2>1. r \in Seq(Others) /\ s \in Seq(Others)
    BY <1>2
  <2> QED
    BY <1>1, <2>1, Joined
<1>4. Len(l) = 4 /\ l[1] = r[1] /\ l[2] = r[2] /\ l[2 + 1] = s[1] /\ l[2 + 2] = s[2]
  BY <1>2, <1>3
<1>5. Initialize.calls = l
  BY <1>1, MonitorOps
<1> QED
  BY <1>2, <1>3, <1>4, <1>5

\* A call of another device never has to do with the clock's registers.
LEMMA CallLists ==
    /\ Initialize.calls \in Seq(Others) /\ Configure.calls \in Seq(Others)
    /\ Initialize.calls # <<>> /\ Configure.calls # <<>>
    /\ LightInit.calls \in Seq(Others) /\ EnvInit.calls \in Seq(Others)
    /\ Light.calls \in Seq(Others)
    /\ Sense("temperature").calls \in Seq(Others)
    /\ \A o \in Conversions : o.calls \in Seq(Others)
    /\ BatteryVoltage.calls \in Seq(Others) /\ Draw.calls \in Seq(Others)
<1>1. \A r \in Registers : Read(r) \in Seq(Others) /\ Write(r) \in Seq(Others)
  BY DEF Read, Write, Others
<1>2. /\ Read("MANUF_ID") \in Seq(Others) /\ Read("DIE_ID") \in Seq(Others)
      /\ Read("CONF") \in Seq(Others) /\ Write("CONF") \in Seq(Others)
      /\ Write("CONTINUOUS") \in Seq(Others) /\ Write("POWER_ON") \in Seq(Others)
      /\ Write("RESET") \in Seq(Others) /\ Write("CTRL_HUM") \in Seq(Others)
  BY <1>1 DEF Registers
<1>3. /\ Write("CONFIG") \in Seq(Others) /\ Write("CTRL_MEAS") \in Seq(Others)
      /\ Read("ID") \in Seq(Others) /\ Read("CALIB") \in Seq(Others)
      /\ Read("HUM_CALIB") \in Seq(Others) /\ Write("PRESSURE_MSB") \in Seq(Others)
      /\ Read("CH1_BUSV") \in Seq(Others) /\ Read("CH2_SHUNTV") \in Seq(Others)
  BY <1>1 DEF Registers
<1>4. /\ <<[call |-> "get", reg |-> "PRESSURE_MSB"]>> \in Seq(Others)
      /\ <<[call |-> "get", reg |-> "light"]>> \in Seq(Others)
  BY DEF Others, Registers
<1>5. Initialize.calls \in Seq(Others) /\ Configure.calls \in Seq(Others)
  BY <1>2, MonitorOps
<1>6. Initialize.calls # <<>> /\ Configure.calls # <<>>
  <2>1. PICK r, s : r = Read("MANUF_ID") /\ s = Read("DIE_ID")
    OBVIOUS
  <2>2. Len(r) = 2 /\ r \in Seq(Others) /\ s \in Seq(Others)
    BY <1>2, <2>1 DEF Read
  <2>3. Len(r \o s) >= 2
    BY <2>2
  <2>4. PICK p, q, u : p = Read("CONF") /\ q = Write("CONF") /\ u = p \o q
    OBVIOUS
  <2>5. Len(p) = 2 /\ p \in Seq(Others) /\ q \in Seq(Others) /\ u \in Seq(Others) /\ Len(u) >= 2
    BY <1>2, <2>4 DEF Read
  <2>6. Len(u \o p) >= 2 /\ u \o p \in Seq(Others)
    BY <2>5
  <2>7. Len((u \o p) \o q) >= 2
    BY <2>5, <2>6
  <2> QED
    BY <2>1, <2>3, <2>4, <2>7, MonitorOps
<1>7. LightConfigure \in Seq(Others) /\ LightBegin \in Seq(Others)
  BY <1>2 DEF LightConfigure, LightBegin
<1>8. EnvConfigure \in Seq(Others) /\ EnvCalibration \in Seq(Others)
  BY <1>2, <1>3 DEF EnvConfigure, EnvCalibration
<1>9. LightInit.calls \in Seq(Others) /\ EnvInit.calls \in Seq(Others)
  BY <1>3, <1>7, <1>8, SensorOps
<1>10. ASSUME NEW type PROVE Sense(type).calls \in Seq(Others)
  <2>1. PICK s, t : s = Write("PRESSURE_MSB") /\ t = <<[call |-> "get", reg |-> "PRESSURE_MSB"]>>
    OBVIOUS
  <2>2. s \o t \in Seq(Others)
    BY <1>3, <1>4, <2>1
  <2>3. Sense(type).calls = s \o t
    BY <2>1, SensorOps, Zenon
  <2> QED
    BY <2>2, <2>3
<1>11. \A o \in Conversions : o.calls \in Seq(Others)
  BY <1>10 DEF Conversions
<1>12. Light.calls \in Seq(Others) /\ BatteryVoltage.calls \in Seq(Others) /\ Draw.calls \in Seq(Others)
  BY <1>3, <1>4, SensorOps, MonitorOps
<1> QED
  BY <1>5, <1>6, <1>9, <1>10, <1>11, <1>12

LEMMA ReadIs ==
    ASSUME NEW reg
    PROVE  /\ Read(reg)[1] = [call |-> "select", reg |-> reg]
           /\ Read(reg)[2] = [call |-> "get", reg |-> reg]
           /\ Len(Read(reg)) = 2 /\ Read(reg) # <<>> /\ Write(reg) # <<>>
           /\ Head(Read(reg)) = [call |-> "select", reg |-> reg]
           /\ Tail(Read(reg)) = <<[call |-> "get", reg |-> reg]>>
           /\ Head(Tail(Read(reg))) = [call |-> "get", reg |-> reg]
           /\ Tail(Tail(Read(reg))) = <<>>
           /\ Head(Write(reg)) = [call |-> "put", reg |-> reg] /\ Tail(Write(reg)) = <<>>
<1>1. PICK s, g, p : /\ s = [call |-> "select", reg |-> reg] /\ g = [call |-> "get", reg |-> reg]
                     /\ p = [call |-> "put", reg |-> reg]
  OBVIOUS
<1>2. Read(reg) = <<s, g>> /\ Write(reg) = <<p>>
  BY <1>1 DEF Read, Write
<1>3. /\ Tail(<<s, g>>) = <<g>> /\ Tail(<<g>>) = <<>> /\ Tail(<<p>>) = <<>>
      /\ Head(<<s, g>>) = s /\ Head(<<g>>) = g /\ Head(<<p>>) = p
      /\ Len(<<s, g>>) = 2 /\ <<s, g>> # <<>> /\ <<p>> # <<>>
  OBVIOUS
<1> QED
  BY <1>1, <1>2, <1>3

\* No list of calls ends between the two of a read.
Complete(list) == \A i \in DOMAIN list : list[i].call = "select" => i + 1 \in DOMAIN list

LEMMA CompleteOnes ==
    /\ Complete(Initialize.calls) /\ Complete(Configure.calls)
    /\ Complete(BatteryVoltage.calls) /\ Complete(Draw.calls)
    /\ Complete(LightInit.calls) /\ Complete(Light.calls) /\ Complete(<<>>)
<1>1. ASSUME NEW s \in Seq(Others), NEW t \in Seq(Others), NEW r, r = s \o t,
             Complete(s), Complete(t)
      PROVE  Complete(r)
  <2>1. /\ r \in Seq(Others) /\ Len(r) = Len(s) + Len(t)
        /\ \A i \in 1 .. Len(s) : r[i] = s[i]
        /\ \A i \in 1 .. Len(t) : r[Len(s) + i] = t[i]
    BY <1>1, Joined
  <2>2. SUFFICES ASSUME NEW i \in DOMAIN r, r[i].call = "select" PROVE i + 1 \in DOMAIN r
    BY DEF Complete
  <2>3. CASE i =< Len(s)
    <3>1. i \in DOMAIN s /\ s[i].call = "select"
      BY <2>1, <2>2, <2>3
    <3>2. i + 1 \in DOMAIN s
      BY <1>1, <3>1 DEF Complete
    <3> QED
      BY <2>1, <3>2
  <2>4. CASE i > Len(s)
    <3>1. PICK j : j = i - Len(s)
      OBVIOUS
    <3>2. j \in DOMAIN t /\ Len(s) + j = i
      BY <2>1, <2>4, <3>1
    <3>3. t[j].call = "select"
      BY <2>1, <2>2, <3>2
    <3>4. j + 1 \in DOMAIN t
      BY <1>1, <3>2, <3>3 DEF Complete
    <3> QED
      BY <2>1, <3>2, <3>4
  <2> QED
    BY <2>1, <2>3, <2>4
<1>2. ASSUME NEW reg PROVE Complete(Read(reg)) /\ Complete(Write(reg))
  BY DEF Complete, Read, Write
<1>3. ASSUME NEW reg \in Registers PROVE Read(reg) \in Seq(Others) /\ Write(reg) \in Seq(Others)
  BY DEF Read, Write, Others
<1>4. ASSUME NEW s \in Seq(Others), NEW t \in Seq(Others), Complete(s), Complete(t)
      PROVE  s \o t \in Seq(Others) /\ Complete(s \o t)
  <2>1. PICK r : r = s \o t
    OBVIOUS
  <2>2. Complete(r)
    BY <1>1, <1>4, <2>1
  <2>3. r \in Seq(Others)
    BY <2>1
  <2> QED
    BY <2>1, <2>2, <2>3
<1>5. Complete(<<>>) /\ Complete(Light.calls)
  <2>1. Complete(<<>>)
    BY DEF Complete
  <2>2. PICK g : g = [call |-> "get", reg |-> "light"]
    OBVIOUS
  <2>3. Complete(<<g>>)
    BY <2>2 DEF Complete
  <2> QED
    BY <2>1, <2>2, <2>3, SensorOps
<1>6. Complete(BatteryVoltage.calls) /\ Complete(Draw.calls)
  BY <1>2, MonitorOps
<1>7. "MANUF_ID" \in Registers /\ "DIE_ID" \in Registers /\ "CONF" \in Registers
      /\ "CONTINUOUS" \in Registers /\ "POWER_ON" \in Registers /\ "RESET" \in Registers
  BY DEF Registers
<1>8. Complete(Initialize.calls)
  <2>1. PICK s, t : s = Read("MANUF_ID") /\ t = Read("DIE_ID")
    OBVIOUS
  <2>2. s \in Seq(Others) /\ t \in Seq(Others) /\ Complete(s) /\ Complete(t)
    BY <1>2, <1>3, <1>7, <2>1
  <2> QED
    BY <1>4, <2>1, <2>2, MonitorOps
<1>9. Complete(Configure.calls)
  <2>1. PICK s, t, u, v : s = Read("CONF") /\ t = Write("CONF") /\ u = s \o t /\ v = u \o s
    OBVIOUS
  <2>2. s \in Seq(Others) /\ t \in Seq(Others) /\ Complete(s) /\ Complete(t)
    BY <1>2, <1>3, <1>7, <2>1
  <2>3. u \in Seq(Others) /\ Complete(u)
    BY <1>4, <2>1, <2>2
  <2>4. v \in Seq(Others) /\ Complete(v)
    BY <1>4, <2>1, <2>2, <2>3
  <2>5. Complete(v \o t)
    BY <1>4, <2>2, <2>4
  <2> QED
    BY <2>1, <2>5, MonitorOps
<1>10. Complete(LightInit.calls)
  <2>1. PICK s, t, u, v : /\ s = Write("CONTINUOUS") /\ t = Write("POWER_ON") /\ u = Write("RESET")
                          /\ v = t \o u
    OBVIOUS
  <2>2. /\ s \in Seq(Others) /\ t \in Seq(Others) /\ u \in Seq(Others)
        /\ Complete(s) /\ Complete(t) /\ Complete(u)
    BY <1>2, <1>3, <1>7, <2>1
  <2>3. v \in Seq(Others) /\ Complete(v)
    BY <1>4, <2>1, <2>2
  <2>4. v \o s \in Seq(Others) /\ Complete(v \o s)
    BY <1>4, <2>2, <2>3
  <2>5. Complete(s \o (v \o s))
    BY <1>4, <2>2, <2>4
  <2>6. LightInit.calls = s \o (v \o s)
    BY <2>1, SensorOps DEF LightConfigure, LightBegin
  <2> QED
    BY <2>5, <2>6
<1> QED
  BY <1>5, <1>6, <1>8, <1>9, <1>10

\* Which operations of the clock and of the power monitor there are.
OpFits(o) ==
    /\ Asks(o) => o.calls = Read(Reg(o))
    /\ o.do \in {"log", "time"} => o.dev = "DS3231" /\ Reg(o) = "time"
    /\ o.do = "temp" => o.dev = "DS3231" /\ Reg(o) = "temp"
    /\ o.do = "power" => /\ o.dev = "INA3221" /\ o \in {BatteryVoltage, Draw}
                         /\ Reg(o) = (IF o = BatteryVoltage THEN "CH1_BUSV" ELSE "CH2_SHUNTV")
    /\ o.dev = "DS3231" =>
          o.do \in {"log", "time", "temp"} \/ (o.do = "set" /\ o.calls = Write("time") /\ o.data \in Times)
    /\ o.do = "set" => o.dev = "DS3231"
    /\ o.dev = "INA3221" => o \in {Initialize, Configure, BatteryVoltage, Draw}
    /\ o.dev # "DS3231" => o.calls \in Seq(Others)
    /\ o.dev \notin {"DS3231", "BME280"} => Complete(o.calls)
    /\ o.dev \in Main => o.calls # <<>>
    /\ o.dev \in Main \cup {"BH1750", "BME280", "none"}
    /\ o.do = "log" => o = LogEvent
    /\ o.do = "ids" => o = Initialize
    /\ o.do = "mode" => o = DefineMode
    /\ o.do = "conf" => o = Configure
    /\ o.do = "temperature" => o = Temperature
    /\ o.do \in {"pressure", "humidity"} => o \in Conversions

LEMMA ReadRegs ==
    /\ Reg(LogEvent) = "time" /\ Reg(GetTime) = "time" /\ Reg(ReadTemperature) = "temp"
    /\ Reg(BatteryVoltage) = "CH1_BUSV" /\ Reg(Draw) = "CH2_SHUNTV"
<1>1. ASSUME NEW o, NEW reg, o.calls = Read(reg) PROVE Reg(o) = reg
  <2>1. PICK x : x = [call |-> "select", reg |-> reg]
    OBVIOUS
  <2>2. Read(reg)[1] = x
    BY <2>1, ReadIs
  <2>3. o.calls[1] = x
    BY <1>1, <2>2, Zenon
  <2> QED
    BY <2>1, <2>3 DEF Reg
<1> QED
  BY <1>1, ClockOps, MonitorOps

LEMMA OpTable == \A o \in Operations : OpFits(o)
<1>1. OpFits(LogEvent)
  BY ClockOps, ReadIs, ReadRegs DEF OpFits, Asks, Main
<1>2. OpFits(GetTime)
  BY ClockOps, ReadIs, ReadRegs DEF OpFits, Asks, Main
<1>3. OpFits(ReadTemperature)
  BY ClockOps, ReadIs, ReadRegs DEF OpFits, Asks, Main
<1>4. ASSUME NEW tm \in Times PROVE OpFits(SetTime(tm))
  <2>1. PICK o : o = SetTime(tm)
    OBVIOUS
  <2>2. o.do = "set" /\ o.dev = "DS3231" /\ o.calls = Write("time") /\ o.data = tm
    BY <2>1, ClockOps
  <2>3. Write("time") # <<>>
    BY ReadIs
  <2>4. OpFits(o)
    BY <2>2, <2>3 DEF OpFits, Asks, Main
  <2> QED
    BY <2>1, <2>4
<1>5. ASSUME NEW o PROVE OpFits(SetTimezoneOffset(o))
  <2>1. <<>> \in Seq(Others)
    OBVIOUS
  <2> QED
    BY <2>1, ClockOps, CompleteOnes DEF OpFits, Asks, Main
<1>6. OpFits(Initialize)
  BY MonitorOps, CallLists, CompleteOnes DEF OpFits, Asks, Main
<1>7. OpFits(Configure)
  BY MonitorOps, CallLists, CompleteOnes DEF OpFits, Asks, Main
<1>8. OpFits(BatteryVoltage)
  BY MonitorOps, CallLists, CompleteOnes, ReadIs, ReadRegs DEF OpFits, Asks, Main
<1>9. OpFits(Draw)
  <2>1. Draw # BatteryVoltage
    BY ReadRegs
  <2> QED
    BY <2>1, MonitorOps, CallLists, CompleteOnes, ReadIs, ReadRegs DEF OpFits, Asks, Main
<1>10. OpFits(DefineMode)
  <2>1. <<>> \in Seq(Others)
    OBVIOUS
  <2> QED
    BY <2>1, MonitorOps, CompleteOnes DEF OpFits, Asks, Main
<1>11. OpFits(LightInit) /\ OpFits(EnvInit) /\ OpFits(Light)
  BY SensorOps, CallLists, CompleteOnes DEF OpFits, Asks, Main
<1>12. OpFits(Temperature)
  BY SensorOps, CallLists, CompleteOnes DEF OpFits, Asks, Main, Temperature
<1>13. ASSUME NEW o \in Conversions PROVE OpFits(o)
  <2>1. o.do \in {"pressure", "humidity"} /\ o.dev = "BME280" /\ o.calls \in Seq(Others)
    BY SensorOps, CallLists, CompleteOnes DEF Conversions
  <2> QED
    BY <2>1 DEF OpFits, Asks, Main
<1> QED
  BY <1>1, <1>2, <1>3, <1>4, <1>5, <1>6, <1>7, <1>8, <1>9, <1>10, <1>11, <1>12, <1>13
  DEF Operations, BootOps, RoundOps, CommandOps

-----------------------------------------------------------------------------
(* What a core still has to do.                                            *)

\* In a list of operations no member of D comes before the first e.
Led(list, D, e) == \A i \in DOMAIN list : list[i] \in D => \E j \in 1 .. (i - 1) : list[j] = e

LEMMA LedTail ==
    ASSUME NEW S, NEW list \in Seq(S), list # <<>>, NEW D, NEW e, Led(list, D, e)
    PROVE  /\ Head(list) \notin D
           /\ Head(list) = e \/ Led(Tail(list), D, e)
<1>1. Head(list) = list[1] /\ 1 \in DOMAIN list
  OBVIOUS
<1>2. Head(list) \notin D
  BY <1>1 DEF Led
<1>3. ASSUME Head(list) # e, NEW i \in DOMAIN Tail(list), Tail(list)[i] \in D
      PROVE  \E j \in 1 .. (i - 1) : Tail(list)[j] = e
  <2>1. i \in Nat /\ i >= 1 /\ i + 1 \in DOMAIN list /\ list[i + 1] = Tail(list)[i]
    OBVIOUS
  <2>2. PICK j \in 1 .. i : list[j] = e
    BY <1>3, <2>1 DEF Led
  <2>3. j # 1
    BY <1>1, <1>3, <2>2
  <2>4. j - 1 \in 1 .. (i - 1) /\ Tail(list)[j - 1] = list[j]
    BY <2>1, <2>2, <2>3
  <2> QED
    BY <2>2, <2>4
<1> QED
  BY <1>2, <1>3 DEF Led

LEMMA TailFrom ==
    ASSUME NEW S, NEW list \in Seq(S), list # <<>>
    PROVE  /\ Head(list) = list[1] /\ 1 \in DOMAIN list /\ Tail(list) \in Seq(S)
           /\ \A i \in DOMAIN Tail(list) : i + 1 \in DOMAIN list /\ Tail(list)[i] = list[i + 1]
           /\ \A i \in DOMAIN list : i = 1 \/ (i - 1 \in DOMAIN Tail(list) /\ Tail(list)[i - 1] = list[i])
  OBVIOUS

\* What the boot and the commands do not do.
LEMMA OnlyRounds == \A o \in BootOps \cup CommandOps : o \notin Conversions /\ o.do # "temperature"
<1>1. \A o \in Conversions : o.do \in {"pressure", "humidity"}
  BY SensorOps DEF Conversions
<1>2. \A o \in BootOps : o.do \in {"log", "none", "env", "ids", "conf", "power", "mode"}
  BY ClockOps, MonitorOps, SensorOps DEF BootOps
<1>3. ASSUME NEW o \in CommandOps PROVE o.do \in {"log", "time", "temp", "set", "zone"}
  BY ClockOps DEF CommandOps
<1> QED
  BY <1>1, <1>2, <1>3

\* The mode is decided in the boot only.
LEMMA OnlyBoot == \A o \in RoundOps \cup CommandOps : o.do # "mode"
<1>1. \A o \in Conversions : o.do \in {"pressure", "humidity"}
  BY SensorOps DEF Conversions
<1>2. \A o \in RoundOps \ Conversions : o.do \in {"log", "time", "power", "temperature", "light"}
  BY ClockOps, MonitorOps, SensorOps DEF RoundOps, Temperature
<1>3. ASSUME NEW o \in CommandOps PROVE o.do \in {"log", "time", "temp", "set", "zone"}
  BY ClockOps DEF CommandOps
<1> QED
  BY <1>1, <1>2, <1>3

\* The boot in one list.
LEMMA BootList ==
    /\ Boot \in Seq(BootOps) /\ Len(Boot) = 10
    /\ \A i \in 1 .. 6 : Boot[i] \in {LogEvent, LightInit, EnvInit, Initialize}
    /\ Boot[6] = Initialize /\ Boot[7] = Configure /\ Boot[8] = BatteryVoltage
    /\ Boot[9] = Draw /\ Boot[10] = DefineMode
<1>1. PICK a, b, c : /\ a = <<LogEvent>> /\ b = <<LogEvent, LightInit, EnvInit>>
                     /\ c = <<LogEvent, Initialize, Configure, BatteryVoltage, Draw, DefineMode>>
  OBVIOUS
<1>2. a \in Seq(BootOps) /\ b \in Seq(BootOps) /\ c \in Seq(BootOps)
  BY <1>1 DEF BootOps
<1>3. PICK ab : ab = a \o b
  OBVIOUS
<1>4. /\ ab \in Seq(BootOps) /\ Len(ab) = 4 /\ ab[1] = LogEvent /\ ab[2] = LogEvent
      /\ ab[3] = LightInit /\ ab[4] = EnvInit
  <2>1. /\ ab \in Seq(BootOps) /\ Len(ab) = Len(a) + Len(b)
        /\ \A i \in 1 .. Len(a) : ab[i] = a[i]
        /\ \A i \in 1 .. Len(b) : ab[Len(a) + i] = b[i]
    BY <1>2, <1>3, Joined
  <2> QED
    BY <1>1, <2>1
<1>5. PICK l : l = ab \o c
  OBVIOUS
<1>6. /\ l \in Seq(BootOps) /\ Len(l) = 4 + Len(c)
      /\ \A i \in 1 .. 4 : l[i] = ab[i]
      /\ \A i \in 1 .. Len(c) : l[4 + i] = c[i]
  <2>1. /\ l \in Seq(BootOps) /\ Len(l) = Len(ab) + Len(c)
        /\ \A i \in 1 .. Len(ab) : l[i] = ab[i]
        /\ \A i \in 1 .. Len(c) : l[Len(ab) + i] = c[i]
    <3>1. ab \in Seq(BootOps) /\ c \in Seq(BootOps)
      BY <1>2, <1>4
    <3> QED
      BY <1>5, <3>1, Joined
  <2> QED
    BY <1>4, <2>1
<1>7. Len(c) = 6
  BY <1>1
<1>8. /\ l[5] = LogEvent /\ l[6] = Initialize /\ l[7] = Configure
      /\ l[8] = BatteryVoltage /\ l[9] = Draw /\ l[10] = DefineMode
  BY <1>1, <1>6, <1>7
<1>9. \A i \in 1 .. 6 : l[i] \in {LogEvent, LightInit, EnvInit, Initialize}
  BY <1>4, <1>6, <1>8
<1>10. Boot = l
  BY <1>1, <1>3, <1>5 DEF Boot, InitHw, InitModules, BatteryVoltage, Draw
<1> QED
  BY <1>6, <1>7, <1>8, <1>9, <1>10

LEMMA BootOrder ==
    /\ Led(Boot, NeedsMonitor, Initialize)
    /\ Led(Boot, {DefineMode}, BatteryVoltage)
    /\ \E i \in DOMAIN Boot : Boot[i] = DefineMode
<1>1. \A o \in {LogEvent, LightInit, EnvInit, Initialize} : o \notin NeedsMonitor /\ o # DefineMode
  BY ClockOps, MonitorOps, SensorOps DEF NeedsMonitor
<1>2. DOMAIN Boot = 1 .. 10
  BY BootList
<1>3. Configure # DefineMode /\ BatteryVoltage # DefineMode /\ Draw # DefineMode
  BY MonitorOps
<1>4. \A i \in 1 .. 10 : Boot[i] \in NeedsMonitor => i > 6
  BY <1>1, BootList
<1>5. \A i \in 1 .. 10 : Boot[i] = DefineMode => i > 8
  <2>1. \A i \in 1 .. 6 : Boot[i] # DefineMode
    BY <1>1, BootList
  <2> QED
    BY <1>3, <2>1, BootList
<1> QED
  BY <1>2, <1>4, <1>5, BootList DEF Led

\* A round takes the temperature before the conversions that need it.
LEMMA RoundList ==
    ASSUME NEW list \in Collections
    PROVE  list \in Seq(RoundOps) /\ Led(list, Conversions, Temperature)
<1>1. PICK a, b : /\ a = <<GetTime, BatteryVoltage, Draw, LogEvent>>
                  /\ b = <<Temperature, Sense("pressure"), Sense("humidity"), Light>>
  OBVIOUS
<1>2. a \in Seq(RoundOps) /\ b \in Seq(RoundOps) /\ Len(a) = 4 /\ Len(b) = 4
  BY <1>1 DEF RoundOps, Conversions
<1>3. list = a \o b
  BY <1>1 DEF Collections, SensorReads, BatteryVoltage, Draw, Temperature
<1>4. /\ list \in Seq(RoundOps) /\ Len(list) = 8
      /\ \A i \in 1 .. 4 : list[i] = a[i]
      /\ \A i \in 1 .. 4 : list[4 + i] = b[i]
  <2>1. /\ list \in Seq(RoundOps) /\ Len(list) = Len(a) + Len(b)
        /\ \A i \in 1 .. Len(a) : list[i] = a[i]
        /\ \A i \in 1 .. Len(b) : list[Len(a) + i] = b[i]
    <3>1. a \in Seq(RoundOps) /\ b \in Seq(RoundOps)
      BY <1>2
    <3> QED
      BY <1>3, <3>1, Joined
  <2> QED
    BY <1>2, <2>1
<1>5. /\ list[5] = Temperature
      /\ \A i \in 1 .. 4 : list[i] \in {GetTime, BatteryVoltage, Draw, LogEvent}
  <2>1. \A i \in 1 .. 4 : a[i] \in {GetTime, BatteryVoltage, Draw, LogEvent}
    BY <1>1
  <2>2. list[4 + 1] = b[1]
    BY <1>4
  <2> QED
    BY <1>1, <1>4, <2>1, <2>2
<1>6. \A o \in {GetTime, BatteryVoltage, Draw, LogEvent, Temperature} : o \notin Conversions
  BY ClockOps, MonitorOps, SensorOps DEF Conversions, Temperature
<1>7. \A i \in 1 .. 8 : list[i] \in Conversions => i > 5
  BY <1>5, <1>6
<1> QED
  BY <1>4, <1>5, <1>7 DEF Led

LEMMA CommandList ==
    ASSUME NEW list \in Commands
    PROVE  list \in Seq(CommandOps)
<1>1. /\ GetTime \in CommandOps /\ ReadTemperature \in CommandOps /\ LogEvent \in CommandOps
      /\ \A tm \in Times : SetTime(tm) \in CommandOps
      /\ \A o \in Offsets : SetTimezoneOffset(o) \in CommandOps
  BY DEF CommandOps
<1>2. CASE list \in {<<GetTime>>, <<ReadTemperature>>, <<LogEvent>>}
  <2>1. \A x \in CommandOps : <<x>> \in Seq(CommandOps)
    OBVIOUS
  <2> QED
    BY <1>1, <1>2, <2>1
<1>3. ASSUME NEW tm \in Times, list = <<SetTime(tm), LogEvent, GetTime>> PROVE list \in Seq(CommandOps)
  BY <1>1, <1>3
<1>4. ASSUME NEW o \in Offsets, list = <<SetTimezoneOffset(o)>> PROVE list \in Seq(CommandOps)
  BY <1>1, <1>4
<1> QED
  BY <1>2, <1>3, <1>4 DEF Commands

-----------------------------------------------------------------------------
(* The inductive invariant.                                                *)

Labels == {"next", "event", "lock", "calling", "call", "inner", "outer", "done", "announce"}

TypesOK ==
    /\ owner \in [Locks -> Cores \cup {Nobody}]
    /\ pc \in [Cores -> Labels]
    /\ op \in [Cores -> Operations]
    /\ todo \in [Cores -> Seq(Operations)]
    /\ calls \in [Cores -> Seq(Accesses)]
    /\ DOMAIN got = Cores /\ got = [c \in Cores |-> got[c]]
    /\ bad \in [Cores -> BOOLEAN] /\ mixed \in [Cores -> BOOLEAN]
    /\ DOMAIN seen = Cores /\ seen = [c \in Cores |-> seen[c]]
    /\ wire = {c \in Cores : pc[c] = "calling"}
    /\ DOMAIN pointer = Chips /\ pointer = [d \in Chips |-> pointer[d]]
    /\ level \in [volt : Volts, draw : Draws]
    /\ launched \in BOOLEAN /\ faults \in Nat
    /\ DOMAIN power = {"volt", "draw"} /\ power = [k \in {"volt", "draw"} |-> power[k]]

\* Until core 1 is launched only core 0 does anything, and that is the boot.
OpsOf(c) == IF c = core1 THEN RoundOps ELSE IF launched THEN CommandOps ELSE BootOps

OpsOK ==
    /\ \A c \in Cores :
          /\ \A i \in DOMAIN todo[c] : todo[c][i] \in OpsOf(c)
          /\ IF pc[c] = "next" THEN op[c] = DefineMode ELSE op[c] \in OpsOf(c)
    /\ ~launched => pc[core1] = "next" /\ todo[core1] = <<>>

\* Who owns the mutex of a device is between the first call of an operation on it and
\* the last message about it.
Inside == {"call", "calling", "inner"}
LocksOK == \A c \in Cores :
    /\ owner["clock"] = c <=> pc[c] \in Inside /\ op[c].dev = "DS3231"
    /\ owner["power"] = c <=> pc[c] \in Inside /\ op[c].dev = "INA3221"

TimeOK ==
    /\ TimeOf(rtc) = now
    /\ \A c \in Cores : pc[c] # "next" => now \in seen[c]

\* The calls that are left belong to the operation, and what was read is forgotten
\* with it.
CallsAt(c) ==
    /\ pc[c] # "next" /\ op[c].dev # "DS3231" => calls[c] \in Seq(Others)
    /\ pc[c] # "next" /\ op[c].dev \notin {"DS3231", "BME280"} => Complete(calls[c])
    /\ pc[c] \in {"lock", "calling", "call"} => calls[c] # <<>>
    /\ pc[c] \in {"next", "event", "lock", "announce"} => got[c] = <<>>
    /\ pc[c] \in {"lock", "calling"} => op[c].dev \in Main
    /\ pc[c] \in {"event", "announce"} => op[c] = LogEvent
    /\ pc[c] = "outer" => op[c].dev = "DS3231"
    /\ pc[c] = "inner" => op[c] = Initialize \/ op[c].dev = "DS3231"
    /\ op[c].do = "set" => pc[c] # "call" /\ (pc[c] \in {"lock", "calling"} => calls[c] = Write("time"))

\* Between the two calls of a read the chip's pointer stays where the first one put it.
Selected(c) == calls[c] = Tail(op[c].calls) /\ pointer[op[c].dev] = Reg(op[c])

\* What a core has read is what the register holds, or held while it was reading.
Right(c, v) ==
    /\ v.from = Reg(op[c])
    /\ v.from = "time" => TimeOf(v.data) \in seen[c]
    /\ v.from = "temp" => Quarters(v.data) = Warmth
    /\ v.from = "CH1_BUSV" => v.data = <<HoldsChannel(level.volt)>>
    /\ v.from = "CH2_SHUNTV" => v.data = <<HoldsChannel(level.draw)>>

ReadAt(c) == Asks(op[c]) =>
    /\ pc[c] \in {"event", "lock"} => ~bad[c] /\ calls[c] = op[c].calls
    /\ pc[c] = "calling" => ~bad[c] /\ got[c] = <<>> /\ (calls[c] = op[c].calls \/ Selected(c))
    /\ pc[c] = "call" => ~bad[c] /\ got[c] = <<>> /\ Selected(c)
    /\ pc[c] \in {"inner", "outer"} => bad[c]
    /\ pc[c] = "done" =>
          IF bad[c] THEN op[c].do = "power" => got[c] \in {<<>>, <<Nothing>>}
          ELSE \E v : got[c] = <<v>> /\ (mixed[c] \/ Right(c, v))

CoresOK == \A c \in Cores : CallsAt(c) /\ ReadAt(c)

\* t_fine is of this round, or of no measurement, before a conversion uses it.
FineOK ==
    \/ t_fine \in {rounds, -1}
    \/ /\ op[core1] \notin Conversions
       /\ op[core1] = Temperature \/ Led(todo[core1], Conversions, Temperature)

\* How far Initialize is with its four calls, when none has failed.
IdsAt(k) ==
    /\ Len(calls[core0]) = 5 - k
    /\ \A j \in 1 .. (5 - k) : calls[core0][j] = Initialize.calls[j + k - 1]
    /\ k \in {1, 2} => got[core0] = <<>>
    /\ k = 2 => pointer["INA3221"] = "MANUF_ID"
    /\ k \in {3, 4} => got[core0] = <<Value("MANUF_ID", <<>>)>>
    /\ k = 4 => pointer["INA3221"] = "DIE_ID"
    /\ k = 5 => got[core0] = <<Value("MANUF_ID", <<>>), Value("DIE_ID", <<>>)>>

IdsOK == op[core0] = Initialize =>
    /\ pc[core0] = "lock" => IdsAt(1)
    /\ pc[core0] = "calling" => \E k \in 1 .. 4 : IdsAt(k)
    /\ pc[core0] = "call" => \E k \in 2 .. 4 : IdsAt(k)
    /\ pc[core0] \in {"inner", "done"} => IdsAt(5)

\* In a boot without failures the monitor is initialised before it is used, the
\* voltage measured before the mode is decided, and that is decided before the launch.
MonitorFirst ==
    \/ initialized
    \/ /\ op[core0] \notin NeedsMonitor
       /\ op[core0] = Initialize \/ Led(todo[core0], NeedsMonitor, Initialize)
VoltageFirst ==
    \/ power.volt = 8 * level.volt
    \/ /\ op[core0] = DefineMode => pc[core0] = "next"
       /\ op[core0] = BatteryVoltage \/ Led(todo[core0], {DefineMode}, BatteryVoltage)
ModeDecided ==
    \/ mode = "BATTERY" \/ 8 * level.volt < BatteryThreshold
    \/ op[core0] = DefineMode /\ pc[core0] # "next"
    \/ \E i \in DOMAIN todo[core0] : todo[core0][i] = DefineMode
MonitorAnswers == op[core0] = BatteryVoltage => ~bad[core0]

BootGoes == MonitorFirst /\ VoltageFirst /\ ModeDecided /\ MonitorAnswers /\ IdsOK

BootOK ==
    /\ ~launched => ~mixed[core0]
    /\ ~launched /\ faults = 0 => BootGoes
    /\ launched /\ bootFaults = 0 /\ 8 * level.volt >= BatteryThreshold => mode = "BATTERY"

PInv == TypesOK /\ OpsOK /\ LocksOK /\ TimeOK /\ CoresOK /\ FineOK /\ BootOK

-----------------------------------------------------------------------------
(* What the invariant says of the values that are used.                     *)

LEMMA OpNow == ASSUME PInv, NEW c \in Cores PROVE OpFits(op[c])
  BY OpTable DEF PInv, TypesOK

LEMMA StampIs ==
    ASSUME PInv
    PROVE  StampsHonest
<1>1. SUFFICES ASSUME NEW c \in Cores, pc[c] = "done", op[c].do \in {"log", "time"}, ~mixed[c], ~bad[c]
               PROVE  LocalTime(c).time # {} /\ LocalTime(c).time \subseteq seen[c]
  BY DEF StampsHonest, LocalTime, At
<1>2. Reg(op[c]) = "time" /\ Asks(op[c])
  BY <1>1, OpNow DEF OpFits, Asks
<1>3. PICK v : got[c] = <<v>> /\ Right(c, v)
  BY <1>1, <1>2 DEF PInv, CoresOK, ReadAt
<1>4. got[c][Len(got[c])] = v
  BY <1>3
<1>5. v.from = "time" /\ TimeOf(v.data) \in seen[c]
  BY <1>2, <1>3 DEF Right
<1>6. LocalTime(c).time = {TimeOf(v.data)}
  BY <1>1, <1>4, <1>5 DEF LocalTime, Last
<1> QED
  BY <1>5, <1>6

LEMMA ReadingIs ==
    ASSUME PInv
    PROVE  ReadingsHonest
<1>1. ASSUME NEW c \in Cores, pc[c] = "done", ~mixed[c], op[c].do = "power"
      PROVE  /\ bad[c] => Reading(c) = 0
             /\ ~bad[c] /\ Channel(c) = "volt" => Reading(c) = 8 * level.volt
             /\ ~bad[c] /\ Channel(c) = "draw" =>
                   IF level.draw >= 0 THEN Reading(c) = Milliamps(level.draw)
                   ELSE Reading(c) > Milliamps(4095)
  <2>1. /\ Asks(op[c]) /\ op[c] \in {BatteryVoltage, Draw}
        /\ Reg(op[c]) = (IF op[c] = BatteryVoltage THEN "CH1_BUSV" ELSE "CH2_SHUNTV")
    BY <1>1, OpNow DEF OpFits, Asks
  <2>2. CASE bad[c]
    <3>1. got[c] \in {<<>>, <<Nothing>>}
      BY <1>1, <2>1, <2>2 DEF PInv, CoresOK, ReadAt
    <3>2. got[c] = <<>> \/ got[c][Len(got[c])].from = "nothing"
      BY <3>1 DEF Nothing, Value
    <3> QED
      BY <2>2, <3>2 DEF Reading, Last
  <2>3. CASE ~bad[c]
    <3>1. PICK v : got[c] = <<v>> /\ Right(c, v)
      BY <1>1, <2>1, <2>3 DEF PInv, CoresOK, ReadAt
    <3>2. got[c][Len(got[c])] = v /\ got[c] # <<>>
      BY <3>1
    <3>3. level.volt \in 0 .. 4095 /\ level.draw \in Int /\ level.draw =< 4095 /\ -4096 =< level.draw
      <4>1. level \in [volt : Volts, draw : Draws]
        BY DEF PInv, TypesOK
      <4>2. /\ \A x \in Volts : x \in 0 .. 4095
            /\ \A x \in Draws : x \in Int /\ x =< 4095 /\ -4096 =< x
        BY PeripheralsAssumption, SMTT(40)
      <4>3. level.volt \in Volts /\ level.draw \in Draws
        BY <4>1
      <4> QED
        BY <4>2, <4>3
    <3>4. CASE Reg(op[c]) = "CH1_BUSV"
      <4>1. v.from = "CH1_BUSV" /\ v.data[1] = HoldsChannel(level.volt)
        BY <3>1, <3>4 DEF Right
      <4>2. Channel(c) = "volt"
        BY <3>4 DEF Channel, Reg
      <4>3. Last(c) = v
        BY <3>2 DEF Last
      <4>4. Reading(c) = Voltage(v.data[1])
        BY <3>2, <4>1 DEF Reading, Last
      <4>5. Reading(c) = Voltage(HoldsChannel(level.volt))
        BY <4>1, <4>4
      <4>6. Reading(c) = 8 * level.volt
        <5>1. PICK k : k = level.volt
          OBVIOUS
        <5>2. Voltage(HoldsChannel(k)) = 8 * k
          <6>1. k \in 0 .. 4095
            BY <3>3, <5>1
          <6> QED
            BY <6>1 DEF Voltage, HoldsChannel
        <5>3. Reading(c) = Voltage(HoldsChannel(k))
          BY <4>5, <5>1
        <5> QED
          BY <5>1, <5>2, <5>3
      <4> QED
        BY <2>3, <4>2, <4>6
    <3>5. CASE Reg(op[c]) = "CH2_SHUNTV"
      <4>1. v.from = "CH2_SHUNTV" /\ v.data[1] = HoldsChannel(level.draw)
        BY <3>1, <3>5 DEF Right
      <4>2. Channel(c) = "draw"
        BY <3>5 DEF Channel, Reg
      <4>3. Last(c) = v
        BY <3>2 DEF Last
      <4>4. Reading(c) = Current(v.data[1])
        BY <3>2, <4>1 DEF Reading, Last
      <4>5. Reading(c) = Current(HoldsChannel(level.draw))
        BY <4>1, <4>4
      <4>6. IF level.draw >= 0 THEN Reading(c) = Milliamps(level.draw)
            ELSE Reading(c) > Milliamps(4095)
        <5>1. PICK k : k = level.draw
          OBVIOUS
        <5>2. k >= 0 => Current(HoldsChannel(k)) = Milliamps(k)
          <6> SUFFICES ASSUME k >= 0 PROVE Current(HoldsChannel(k)) = Milliamps(k)
            OBVIOUS
          <6>1. k \in Int /\ k =< 4095
            BY <3>3, <5>1
          <6>2. k \in 0 .. 4095
            BY <6>1
          <6>3. HoldsChannel(k) = k * 8
            BY <6>2 DEF HoldsChannel
          <6>4. Current(HoldsChannel(k)) = (k * 5) \div 10
            <7>1. (k * 8) \div 8 = k
              BY <6>2
            <7> QED
              BY <6>3, <7>1 DEF Current, ShuntVoltage
          <6>5. Milliamps(k) = k \div 2
            BY DEF Milliamps
          <6>6. (k * 5) \div 10 = k \div 2
            BY <6>2
          <6> QED
            BY <6>4, <6>5, <6>6
        <5>3. Reading(c) = Current(HoldsChannel(k))
          BY <4>5, <5>1
        <5>4. ~(k >= 0) => Current(HoldsChannel(k)) > Milliamps(4095)
          <6> SUFFICES ASSUME ~(k >= 0) PROVE Current(HoldsChannel(k)) > Milliamps(4095)
            OBVIOUS
          <6>1. k \in Int /\ -4096 =< k /\ k < 0
            BY <3>3, <5>1
          <6>2. PICK u : u = k % 8192
            OBVIOUS
          <6>3. u \in Int /\ u >= 4096
            BY <6>1, <6>2
          <6>4. Current(HoldsChannel(k)) = (u * 5) \div 10
            <7>1. (u * 8) \div 8 = u
              BY <6>3
            <7>2. HoldsChannel(k) = u * 8
              BY <6>2 DEF HoldsChannel
            <7> QED
              BY <7>1, <7>2 DEF Current, ShuntVoltage
          <6>5. Milliamps(4095) = 2047
            BY DEF Milliamps
          <6>6. (u * 5) \div 10 >= 2048
            BY <6>3
          <6> QED
            BY <6>3, <6>4, <6>5, <6>6
        <5> QED
          BY <5>1, <5>2, <5>3, <5>4
      <4> QED
        BY <2>3, <4>2, <4>6
    <3> QED
      BY <2>1, <3>4, <3>5
  <2> QED
    BY <2>2, <2>3
<1>2. ASSUME NEW c \in Cores, pc[c] = "done", ~mixed[c], op[c].do = "temp", ~bad[c]
      PROVE  Last(c).from = "temp" /\ Quarters(Last(c).data) = Warmth
  <2>1. Reg(op[c]) = "temp" /\ Asks(op[c])
    BY <1>2, OpNow DEF OpFits, Asks
  <2>2. PICK v : got[c] = <<v>> /\ Right(c, v)
    BY <1>2, <2>1 DEF PInv, CoresOK, ReadAt
  <2>3. got[c][Len(got[c])] = v
    BY <2>2
  <2> QED
    BY <2>1, <2>2, <2>3 DEF Right, Last
<1>3. ASSUME NEW c \in Cores, pc[c] = "done", op[c].do \in {"pressure", "humidity"}
      PROVE  Compensation(c) \in {rounds, -1}
  <2>1. op[c] \in Conversions /\ op[c] \in OpsOf(c)
    BY <1>3, OpNow DEF OpFits, PInv, OpsOK
  <2>2. \A o \in BootOps \cup CommandOps : o \notin Conversions
    BY OnlyRounds
  <2>3. c = core1
    BY <2>1, <2>2 DEF OpsOf
  <2>4. t_fine \in {rounds, -1}
    BY <2>1, <2>3 DEF PInv, FineOK
  <2> QED
    BY <2>4 DEF Compensation
<1>4. launched /\ bootFaults = 0 /\ 8 * level.volt >= BatteryThreshold => mode = "BATTERY"
  BY DEF PInv, BootOK
<1> QED
  BY <1>1, <1>2, <1>3, <1>4 DEF ReadingsHonest, At

-----------------------------------------------------------------------------
(* The start, and what a step of one core leaves alone.                      *)

LEMMA ListsOfAll ==
    /\ BootOps \subseteq Operations /\ RoundOps \subseteq Operations
    /\ CommandOps \subseteq Operations /\ DefineMode \in Operations
  BY DEF Operations, BootOps

LEMMA Starts == Init => PInv
<1> SUFFICES ASSUME Init PROVE PInv
  OBVIOUS
<1>1. /\ pc = [c \in Cores |-> "next"] /\ op = [c \in Cores |-> DefineMode]
      /\ todo = [c \in Cores |-> IF c = core0 THEN Boot ELSE <<>>]
      /\ calls = [c \in Cores |-> <<>>] /\ got = [c \in Cores |-> <<>>]
      /\ bad = [c \in Cores |-> FALSE] /\ mixed = [c \in Cores |-> FALSE]
      /\ seen = [c \in Cores |-> {}] /\ wire = {}
      /\ owner = [l \in Locks |-> Nobody]
      /\ pointer = [DS3231 |-> "time", INA3221 |-> "CONF", BME280 |-> "ID"]
      /\ rtc = TimeRegisters(PowerOnTime) /\ now = Known(PowerOnTime)
      /\ level \in [volt : Volts, draw : Draws]
      /\ t_fine = 0 /\ rounds = 0 /\ launched = FALSE /\ faults = 0
      /\ power = [volt |-> 0, draw |-> 0]
  BY DEF Init, Idle
<1>2. core0 \in Cores /\ core1 \in Cores /\ core0 # core1 /\ Nobody \notin Cores
  BY PeripheralsAssumption DEF Cores
<1>3. TypesOK
  <2>1. Boot \in Seq(Operations) /\ <<>> \in Seq(Operations) /\ <<>> \in Seq(Accesses)
    BY BootList, ListsOfAll
  <2>2. todo \in [Cores -> Seq(Operations)] /\ op \in [Cores -> Operations]
    BY <1>1, <2>1, ListsOfAll
  <2>3. DOMAIN pointer = Chips /\ pointer = [d \in Chips |-> pointer[d]]
    BY <1>1 DEF Chips
  <2>4. wire = {c \in Cores : pc[c] = "calling"}
    BY <1>1
  <2>5. owner \in [Locks -> Cores \cup {Nobody}]
    BY <1>1
  <2>6. /\ DOMAIN got = Cores /\ got = [c \in Cores |-> got[c]]
        /\ DOMAIN seen = Cores /\ seen = [c \in Cores |-> seen[c]]
    BY <1>1
  <2>7. pc \in [Cores -> Labels] /\ calls \in [Cores -> Seq(Accesses)]
    BY <1>1, <2>1 DEF Labels
  <2>8. DOMAIN power = {"volt", "draw"} /\ power = [k \in {"volt", "draw"} |-> power[k]]
    BY <1>1
  <2> QED
    BY <1>1, <2>2, <2>3, <2>4, <2>5, <2>6, <2>7, <2>8 DEF TypesOK
<1>4. OpsOK
  <2>1. \A c \in Cores : \A i \in DOMAIN todo[c] : todo[c][i] \in OpsOf(c)
    <3>1. \A i \in DOMAIN Boot : Boot[i] \in BootOps
      <4>1. Boot \in Seq(BootOps)
        BY BootList
      <4> QED
        BY <4>1
    <3>2. DOMAIN <<>> = {}
      OBVIOUS
    <3>3. \A c \in Cores : c = core0 \/ todo[c] = <<>>
      BY <1>1
    <3>4. todo[core0] = Boot /\ OpsOf(core0) = BootOps
      BY <1>1, <1>2 DEF OpsOf
    <3> QED
      BY <3>1, <3>2, <3>3, <3>4
  <2> QED
    BY <1>1, <1>2, <2>1 DEF OpsOK
<1>5. LocksOK
  BY <1>1, <1>2 DEF LocksOK, Locks, Inside
<1>6. TimeOK
  <2>1. TimeOf(rtc) = now
    BY <1>1, TimeReadsBack
  <2> QED
    BY <1>1, <2>1 DEF TimeOK
<1>7. CoresOK
  BY <1>1, MonitorOps DEF CoresOK, CallsAt, ReadAt, Asks
<1>8. FineOK
  BY <1>1 DEF FineOK
<1>9. BootOK
  <2>1. todo[core0] = Boot /\ op[core0] = DefineMode /\ pc[core0] = "next" /\ ~mixed[core0]
    BY <1>1, <1>2
  <2>2. DefineMode \notin NeedsMonitor /\ DefineMode # BatteryVoltage /\ DefineMode # Initialize
    BY MonitorOps DEF NeedsMonitor
  <2>3. MonitorFirst /\ VoltageFirst /\ ModeDecided /\ MonitorAnswers /\ IdsOK
    BY <2>1, <2>2, BootOrder DEF MonitorFirst, VoltageFirst, ModeDecided, MonitorAnswers, IdsOK
  <2> QED
    BY <1>1, <2>1, <2>3 DEF BootOK, BootGoes
<1> QED
  BY <1>3, <1>4, <1>5, <1>6, <1>7, <1>8, <1>9 DEF PInv

\* A core that does nothing is not disturbed by what the other does to the chips and
\* to the time, as long as nobody moves the pointer it has set.
LEMMA OtherAt ==
    ASSUME NEW d \in Cores, CallsAt(d), ReadAt(d), OpFits(op[d]),
           pc'[d] = pc[d], op'[d] = op[d], calls'[d] = calls[d], got'[d] = got[d],
           bad'[d] = bad[d], mixed[d] => mixed'[d], level' = level,
           pc[d] # "next" => seen[d] \subseteq seen'[d],
           pc[d] \in {"call", "calling"} /\ op[d].dev \in Main =>
               pointer'[op[d].dev] = pointer[op[d].dev]
    PROVE  CallsAt(d)' /\ ReadAt(d)'
<1>1. CallsAt(d)'
  BY DEF CallsAt
<1>2. ASSUME Asks(op[d]) PROVE op[d].dev \in Main
  BY <1>2 DEF OpFits, Asks, Main
<1>3. ASSUME NEW v, Right(d, v), pc[d] # "next" PROVE Right(d, v)'
  BY <1>3 DEF Right
<1>4. ASSUME Asks(op[d]), pc[d] \in {"call", "calling"}, Selected(d) PROVE Selected(d)'
  BY <1>2, <1>4 DEF Selected
<1>5. ReadAt(d)'
  <2> SUFFICES ASSUME Asks(op[d]) PROVE ReadAt(d)'
    BY DEF ReadAt
  <2>1. pc[d] \in {"event", "lock"} => ~bad[d] /\ calls[d] = op[d].calls
    BY DEF ReadAt
  <2>2. pc[d] = "calling" => ~bad[d] /\ got[d] = <<>> /\ (calls[d] = op[d].calls \/ Selected(d)')
    BY <1>4 DEF ReadAt
  <2>3. pc[d] = "call" => ~bad[d] /\ got[d] = <<>> /\ Selected(d)'
    BY <1>4 DEF ReadAt
  <2>4. pc[d] \in {"inner", "outer"} => bad[d]
    BY DEF ReadAt
  <2>5. pc[d] = "done" => IF bad[d] THEN op[d].do = "power" => got[d] \in {<<>>, <<Nothing>>}
                          ELSE \E v : got[d] = <<v>> /\ (mixed'[d] \/ Right(d, v)')
    BY <1>3 DEF ReadAt
  <2> QED
    BY <2>1, <2>2, <2>3, <2>4, <2>5 DEF ReadAt
<1> QED
  BY <1>1, <1>5

LEMMA CallsTyped == \A o \in Operations : o.calls \in Seq(Accesses)
<1> SUFFICES ASSUME NEW o \in Operations PROVE o.calls \in Seq(Accesses)
  OBVIOUS
<1>1. OpFits(o)
  BY OpTable
<1>2. Others \subseteq Accesses
  BY DEF Others, Accesses
<1>3. CASE o.dev # "DS3231"
  BY <1>1, <1>2, <1>3 DEF OpFits
<1>4. CASE o.dev = "DS3231"
  <2>1. \A r \in {"time", "temp"} : Read(r) \in Seq(Accesses) /\ Write(r) \in Seq(Accesses)
    BY DEF Read, Write, Accesses, Registers
  <2>2. o.do = "set" => o.calls = Write("time")
    BY <1>1, <1>4 DEF OpFits
  <2>3. o.do # "set" => o.calls = Read(Reg(o)) /\ Reg(o) \in {"time", "temp"}
    BY <1>1, <1>4 DEF OpFits, Asks
  <2> QED
    BY <2>1, <2>2, <2>3
<1> QED
  BY <1>3, <1>4

-----------------------------------------------------------------------------
(* A core turns to its next operation.                                     *)

LEMMA BeginIs ==
    ASSUME TypesOK, NEW c \in Cores, NEW list \in Seq(Operations), Begin(c, list)
    PROVE  /\ \A d \in Cores : d # c =>
                /\ pc'[d] = pc[d] /\ op'[d] = op[d] /\ todo'[d] = todo[d]
                /\ calls'[d] = calls[d] /\ bad'[d] = bad[d] /\ seen'[d] = seen[d]
           /\ list = <<>> => pc'[c] = "next" /\ op'[c] = DefineMode /\ todo'[c] = <<>>
           /\ list # <<>> =>
                /\ op'[c] = Head(list) /\ todo'[c] = Tail(list)
                /\ calls'[c] = (IF Refused(Head(list)) THEN <<>> ELSE Head(list).calls)
                /\ bad'[c] = Refused(Head(list)) /\ seen'[c] = {now}
                /\ pc'[c] = First(Head(list))
           /\ pc' \in [Cores -> Labels] /\ op' \in [Cores -> Operations]
           /\ todo' \in [Cores -> Seq(Operations)] /\ calls' \in [Cores -> Seq(Accesses)]
           /\ bad' \in [Cores -> BOOLEAN]
           /\ DOMAIN seen' = Cores /\ seen' = [d \in Cores |-> seen'[d]]
<1>1. CASE list = <<>>
  <2>1. /\ op' = [op EXCEPT ![c] = DefineMode] /\ todo' = [todo EXCEPT ![c] = <<>>]
        /\ bad' = [bad EXCEPT ![c] = FALSE] /\ seen' = [seen EXCEPT ![c] = {}]
        /\ pc' = [pc EXCEPT ![c] = "next"] /\ calls' = calls
    BY <1>1, Zenon DEF Begin, Go
  <2>2. <<>> \in Seq(Operations) /\ "next" \in Labels /\ DefineMode \in Operations
    BY ListsOfAll DEF Labels
  <2>3. /\ pc' \in [Cores -> Labels] /\ op' \in [Cores -> Operations]
        /\ todo' \in [Cores -> Seq(Operations)] /\ calls' \in [Cores -> Seq(Accesses)]
        /\ bad' \in [Cores -> BOOLEAN]
        /\ DOMAIN seen' = Cores /\ seen' = [d \in Cores |-> seen'[d]]
    BY <2>1, <2>2 DEF TypesOK
  <2>4. pc'[c] = "next" /\ op'[c] = DefineMode /\ todo'[c] = <<>>
    BY <2>1 DEF TypesOK
  <2>5. \A d \in Cores : d # c =>
          /\ pc'[d] = pc[d] /\ op'[d] = op[d] /\ todo'[d] = todo[d]
          /\ calls'[d] = calls[d] /\ bad'[d] = bad[d] /\ seen'[d] = seen[d]
    BY <2>1 DEF TypesOK
  <2> QED
    BY <1>1, <2>3, <2>4, <2>5
<1>2. CASE list # <<>>
  <2>1. PICK o : o = Head(list)
    OBVIOUS
  <2>2. o \in Operations /\ Tail(list) \in Seq(Operations) /\ o.calls \in Seq(Accesses)
    BY <1>2, <2>1, CallsTyped
  <2>3. First(o) \in Labels /\ Refused(o) \in BOOLEAN
    BY DEF First, Refused, Labels
  <2>4. /\ op' = [op EXCEPT ![c] = o] /\ todo' = [todo EXCEPT ![c] = Tail(list)]
        /\ calls' = [calls EXCEPT ![c] = IF Refused(o) THEN <<>> ELSE o.calls]
        /\ bad' = [bad EXCEPT ![c] = Refused(o)] /\ seen' = [seen EXCEPT ![c] = {now}]
        /\ pc' = [pc EXCEPT ![c] = First(o)]
    BY <1>2, <2>1, Zenon DEF Begin, Go
  <2>5. <<>> \in Seq(Accesses)
    OBVIOUS
  <2>6. /\ pc' \in [Cores -> Labels] /\ op' \in [Cores -> Operations]
        /\ todo' \in [Cores -> Seq(Operations)] /\ calls' \in [Cores -> Seq(Accesses)]
        /\ bad' \in [Cores -> BOOLEAN]
        /\ DOMAIN seen' = Cores /\ seen' = [d \in Cores |-> seen'[d]]
    BY <2>2, <2>3, <2>4, <2>5 DEF TypesOK
  <2>7. /\ op'[c] = o /\ todo'[c] = Tail(list)
        /\ calls'[c] = (IF Refused(o) THEN <<>> ELSE o.calls)
        /\ bad'[c] = Refused(o) /\ seen'[c] = {now} /\ pc'[c] = First(o)
    BY <2>4 DEF TypesOK
  <2>8. \A d \in Cores : d # c =>
          /\ pc'[d] = pc[d] /\ op'[d] = op[d] /\ todo'[d] = todo[d]
          /\ calls'[d] = calls[d] /\ bad'[d] = bad[d] /\ seen'[d] = seen[d]
    BY <2>4 DEF TypesOK
  <2> QED
    BY <1>2, <2>1, <2>6, <2>7, <2>8
<1> QED
  BY <1>1, <1>2

\* The operations that a core may turn to are those it has, or none.
LEMMA ListIs ==
    ASSUME TypesOK, OpsOK, NEW c \in Cores, NEW list \in {todo[c], <<>>}
    PROVE  list \in Seq(Operations) /\ \A i \in DOMAIN list : list[i] \in OpsOf(c)
<1>1. <<>> \in Seq(Operations) /\ DOMAIN <<>> = {}
  OBVIOUS
<1>2. todo[c] \in Seq(Operations) /\ \A i \in DOMAIN todo[c] : todo[c][i] \in OpsOf(c)
  BY DEF TypesOK, OpsOK
<1> QED
  BY <1>1, <1>2

\* Where an operation begins.
LEMMA FirstIs ==
    ASSUME NEW o, OpFits(o)
    PROVE  /\ First(o) \in {"event", "lock", "call", "done"}
           /\ First(o) = "event" => o = LogEvent /\ ~Refused(o)
           /\ First(o) = "lock" => o.dev \in Main /\ ~Refused(o) /\ o.calls # <<>>
           /\ First(o) = "call" => o.dev \notin Main /\ ~Refused(o) /\ o.calls # <<>>
           /\ First(o) = "done" => Refused(o) \/ o.dev \notin Main
           /\ Refused(o) => \/ ~initialized' /\ o \in NeedsMonitor
                            \/ o.do \in {"temperature", "pressure", "humidity"}
<1>1. o.do \in {"power", "conf"} => o \in NeedsMonitor
  BY DEF OpFits, NeedsMonitor
<1> QED
  BY <1>1 DEF First, Refused, OpFits, Main

\* After it has turned to the next operation a core is where that begins; the other is
\* where it was.
LEMMA Turn ==
    ASSUME TypesOK, OpsOK, LocksOK, TimeOK, CoresOK,
           NEW c \in Cores, NEW list \in {todo[c], <<>>}, Begin(c, list),
           pc[c] \in {"next", "announce", "done"},
           got'[c] = <<>>, got' = [d \in Cores |-> got'[d]],
           mixed' \in [Cores -> BOOLEAN],
           \A d \in Cores : d # c => got'[d] = got[d] /\ mixed'[d] = mixed[d],
           owner' \in [Locks -> Cores \cup {Nobody}],
           owner'["clock"] = owner["clock"], owner'["power"] = owner["power"],
           UNCHANGED <<pointer, rtc, now, level, launched, wire, faults>>,
           DOMAIN power' = {"volt", "draw"}, power' = [k \in {"volt", "draw"} |-> power'[k]]
    PROVE  TypesOK' /\ OpsOK' /\ LocksOK' /\ TimeOK' /\ CoresOK'
<1>1. list \in Seq(Operations) /\ \A i \in DOMAIN list : list[i] \in OpsOf(c)
  BY ListIs
<1>2. /\ \A d \in Cores : d # c =>
           /\ pc'[d] = pc[d] /\ op'[d] = op[d] /\ todo'[d] = todo[d]
           /\ calls'[d] = calls[d] /\ bad'[d] = bad[d] /\ seen'[d] = seen[d]
      /\ list = <<>> => pc'[c] = "next" /\ op'[c] = DefineMode /\ todo'[c] = <<>>
      /\ list # <<>> =>
           /\ op'[c] = Head(list) /\ todo'[c] = Tail(list)
           /\ calls'[c] = (IF Refused(Head(list)) THEN <<>> ELSE Head(list).calls)
           /\ bad'[c] = Refused(Head(list)) /\ seen'[c] = {now}
           /\ pc'[c] = First(Head(list))
  BY <1>1, BeginIs
<1>3. /\ pc' \in [Cores -> Labels] /\ op' \in [Cores -> Operations]
      /\ todo' \in [Cores -> Seq(Operations)] /\ calls' \in [Cores -> Seq(Accesses)]
      /\ bad' \in [Cores -> BOOLEAN]
      /\ DOMAIN seen' = Cores /\ seen' = [d \in Cores |-> seen'[d]]
  BY <1>1, BeginIs
<1>4. PICK o : o = Head(list)
  OBVIOUS
<1>5. list # <<>> => o \in Operations /\ OpFits(o) /\ o \in OpsOf(c)
  BY <1>1, <1>4, OpTable
<1>6. /\ pc'[c] \in {"next", "event", "lock", "call", "done"}
      /\ pc'[c] = "next" <=> list = <<>>
      /\ pc'[c] = "event" => o = LogEvent /\ ~Refused(o)
      /\ pc'[c] = "lock" => o.dev \in Main /\ ~Refused(o) /\ o.calls # <<>>
      /\ pc'[c] = "call" => o.dev \notin Main /\ ~Refused(o) /\ o.calls # <<>>
      /\ pc'[c] = "done" => Refused(o) \/ o.dev \notin Main
  BY <1>2, <1>4, <1>5, FirstIs
<1>7. TypesOK'
  <2>1. wire' = {d \in Cores : pc'[d] = "calling"}
    BY <1>2, <1>6 DEF TypesOK
  <2>2. DOMAIN got' = Cores
    OBVIOUS
  <2> QED
    BY <1>3, <2>1, <2>2 DEF TypesOK
<1>8. OpsOK'
  <2>1. \A d \in Cores : OpsOf(d)' = OpsOf(d)
    BY DEF OpsOf
  <2>2. \A d \in Cores : d # c =>
          /\ \A i \in DOMAIN todo'[d] : todo'[d][i] \in OpsOf(d)
          /\ IF pc'[d] = "next" THEN op'[d] = DefineMode ELSE op'[d] \in OpsOf(d)
    BY <1>2 DEF OpsOK
  <2>3. \A i \in DOMAIN todo'[c] : todo'[c][i] \in OpsOf(c)
    <3>1. CASE list = <<>>
      BY <1>2, <3>1
    <3>2. CASE list # <<>>
      <4>1. todo'[c] = Tail(list)
        BY <1>2, <3>2
      <4>2. \A i \in DOMAIN Tail(list) : i + 1 \in DOMAIN list /\ Tail(list)[i] = list[i + 1]
        BY <1>1, <3>2, TailFrom
      <4> QED
        BY <1>1, <4>1, <4>2
    <3> QED
      BY <3>1, <3>2
  <2>4. IF pc'[c] = "next" THEN op'[c] = DefineMode ELSE op'[c] \in OpsOf(c)
    BY <1>2, <1>4, <1>5, <1>6
  <2>5. ~launched' => pc'[core1] = "next" /\ todo'[core1] = <<>>
    BY <1>2 DEF OpsOK, Cores
  <2> QED
    BY <2>1, <2>2, <2>3, <2>4, <2>5 DEF OpsOK
<1>9. LocksOK'
  <2>1. owner["clock"] # c /\ owner["power"] # c
    BY DEF LocksOK, Inside
  <2>2. ~(pc'[c] \in Inside /\ op'[c].dev \in Main)
    BY <1>2, <1>4, <1>6 DEF Inside
  <2> QED
    BY <1>2, <2>1, <2>2 DEF LocksOK, Main
<1>10. TimeOK'
  <2>1. now \in seen'[c] \/ pc'[c] = "next"
    BY <1>2, <1>6
  <2> QED
    BY <1>2, <2>1 DEF TimeOK
<1>11. CallsAt(c)' /\ ReadAt(c)'
  <2>1. CASE list = <<>>
    BY <1>2, <2>1, MonitorOps DEF CallsAt, ReadAt, Asks
  <2>2. CASE list # <<>>
    <3>1. op'[c] = o /\ calls'[c] = (IF Refused(o) THEN <<>> ELSE o.calls) /\ bad'[c] = Refused(o)
      BY <1>2, <1>4, <2>2
    <3>2. OpFits(o) /\ <<>> \in Seq(Others) /\ Complete(<<>>)
      BY <1>5, <2>2, CompleteOnes
    <3>3. CallsAt(c)'
      BY <1>6, <3>1, <3>2 DEF CallsAt, OpFits, Main
    <3>4. Asks(o) => o.dev \in Main
      BY <3>2 DEF OpFits, Asks, Main
    <3>5. Asks(o) /\ Refused(o) => o.do = "power"
      BY DEF Asks, Refused
    <3>6. ReadAt(c)'
      BY <1>6, <3>1, <3>4, <3>5 DEF ReadAt
    <3> QED
      BY <3>3, <3>6
  <2> QED
    BY <2>1, <2>2
<1>12. ASSUME NEW d \in Cores, d # c PROVE CallsAt(d)' /\ ReadAt(d)'
  <2>1. OpFits(op[d])
    BY OpTable DEF TypesOK
  <2> QED
    BY <1>2, <1>12, <2>1, OtherAt DEF CoresOK
<1>13. CoresOK'
  BY <1>11, <1>12 DEF CoresOK
<1> QED
  BY <1>7, <1>8, <1>9, <1>10, <1>13

\* Turning to a conversion, core 1 has its temperature behind it.
LEMMA FineTurn ==
    ASSUME TypesOK, FineOK, NEW c \in Cores, NEW list \in {todo[c], <<>>}, Begin(c, list),
           rounds' = rounds, t_fine' = t_fine \/ t_fine' \in {rounds, -1},
           op[core1] = Temperature /\ c = core1 => t_fine' \in {rounds, -1}
    PROVE  FineOK'
<1>0. SUFFICES ASSUME ~(t_fine' \in {rounds, -1}) PROVE FineOK'
  BY Zenon DEF FineOK
<1>1. core1 \in Cores /\ list \in Seq(Operations)
  <2>1. <<>> \in Seq(Operations)
    OBVIOUS
  <2> QED
    BY <2>1 DEF Cores, TypesOK
<1>2. op[core1] \notin Conversions /\ (op[core1] = Temperature \/ Led(todo[core1], Conversions, Temperature))
  BY <1>0 DEF FineOK
<1>3. CASE c # core1
  <2>1. op'[core1] = op[core1] /\ todo'[core1] = todo[core1]
    BY <1>1, <1>3, BeginIs
  <2> QED
    BY <1>2, <2>1 DEF FineOK
<1>4. CASE c = core1
  <2>1. Led(todo[core1], Conversions, Temperature)
    BY <1>0, <1>2, <1>4
  <2>2. CASE list = <<>>
    <3>1. op'[core1] = DefineMode /\ todo'[core1] = <<>>
      BY <1>1, <1>4, <2>2, BeginIs
    <3>2. DefineMode \notin Conversions
      BY OnlyRounds DEF BootOps
    <3>3. Led(<<>>, Conversions, Temperature)
      BY DEF Led
    <3> QED
      BY <3>1, <3>2, <3>3 DEF FineOK
  <2>3. CASE list # <<>>
    <3>1. op'[core1] = Head(list) /\ todo'[core1] = Tail(list) /\ list = todo[core1]
      BY <1>1, <1>4, <2>3, BeginIs
    <3>2. /\ Head(list) \notin Conversions
          /\ Head(list) = Temperature \/ Led(Tail(list), Conversions, Temperature)
      BY <1>1, <2>1, <2>3, <3>1, LedTail
    <3> QED
      BY <3>1, <3>2 DEF FineOK
  <2> QED
    BY <2>2, <2>3
<1> QED
  BY <1>3, <1>4

\* Nor does the boot get to an operation before the one it needs.
LEMMA BootTurn ==
    ASSUME TypesOK, OpsOK, BootGoes, ~launched, ~launched', Begin(core0, todo[core0]),
           pc[core0] \in {"next", "announce", "done"}, level' = level,
           got'[core0] = <<>>, pointer' = pointer,
           initialized \/ op[core0] = Initialize => initialized',
           power.volt = 8 * level.volt \/ op[core0] = BatteryVoltage => power'.volt = 8 * level.volt,
           (mode = "BATTERY" \/ 8 * level.volt < BatteryThreshold
               \/ (op[core0] = DefineMode /\ pc[core0] # "next"))
               => mode' = "BATTERY" \/ 8 * level.volt < BatteryThreshold
    PROVE  BootGoes'
<1>1. core0 \in Cores /\ todo[core0] \in Seq(Operations)
  BY DEF Cores, TypesOK
<1>2. OpFits(op[core0])
  BY <1>1, OpTable DEF TypesOK
<1>3. PICK list : list = todo[core0]
  OBVIOUS
<1>4. DefineMode \notin NeedsMonitor /\ DefineMode # BatteryVoltage /\ DefineMode # Initialize
  BY MonitorOps DEF NeedsMonitor
<1>5. CASE list = <<>>
  <2>1. op'[core0] = DefineMode /\ pc'[core0] = "next" /\ todo'[core0] = <<>>
    BY <1>1, <1>3, <1>5, BeginIs
  <2>2. Led(<<>>, NeedsMonitor, Initialize) /\ Led(<<>>, {DefineMode}, BatteryVoltage)
    BY DEF Led
  <2>3. MonitorFirst' /\ VoltageFirst' /\ MonitorAnswers' /\ IdsOK'
    BY <1>4, <2>1, <2>2 DEF MonitorFirst, VoltageFirst, MonitorAnswers, IdsOK
  <2>4. ModeDecided'
    BY <1>3, <1>5 DEF BootGoes, ModeDecided
  <2> QED
    BY <2>3, <2>4 DEF BootGoes
<1>6. CASE list # <<>>
  <2>1. PICK o : o = Head(list)
    OBVIOUS
  <2>2. /\ op'[core0] = o /\ todo'[core0] = Tail(list) /\ bad'[core0] = Refused(o)
        /\ calls'[core0] = (IF Refused(o) THEN <<>> ELSE o.calls)
        /\ pc'[core0] = First(o)
    BY <1>1, <1>3, <1>6, <2>1, BeginIs
  <2>3. /\ list \in Seq(Operations) /\ o = list[1] /\ 1 \in DOMAIN list
        /\ \A i \in DOMAIN list : i = 1 \/ (i - 1 \in DOMAIN Tail(list) /\ Tail(list)[i - 1] = list[i])
    BY <1>1, <1>3, <1>6, <2>1, TailFrom
  <2>4. OpFits(o) /\ o \in BootOps
    BY <1>1, <1>3, <2>3, OpTable DEF OpsOK, OpsOf
  <2>5. MonitorFirst'
    <3>1. CASE initialized \/ op[core0] = Initialize
      BY <3>1 DEF MonitorFirst
    <3>2. CASE ~(initialized \/ op[core0] = Initialize)
      <4>1. Led(list, NeedsMonitor, Initialize)
        BY <1>3, <3>2 DEF BootGoes, MonitorFirst
      <4>2. o \notin NeedsMonitor /\ (o = Initialize \/ Led(Tail(list), NeedsMonitor, Initialize))
        BY <1>6, <2>1, <2>3, <4>1, LedTail
      <4> QED
        BY <2>2, <4>2 DEF MonitorFirst
    <3> QED
      BY <3>1, <3>2
  <2>6. VoltageFirst'
    <3>1. CASE power.volt = 8 * level.volt \/ op[core0] = BatteryVoltage
      BY <3>1 DEF VoltageFirst
    <3>2. CASE ~(power.volt = 8 * level.volt \/ op[core0] = BatteryVoltage)
      <4>1. Led(list, {DefineMode}, BatteryVoltage)
        BY <1>3, <3>2 DEF BootGoes, VoltageFirst
      <4>2. o \notin {DefineMode} /\ (o = BatteryVoltage \/ Led(Tail(list), {DefineMode}, BatteryVoltage))
        BY <1>6, <2>1, <2>3, <4>1, LedTail
      <4> QED
        BY <2>2, <4>2 DEF VoltageFirst
    <3> QED
      BY <3>1, <3>2
  <2>7. ModeDecided'
    <3>1. CASE mode = "BATTERY" \/ 8 * level.volt < BatteryThreshold
               \/ (op[core0] = DefineMode /\ pc[core0] # "next")
      BY <3>1 DEF ModeDecided
    <3>2. ASSUME NEW i \in DOMAIN list, list[i] = DefineMode PROVE ModeDecided'
      <4>1. CASE i = 1
        <5>1. op'[core0] = DefineMode
          BY <2>2, <2>3, <3>2, <4>1
        <5>2. First(o) # "next"
          BY <2>4, FirstIs
        <5> QED
          BY <2>2, <5>1, <5>2 DEF ModeDecided
      <4>2. CASE i # 1
        BY <2>2, <2>3, <3>2, <4>2 DEF ModeDecided
      <4> QED
        BY <4>1, <4>2
    <3> QED
      BY <1>3, <3>1, <3>2 DEF BootGoes, ModeDecided
  <2>8. MonitorAnswers'
    <3>1. o = BatteryVoltage => initialized'
      BY <2>2, <2>5 DEF MonitorFirst, NeedsMonitor
    <3>2. o = BatteryVoltage => ~Refused(o)
      BY <3>1, MonitorOps DEF Refused
    <3> QED
      BY <2>2, <3>2 DEF MonitorAnswers
  <2>9. IdsOK'
    <3>1. SUFFICES ASSUME o = Initialize PROVE IdsOK'
      BY <2>2 DEF IdsOK
    <3>2. ~Refused(o) /\ o.dev = "INA3221" /\ o.do = "ids" /\ o.calls # <<>>
      BY <3>1, MonitorOps, CallLists DEF Refused
    <3>3. First(o) = "lock" /\ calls'[core0] = o.calls
      BY <2>2, <3>2 DEF First
    <3>4. Len(o.calls) = 4 /\ \A j \in 1 .. 4 : o.calls[j + 1 - 1] = o.calls[j]
      BY <3>1, IdsCalls
    <3>5. IdsAt(1)'
      BY <3>1, <3>3, <3>4 DEF IdsAt
    <3> QED
      BY <2>2, <3>3, <3>5 DEF IdsOK
  <2> QED
    BY <2>5, <2>6, <2>7, <2>8, <2>9 DEF BootGoes
<1> QED
  BY <1>5, <1>6

-----------------------------------------------------------------------------
(* What most steps leave alone.                                            *)

\* A core that goes on with its operation keeps what it still has to do.
LEMMA Stay ==
    ASSUME OpsOK, FineOK, \A d \in Cores : pc'[d] = "next" <=> pc[d] = "next",
           UNCHANGED <<op, todo, launched, t_fine, rounds>>
    PROVE  OpsOK' /\ FineOK'
<1>1. \A d \in Cores : OpsOf(d)' = OpsOf(d)
  BY DEF OpsOf
<1>2. core1 \in Cores
  BY DEF Cores
<1>3. OpsOK'
  BY <1>1, <1>2 DEF OpsOK
<1>4. FineOK'
  BY DEF FineOK
<1> QED
  BY <1>3, <1>4

\* And the boot is no further.
LEMMA BootStay ==
    ASSUME BootOK, UNCHANGED <<op, todo, launched, initialized, power, mode, level, bootFaults>>,
           \A d \in Cores : pc'[d] = "next" <=> pc[d] = "next",
           ~launched => ~mixed'[core0],
           ~launched /\ faults' = 0 => faults = 0,
           BootGoes /\ ~launched /\ faults' = 0 => MonitorAnswers' /\ IdsOK'
    PROVE  BootOK'
<1>1. core0 \in Cores
  BY DEF Cores
<1>2. ASSUME ~launched, faults' = 0 PROVE BootGoes'
  <2>1. BootGoes
    BY <1>2 DEF BootOK
  <2>2. MonitorFirst'
    BY <2>1 DEF BootGoes, MonitorFirst
  <2>3. VoltageFirst'
    BY <1>1, <2>1 DEF BootGoes, VoltageFirst
  <2>4. ModeDecided'
    BY <1>1, <2>1 DEF BootGoes, ModeDecided
  <2> QED
    BY <1>2, <2>1, <2>2, <2>3, <2>4 DEF BootGoes
<1> QED
  BY <1>2 DEF BootOK

\* What is given to an idle core concerns no device.
LEMMA Given ==
    ASSUME LocksOK, TimeOK, CoresOK,
           UNCHANGED <<owner, pc, op, calls, got, bad, mixed, seen, pointer, rtc, now, level>>
    PROVE  LocksOK' /\ TimeOK' /\ CoresOK'
<1>1. LocksOK'
  BY DEF LocksOK
<1>2. TimeOK'
  BY DEF TimeOK
<1>3. ASSUME NEW c \in Cores PROVE CallsAt(c)' /\ ReadAt(c)'
  <2>1. CallsAt(c) /\ ReadAt(c)
    BY DEF CoresOK
  <2>2. CallsAt(c)'
    BY <2>1 DEF CallsAt
  <2>3. ReadAt(c)'
    BY <2>1 DEF ReadAt, Selected, Right
  <2> QED
    BY <2>2, <2>3
<1> QED
  BY <1>1, <1>2, <1>3 DEF CoresOK

LEMMA CoresAre == /\ core0 \in Cores /\ core1 \in Cores /\ core0 # core1 /\ Nobody \notin Cores
                  /\ \A c \in Cores : c = core0 \/ c = core1
  BY PeripheralsAssumption DEF Cores

\* Before the launch what is done is done by core 0.
LEMMA Alone == ASSUME OpsOK, ~launched, NEW c \in Cores, pc[c] # "next" \/ todo[c] # <<>> PROVE c = core0
  BY CoresAre DEF OpsOK

-----------------------------------------------------------------------------
(* The steps that give a core something to do.                              *)

LEMMA LaunchKeeps == ASSUME PInv, Launch PROVE PInv'
<1>1. /\ ~launched /\ pc[core0] = "next" /\ todo[core0] = <<>> /\ launched' = TRUE
      /\ bootFaults' = faults /\ todo' = [todo EXCEPT ![core1] = <<LogEvent>>]
      /\ UNCHANGED <<owner, pc, op, calls, got, bad, mixed, seen, wire, pointer, rtc, now, level>>
      /\ UNCHANGED <<power, t_fine, mode, faults, rounds>>
  BY DEF Launch, At, chips
<1>2. LocksOK' /\ TimeOK' /\ CoresOK'
  BY <1>1, Given DEF PInv
<1>3. <<LogEvent>> \in Seq(Operations)
  BY ListsOfAll DEF BootOps
<1>4. TypesOK'
  BY <1>1, <1>3 DEF PInv, TypesOK
<1>5. todo'[core1] = <<LogEvent>> /\ todo'[core0] = <<>>
  BY <1>1, CoresAre DEF PInv, TypesOK
<1>6. pc[core1] = "next" /\ op[core1] = DefineMode /\ op[core0] = DefineMode
  BY <1>1, CoresAre DEF PInv, OpsOK
<1>7. OpsOK'
  <2>1. LogEvent \in RoundOps
    BY DEF RoundOps
  <2>2. OpsOf(core1)' = RoundOps
    BY DEF OpsOf
  <2>3. \A i \in DOMAIN todo'[core1] : todo'[core1][i] \in RoundOps
    BY <1>5, <2>1
  <2>4. \A i \in DOMAIN todo'[core0] : todo'[core0][i] \in OpsOf(core0)'
    BY <1>5
  <2> QED
    BY <1>1, <1>6, <2>2, <2>3, <2>4, CoresAre DEF OpsOK
<1>8. FineOK'
  <2>1. DefineMode \notin Conversions /\ LogEvent \notin Conversions
    BY OnlyRounds DEF BootOps
  <2>2. Led(todo'[core1], Conversions, Temperature)
    BY <1>5, <2>1 DEF Led
  <2> QED
    BY <1>1, <1>6, <2>1, <2>2 DEF FineOK
<1>9. BootOK'
  <2>1. faults = 0 => ModeDecided
    BY <1>1 DEF PInv, BootOK, BootGoes
  <2>2. DOMAIN <<>> = {}
    OBVIOUS
  <2>3. PICK n : n = level.volt
    OBVIOUS
  <2>4. n \in 0 .. 4095
    <3>1. level \in [volt : Volts, draw : Draws]
      BY DEF PInv, TypesOK
    <3>2. n \in Volts
      BY <2>3, <3>1
    <3> QED
      BY <3>2, PeripheralsAssumption
  <2>5. ModeDecided => mode = "BATTERY" \/ 8 * n < BatteryThreshold
    BY <1>1, <2>2, <2>3 DEF ModeDecided
  <2>6. bootFaults' = 0 /\ 8 * n >= BatteryThreshold => mode' = "BATTERY"
    BY <1>1, <2>1, <2>4, <2>5 DEF BatteryThreshold
  <2>7. level'.volt = n
    BY <1>1, <2>3
  <2> QED
    BY <1>1, <2>6, <2>7 DEF BootOK
<1> QED
  BY <1>2, <1>4, <1>7, <1>8, <1>9 DEF PInv

LEMMA RoundKeeps == ASSUME PInv, Round PROVE PInv'
<1>1. PICK list \in Collections :
        /\ launched /\ pc[core1] = "next" /\ todo' = [todo EXCEPT ![core1] = list]
        /\ UNCHANGED <<owner, pc, op, calls, got, bad, mixed, seen, wire, pointer, rtc, now, level>>
        /\ UNCHANGED <<initialized, power, mode, launched, faults, bootFaults>>
  BY DEF Round, At, chips, drivers
<1>2. LocksOK' /\ TimeOK' /\ CoresOK'
  BY <1>1, Given DEF PInv
<1>3. list \in Seq(RoundOps) /\ Led(list, Conversions, Temperature)
  BY RoundList
<1>4. list \in Seq(Operations)
  BY <1>3, ListsOfAll
<1>5. TypesOK'
  BY <1>1, <1>4 DEF PInv, TypesOK
<1>6. todo'[core1] = list /\ todo'[core0] = todo[core0]
  BY <1>1, CoresAre DEF PInv, TypesOK
<1>7. op[core1] = DefineMode
  BY <1>1, CoresAre DEF PInv, OpsOK
<1>8. OpsOK'
  <2>1. \A c \in Cores : OpsOf(c)' = OpsOf(c)
    BY <1>1 DEF OpsOf
  <2>2. OpsOf(core1) = RoundOps
    BY DEF OpsOf
  <2>3. \A i \in DOMAIN todo'[core1] : todo'[core1][i] \in OpsOf(core1)
    BY <1>3, <1>6, <2>2
  <2> QED
    BY <1>1, <1>6, <2>1, <2>3, CoresAre DEF PInv, OpsOK
<1>9. FineOK'
  <2>1. DefineMode \notin Conversions
    BY OnlyRounds DEF BootOps
  <2> QED
    BY <1>1, <1>3, <1>6, <1>7, <2>1 DEF FineOK
<1>10. BootOK'
  BY <1>1 DEF PInv, BootOK
<1> QED
  BY <1>2, <1>5, <1>8, <1>9, <1>10 DEF PInv

LEMMA CommandKeeps == ASSUME PInv, Command PROVE PInv'
<1>1. PICK list \in Commands :
        /\ launched /\ pc[core0] = "next" /\ todo' = [todo EXCEPT ![core0] = list]
        /\ UNCHANGED <<owner, pc, op, calls, got, bad, mixed, seen, wire, pointer, rtc, now, level>>
        /\ UNCHANGED <<initialized, power, t_fine, mode, launched, faults, bootFaults, rounds>>
  BY DEF Command, At, chips, drivers
<1>2. LocksOK' /\ TimeOK' /\ CoresOK'
  BY <1>1, Given DEF PInv
<1>3. list \in Seq(CommandOps)
  BY CommandList
<1>4. list \in Seq(Operations)
  BY <1>3, ListsOfAll
<1>5. TypesOK'
  BY <1>1, <1>4 DEF PInv, TypesOK
<1>6. todo'[core0] = list /\ todo'[core1] = todo[core1]
  BY <1>1, CoresAre DEF PInv, TypesOK
<1>7. OpsOK'
  <2>1. \A c \in Cores : OpsOf(c)' = OpsOf(c)
    BY <1>1 DEF OpsOf
  <2>2. OpsOf(core0) = CommandOps
    BY <1>1, CoresAre DEF OpsOf
  <2>3. \A i \in DOMAIN todo'[core0] : todo'[core0][i] \in OpsOf(core0)
    BY <1>3, <1>6, <2>2
  <2> QED
    BY <1>1, <1>6, <2>1, <2>3, CoresAre DEF PInv, OpsOK
<1>8. FineOK'
  BY <1>1, <1>6 DEF PInv, FineOK
<1>9. BootOK'
  BY <1>1 DEF PInv, BootOK
<1> QED
  BY <1>2, <1>5, <1>7, <1>8, <1>9 DEF PInv

LEMMA EnvResetsKeeps == ASSUME PInv, EnvResets PROVE PInv'
<1>1. /\ launched /\ faults' = faults + 1
      /\ UNCHANGED <<owner, pc, op, calls, got, bad, mixed, seen, wire, pointer, rtc, now, level>>
      /\ UNCHANGED <<todo, initialized, power, t_fine, mode, launched, bootFaults, rounds>>
  BY DEF EnvResets, locals, drivers
<1>2. LocksOK' /\ TimeOK' /\ CoresOK'
  BY <1>1, Given DEF PInv
<1>3. TypesOK'
  BY <1>1 DEF PInv, TypesOK
<1>4. OpsOK' /\ FineOK'
  BY <1>1, Stay DEF PInv
<1>5. BootOK'
  BY <1>1 DEF PInv, BootOK
<1> QED
  BY <1>2, <1>3, <1>4, <1>5 DEF PInv

LEMMA StutterKeeps == ASSUME PInv, UNCHANGED vars PROVE PInv'
<1>1. /\ UNCHANGED <<owner, pc, op, calls, got, bad, mixed, seen, wire, pointer, rtc, now, level>>
      /\ UNCHANGED <<todo, initialized, power, t_fine, mode, launched, faults, bootFaults, rounds>>
  BY DEF vars, locals, chips, drivers, counters
<1>2. LocksOK' /\ TimeOK' /\ CoresOK'
  BY <1>1, Given DEF PInv
<1>3. TypesOK'
  BY <1>1 DEF PInv, TypesOK
<1>4. OpsOK' /\ FineOK'
  BY <1>1, Stay DEF PInv
<1>5. BootOK'
  <2>1. BootGoes => MonitorAnswers' /\ IdsOK'
    BY <1>1 DEF BootGoes, MonitorAnswers, IdsOK, IdsAt
  <2> QED
    BY <1>1, <2>1, BootStay DEF PInv, BootOK
<1> QED
  BY <1>2, <1>3, <1>4, <1>5 DEF PInv

-----------------------------------------------------------------------------
(* The mutexes and the messages.                                           *)

LEMMA LockEventKeeps == ASSUME PInv, NEW c \in Cores, LockEvent(c) PROVE PInv'
<1>1. /\ pc[c] = "event" /\ pc' = [pc EXCEPT ![c] = "lock"]
      /\ owner' = [owner EXCEPT !["event"] = c]
      /\ UNCHANGED <<op, calls, got, bad, mixed, seen, wire, pointer, rtc, now, level>>
      /\ UNCHANGED <<todo, initialized, power, t_fine, mode, launched, faults, bootFaults, rounds>>
  BY DEF LockEvent, At, Take, Go, Quiet, chips, drivers, counters
<1>2. TypesOK /\ OpsOK /\ LocksOK /\ TimeOK /\ CoresOK /\ FineOK /\ BootOK
  BY DEF PInv
<1>3. op[c] = LogEvent /\ got[c] = <<>> /\ OpFits(op[c])
  BY <1>1, <1>2, OpNow DEF CoresOK, CallsAt
<1>4. /\ pc'[c] = "lock" /\ \A d \in Cores : d # c => pc'[d] = pc[d]
  BY <1>1, <1>2 DEF TypesOK
<1>5. TypesOK'
  <2>1. owner' \in [Locks -> Cores \cup {Nobody}]
    BY <1>1, <1>2 DEF TypesOK
  <2>2. pc' \in [Cores -> Labels]
    BY <1>1, <1>2 DEF TypesOK, Labels
  <2>3. wire' = {d \in Cores : pc'[d] = "calling"}
    BY <1>1, <1>2, <1>4 DEF TypesOK
  <2> QED
    BY <1>1, <1>2, <2>1, <2>2, <2>3 DEF TypesOK
<1>6. OpsOK' /\ FineOK'
  BY <1>1, <1>2, <1>4, Stay
<1>7. LocksOK'
  <2>1. owner'["clock"] = owner["clock"] /\ owner'["power"] = owner["power"]
    BY <1>1, <1>2 DEF TypesOK
  <2> QED
    BY <1>1, <1>2, <1>4, <2>1 DEF LocksOK, Inside
<1>8. TimeOK'
  BY <1>1, <1>2, <1>4 DEF TimeOK
<1>9. CoresOK'
  <2>1. CallsAt(c) /\ ReadAt(c)
    BY <1>2 DEF CoresOK
  <2>2. Asks(op[c]) /\ op[c].do = "log" /\ op[c].dev = "DS3231" /\ op[c].calls # <<>>
    BY <1>3, ClockOps, ReadIs DEF Asks
  <2>3. CallsAt(c)'
    BY <1>1, <1>3, <1>4, <2>1, <2>2 DEF CallsAt, ReadAt, Main
  <2>4. ReadAt(c)'
    BY <1>1, <1>4, <2>1, <2>2 DEF ReadAt
  <2>5. ASSUME NEW d \in Cores, d # c PROVE CallsAt(d)' /\ ReadAt(d)'
    BY <1>1, <1>2, <1>4, <2>5, OpNow, OtherAt DEF CoresOK
  <2> QED
    BY <2>3, <2>4, <2>5 DEF CoresOK
<1>10. BootOK'
  <2>1. (MonitorAnswers' /\ IdsOK') \/ ~BootGoes
    <3>1. LogEvent # Initialize
      BY ClockOps, MonitorOps
    <3>2. op'[core0] = Initialize => pc'[core0] = pc[core0]
      BY <1>1, <1>3, <1>4, <3>1, CoresAre
    <3> QED
      BY <1>1, <3>2 DEF BootGoes, MonitorAnswers, IdsOK, IdsAt
  <2> QED
    BY <1>1, <1>2, <1>4, <2>1, BootStay DEF BootOK
<1> QED
  BY <1>5, <1>6, <1>7, <1>8, <1>9, <1>10 DEF PInv

LEMMA UartPrintKeeps == ASSUME PInv, NEW c \in Cores, UartPrint(c) PROVE PInv'
<1>1. /\ owner' = [owner EXCEPT !["uart"] = c]
      /\ UNCHANGED <<pc, op, calls, got, bad, mixed, seen, wire, pointer, rtc, now, level>>
      /\ UNCHANGED <<todo, initialized, power, t_fine, mode, launched, faults, bootFaults, rounds>>
  BY DEF UartPrint, PrintLock, Take, Quiet, chips, drivers, counters
<1>2. TypesOK /\ OpsOK /\ LocksOK /\ TimeOK /\ CoresOK /\ FineOK /\ BootOK
  BY DEF PInv
<1>3. TypesOK'
  <2>1. owner' \in [Locks -> Cores \cup {Nobody}]
    BY <1>1, <1>2 DEF TypesOK
  <2> QED
    BY <1>1, <1>2, <2>1 DEF TypesOK
<1>4. OpsOK' /\ FineOK'
  BY <1>1, <1>2, Stay
<1>5. LocksOK'
  <2>1. owner'["clock"] = owner["clock"] /\ owner'["power"] = owner["power"]
    BY <1>1, <1>2 DEF TypesOK
  <2> QED
    BY <1>1, <1>2, <2>1 DEF LocksOK
<1>6. TimeOK'
  BY <1>1, <1>2 DEF TimeOK
<1>7. CoresOK'
  <2>1. ASSUME NEW d \in Cores PROVE CallsAt(d)' /\ ReadAt(d)'
    BY <1>1, <1>2, OpNow, OtherAt DEF CoresOK
  <2> QED
    BY <2>1 DEF CoresOK
<1>8. BootOK'
  <2>1. BootGoes => MonitorAnswers' /\ IdsOK'
    BY <1>1 DEF BootGoes, MonitorAnswers, IdsOK, IdsAt
  <2> QED
    BY <1>1, <1>2, <2>1, BootStay DEF BootOK
<1> QED
  BY <1>3, <1>4, <1>5, <1>6, <1>7, <1>8 DEF PInv

LEMMA StartKeeps == ASSUME PInv, NEW c \in Cores, Start(c) PROVE PInv'
<1>1. /\ pc[c] = "next" /\ todo[c] # <<>> /\ Begin(c, todo[c])
      /\ UNCHANGED <<owner, got, mixed, wire, pointer, rtc, now, level>>
      /\ UNCHANGED <<initialized, power, t_fine, mode, launched, faults, bootFaults, rounds>>
  BY DEF Start, At, chips, drivers, counters
<1>2. TypesOK /\ OpsOK /\ LocksOK /\ TimeOK /\ CoresOK /\ FineOK /\ BootOK
  BY DEF PInv
<1>3. op[c] = DefineMode /\ got[c] = <<>>
  BY <1>1, <1>2 DEF OpsOK, CoresOK, CallsAt
<1>4. TypesOK' /\ OpsOK' /\ LocksOK' /\ TimeOK' /\ CoresOK'
  <2>1. got' = [d \in Cores |-> got'[d]] /\ mixed' \in [Cores -> BOOLEAN]
    BY <1>1, <1>2 DEF TypesOK
  <2>2. owner' \in [Locks -> Cores \cup {Nobody}]
    BY <1>1, <1>2 DEF TypesOK
  <2>3. DOMAIN power' = {"volt", "draw"} /\ power' = [k \in {"volt", "draw"} |-> power'[k]]
    BY <1>1, <1>2 DEF TypesOK
  <2> QED
    BY <1>1, <1>2, <1>3, <2>1, <2>2, <2>3, Turn
<1>5. DefineMode # Temperature /\ DefineMode # BatteryVoltage /\ DefineMode # Initialize
  BY MonitorOps, SensorOps DEF Temperature
<1>6. FineOK'
  BY <1>1, <1>2, <1>3, <1>5, FineTurn
<1>7. BootOK'
  <2>1. ASSUME ~launched, faults = 0 PROVE BootGoes'
    <3>1. c = core0
      BY <1>1, <1>2, <2>1, Alone
    <3>2. BootGoes /\ ~launched'
      BY <1>1, <1>2, <2>1 DEF BootOK
    <3> QED
      BY <1>1, <1>2, <1>3, <1>5, <2>1, <3>1, <3>2, BootTurn
  <2> QED
    BY <1>1, <1>2, <2>1 DEF BootOK
<1> QED
  BY <1>4, <1>6, <1>7 DEF PInv

LEMMA PrintedKeeps == ASSUME PInv, NEW c \in Cores, Printed(c) PROVE PInv'
<1>1. /\ pc[c] \in {"inner", "outer", "announce"}
      /\ owner' = [l \in Locks |-> IF l = "uart" \/ (pc[c] = "inner" /\ l = Mutex(c)) THEN Nobody ELSE owner[l]]
      /\ UNCHANGED <<got, mixed, wire, pointer, rtc, now, level>>
      /\ UNCHANGED <<initialized, power, t_fine, mode, launched, faults, bootFaults, rounds>>
      /\ IF pc[c] = "announce" THEN Begin(c, todo[c])
         ELSE /\ pc' = [pc EXCEPT ![c] = IF pc[c] = "inner" /\ op[c].dev = "DS3231" THEN "outer" ELSE "done"]
              /\ UNCHANGED <<todo, op, calls, bad, seen>>
  BY DEF Printed, Prints, PrintLock, At, Go, chips, drivers, counters
<1>2. TypesOK /\ OpsOK /\ LocksOK /\ TimeOK /\ CoresOK /\ FineOK /\ BootOK
  BY DEF PInv
<1>3. owner' \in [Locks -> Cores \cup {Nobody}]
  BY <1>1, <1>2 DEF TypesOK
<1>4. CASE pc[c] = "announce"
  <2>1. Begin(c, todo[c]) /\ op[c] = LogEvent /\ got[c] = <<>>
    BY <1>1, <1>2, <1>4 DEF CoresOK, CallsAt
  <2>2. TypesOK' /\ OpsOK' /\ LocksOK' /\ TimeOK' /\ CoresOK'
    <3>1. got' = [d \in Cores |-> got'[d]] /\ mixed' \in [Cores -> BOOLEAN]
      BY <1>1, <1>2 DEF TypesOK
    <3>2. owner'["clock"] = owner["clock"] /\ owner'["power"] = owner["power"]
      BY <1>1, <1>4 DEF Locks
    <3>3. DOMAIN power' = {"volt", "draw"} /\ power' = [k \in {"volt", "draw"} |-> power'[k]]
      BY <1>1, <1>2 DEF TypesOK
    <3> QED
      BY <1>1, <1>2, <1>3, <1>4, <2>1, <3>1, <3>2, <3>3, Turn
  <2>3. LogEvent # Temperature /\ LogEvent # BatteryVoltage /\ LogEvent # Initialize /\ LogEvent # DefineMode
    BY ClockOps, MonitorOps, SensorOps DEF Temperature
  <2>4. FineOK'
    BY <1>1, <1>2, <2>1, <2>3, FineTurn
  <2>5. BootOK'
    <3>1. ASSUME ~launched, faults = 0 PROVE BootGoes'
      <4>1. c = core0
        BY <1>2, <1>4, <3>1, Alone
      <4>2. BootGoes /\ ~launched'
        BY <1>1, <1>2, <3>1 DEF BootOK
      <4> QED
        BY <1>1, <1>2, <1>4, <2>1, <2>3, <3>1, <4>1, <4>2, BootTurn
    <3> QED
      BY <1>1, <1>2, <3>1 DEF BootOK
  <2> QED
    BY <2>2, <2>4, <2>5 DEF PInv
<1>5. CASE pc[c] # "announce"
  <2>1. /\ pc[c] \in {"inner", "outer"} /\ pc'[c] \in {"outer", "done"}
        /\ pc'[c] = "outer" => op[c].dev = "DS3231" /\ pc[c] = "inner"
        /\ pc[c] = "inner" /\ op[c].dev = "DS3231" => pc'[c] = "outer"
        /\ \A d \in Cores : d # c => pc'[d] = pc[d]
        /\ pc' \in [Cores -> Labels]
        /\ UNCHANGED <<todo, op, calls, bad, seen>>
    BY <1>1, <1>2, <1>5 DEF TypesOK, Labels
  <2>2. TypesOK'
    <3>1. wire' = {d \in Cores : pc'[d] = "calling"}
      BY <1>1, <1>2, <2>1 DEF TypesOK
    <3> QED
      BY <1>1, <1>2, <1>3, <2>1, <3>1 DEF TypesOK
  <2>3. OpsOK' /\ FineOK'
    BY <1>1, <1>2, <2>1, Stay
  <2>4. OpFits(op[c]) /\ CallsAt(c) /\ ReadAt(c)
    BY <1>2, OpNow DEF CoresOK
  <2>5. LocksOK'
    <3>1. CASE pc[c] = "outer"
      <4>1. owner'["clock"] = owner["clock"] /\ owner'["power"] = owner["power"]
        BY <1>1, <3>1 DEF Locks
      <4> QED
        BY <1>2, <2>1, <3>1, <4>1 DEF LocksOK, Inside
    <3>2. CASE pc[c] = "inner"
      <4>1. op[c].dev \in Main
        BY <2>4, <3>2, MonitorOps DEF CallsAt, Main
      <4>2. CASE op[c].dev = "DS3231"
        <5>1. owner'["clock"] = Nobody /\ owner'["power"] = owner["power"] /\ owner["clock"] = c
          BY <1>1, <1>2, <3>2, <4>2 DEF Locks, Mutex, LocksOK, Inside
        <5> QED
          BY <1>2, <2>1, <3>2, <4>2, <5>1, CoresAre DEF LocksOK, Inside
      <4>3. CASE op[c].dev = "INA3221"
        <5>1. owner'["power"] = Nobody /\ owner'["clock"] = owner["clock"] /\ owner["power"] = c
          BY <1>1, <1>2, <3>2, <4>3 DEF Locks, Mutex, LocksOK, Inside
        <5> QED
          BY <1>2, <2>1, <3>2, <4>3, <5>1, CoresAre DEF LocksOK, Inside
      <4> QED
        BY <4>1, <4>2, <4>3 DEF Main
    <3> QED
      BY <2>1, <3>1, <3>2
  <2>6. TimeOK'
    BY <1>1, <1>2, <2>1 DEF TimeOK
  <2>7. CoresOK'
    <3>1. CallsAt(c)'
      BY <1>1, <2>1, <2>4 DEF CallsAt
    <3>2. ASSUME Asks(op[c]) PROVE ReadAt(c)'
      <4>1. bad[c]
        BY <2>1, <2>4, <3>2 DEF ReadAt
      <4>2. op[c].do # "power"
        BY <2>1, <2>4, <3>2, MonitorOps DEF CallsAt, OpFits, Asks
      <4> QED
        BY <1>1, <2>1, <4>1, <4>2 DEF ReadAt
    <3>3. ReadAt(c)'
      BY <2>1, <3>2 DEF ReadAt
    <3>4. ASSUME NEW d \in Cores, d # c PROVE CallsAt(d)' /\ ReadAt(d)'
      BY <1>1, <1>2, <2>1, <3>4, OpNow, OtherAt DEF CoresOK
    <3> QED
      BY <3>1, <3>3, <3>4 DEF CoresOK
  <2>8. BootOK'
    <3>1. ASSUME BootGoes, ~launched, faults = 0 PROVE MonitorAnswers' /\ IdsOK'
      <4>1. c = core0
        BY <1>2, <2>1, <3>1, Alone
      <4>2. op[core0] = Initialize => pc[core0] = "inner"
        BY <2>1, <2>4, <4>1, MonitorOps DEF CallsAt
      <4>3. op[core0] = Initialize => pc'[core0] = "done" /\ IdsAt(5)
        BY <2>1, <3>1, <4>1, <4>2, MonitorOps DEF BootGoes, IdsOK
      <4>4. IdsAt(5) => IdsAt(5)'
        BY <1>1, <2>1 DEF IdsAt
      <4> QED
        BY <2>1, <3>1, <4>3, <4>4 DEF BootGoes, MonitorAnswers, IdsOK
    <3> QED
      BY <1>1, <1>2, <2>1, <3>1, BootStay DEF BootOK
  <2> QED
    BY <2>2, <2>3, <2>5, <2>6, <2>7, <2>8 DEF PInv
<1> QED
  BY <1>4, <1>5

-----------------------------------------------------------------------------
(* The calls.                                                              *)

LEMMA CallBeginKeeps == ASSUME PInv, NEW c \in Cores, CallBegin(c) PROVE PInv'
<1>1. /\ \/ /\ pc[c] = "lock" /\ owner[Mutex(c)] = Nobody /\ owner' = [owner EXCEPT ![Mutex(c)] = c]
         \/ pc[c] = "call" /\ op[c].dev \in Main /\ owner' = owner
      /\ wire' = wire \cup {c} /\ pc' = [pc EXCEPT ![c] = "calling"]
      /\ mixed' = [d \in Cores |-> mixed[d] \/ (wire # {} /\ d \in wire')]
      /\ UNCHANGED <<op, calls, got, bad, seen, pointer, rtc, now, level>>
      /\ UNCHANGED <<todo, initialized, power, t_fine, mode, launched, faults, bootFaults, rounds>>
  BY DEF CallBegin, Lock, NextCall, OnMain, DeviceFree, At, Take, Go, Main, chips, drivers, counters
<1>2. TypesOK /\ OpsOK /\ LocksOK /\ TimeOK /\ CoresOK /\ FineOK /\ BootOK
  BY DEF PInv
<1>3. CallsAt(c) /\ ReadAt(c) /\ OpFits(op[c])
  BY <1>2, OpNow DEF CoresOK
<1>4. pc[c] \in {"lock", "call"} /\ op[c].dev \in Main
  BY <1>1, <1>3 DEF CallsAt
<1>5. pc'[c] = "calling" /\ \A d \in Cores : d # c => pc'[d] = pc[d]
  BY <1>1, <1>2 DEF TypesOK
<1>6. Mutex(c) = (IF op[c].dev = "DS3231" THEN "clock" ELSE "power") /\ Mutex(c) \in Locks
  BY DEF Mutex, Locks
<1>7. mixed' \in [Cores -> BOOLEAN] /\ \A d \in Cores : mixed[d] => mixed'[d]
  BY <1>1, <1>2 DEF TypesOK
<1>8. TypesOK'
  <2>1. owner' \in [Locks -> Cores \cup {Nobody}]
    BY <1>1, <1>2, <1>6 DEF TypesOK
  <2>2. pc' \in [Cores -> Labels]
    BY <1>1, <1>2 DEF TypesOK, Labels
  <2>3. wire' = {d \in Cores : pc'[d] = "calling"}
    BY <1>1, <1>2, <1>5 DEF TypesOK
  <2> QED
    BY <1>1, <1>2, <1>7, <2>1, <2>2, <2>3 DEF TypesOK
<1>9. OpsOK' /\ FineOK'
  BY <1>1, <1>2, <1>4, <1>5, Stay
<1>10. LocksOK'
  <2>1. CASE owner' = owner /\ pc[c] = "call"
    BY <1>1, <1>2, <1>5, <2>1 DEF LocksOK, Inside
  <2>2. CASE owner[Mutex(c)] = Nobody /\ owner' = [owner EXCEPT ![Mutex(c)] = c] /\ pc[c] = "lock"
    <3>1. CASE op[c].dev = "DS3231"
      <4>1. owner["clock"] = Nobody /\ owner'["clock"] = c /\ owner'["power"] = owner["power"]
        BY <1>2, <1>6, <2>2, <3>1 DEF TypesOK, Locks
      <4> QED
        BY <1>1, <1>2, <1>5, <2>2, <3>1, <4>1, CoresAre DEF LocksOK, Inside
    <3>2. CASE op[c].dev = "INA3221"
      <4>1. owner["power"] = Nobody /\ owner'["power"] = c /\ owner'["clock"] = owner["clock"]
        BY <1>2, <1>6, <2>2, <3>2 DEF TypesOK, Locks
      <4> QED
        BY <1>1, <1>2, <1>5, <2>2, <3>2, <4>1, CoresAre DEF LocksOK, Inside
    <3> QED
      BY <1>4, <3>1, <3>2 DEF Main
  <2> QED
    BY <1>1, <2>1, <2>2
<1>11. TimeOK'
  BY <1>1, <1>2, <1>4, <1>5 DEF TimeOK
<1>12. CoresOK'
  <2>1. CallsAt(c)'
    BY <1>1, <1>3, <1>4, <1>5 DEF CallsAt
  <2>2. ASSUME Asks(op[c]) PROVE ReadAt(c)'
    <3>1. got[c] = <<>> /\ ~bad[c] /\ (calls[c] = op[c].calls \/ Selected(c))
      BY <1>3, <1>4, <2>2 DEF CallsAt, ReadAt
    <3>2. Selected(c) => Selected(c)'
      BY <1>1 DEF Selected
    <3> QED
      BY <1>1, <1>5, <3>1, <3>2 DEF ReadAt
  <2>3. ReadAt(c)'
    BY <1>1, <2>2 DEF ReadAt
  <2>4. ASSUME NEW d \in Cores, d # c PROVE CallsAt(d)' /\ ReadAt(d)'
    BY <1>1, <1>2, <1>5, <1>7, <2>4, OpNow, OtherAt DEF CoresOK
  <2> QED
    BY <2>1, <2>3, <2>4 DEF CoresOK
<1>13. BootOK'
  <2>1. ASSUME ~launched PROVE c = core0
    BY <1>2, <1>4, <2>1, Alone
  <2>2. ASSUME ~launched PROVE ~mixed'[core0]
    <3>1. c = core0 /\ pc[core1] = "next" /\ ~mixed[core0]
      BY <1>2, <2>1, <2>2 DEF OpsOK, BootOK
    <3>2. wire = {}
      BY <1>2, <1>4, <3>1, CoresAre DEF TypesOK
    <3> QED
      BY <1>1, <3>1, <3>2
  <2>3. ASSUME BootGoes, ~launched, faults = 0 PROVE MonitorAnswers' /\ IdsOK'
    <3>1. ASSUME op[core0] = Initialize PROVE \E k \in 1 .. 4 : IdsAt(k)
      <4>1. pc[core0] = "lock" \/ pc[core0] = "call"
        BY <1>4, <2>1, <2>3
      <4> QED
        BY <2>3, <3>1, <4>1 DEF BootGoes, IdsOK
    <3>2. \A k \in 1 .. 5 : IdsAt(k) => IdsAt(k)'
      BY <1>1 DEF IdsAt
    <3> QED
      BY <1>1, <1>5, <2>1, <2>3, <3>1, <3>2 DEF BootGoes, MonitorAnswers, IdsOK
  <2> QED
    BY <1>1, <1>2, <1>4, <1>5, <2>2, <2>3, BootStay DEF BootOK
<1> QED
  BY <1>8, <1>9, <1>10, <1>11, <1>12, <1>13 DEF PInv

\* After a call that ends, the rest of the list.
LEMMA CallsTail ==
    ASSUME NEW S, NEW list \in Seq(S), list # <<>>
    PROVE  /\ Head(list) \in S /\ Head(list) = list[1]
           /\ Tail(list) \in Seq(S) /\ Len(Tail(list)) = Len(list) - 1
           /\ \A i \in 1 .. (Len(list) - 1) : Tail(list)[i] = list[i + 1]
           /\ Complete(list) => Complete(Tail(list))
           /\ Complete(list) /\ Head(list).call = "select" => Tail(list) # <<>>
<1>1. /\ Head(list) \in S /\ Head(list) = list[1]
      /\ Tail(list) \in Seq(S) /\ Len(Tail(list)) = Len(list) - 1
      /\ \A i \in 1 .. (Len(list) - 1) : Tail(list)[i] = list[i + 1]
  OBVIOUS
<1>2. DOMAIN list = 1 .. Len(list) /\ Len(list) \in Nat \ {0} /\ DOMAIN Tail(list) = 1 .. (Len(list) - 1)
  OBVIOUS
<1>3. ASSUME Complete(list) PROVE Complete(Tail(list))
  <2>1. SUFFICES ASSUME NEW i \in 1 .. (Len(list) - 1), Tail(list)[i].call = "select"
                 PROVE  i + 1 \in 1 .. (Len(list) - 1)
    BY <1>2 DEF Complete
  <2>2. i + 1 \in DOMAIN list /\ list[i + 1].call = "select"
    BY <1>1, <1>2, <2>1
  <2>3. (i + 1) + 1 \in DOMAIN list
    BY <1>3, <2>2 DEF Complete
  <2> QED
    BY <1>2, <2>3
<1>4. ASSUME Complete(list), Head(list).call = "select" PROVE Tail(list) # <<>>
  <2>1. 1 + 1 \in DOMAIN list
    BY <1>1, <1>2, <1>4 DEF Complete
  <2>2. PICK t : t = Tail(list)
    OBVIOUS
  <2>3. t \in Seq(S) /\ Len(t) >= 1
    BY <1>1, <1>2, <2>1, <2>2
  <2>4. t # <<>>
    BY <2>3
  <2> QED
    BY <2>2, <2>4
<1> QED
  BY <1>1, <1>3, <1>4

\* Where a core is behind a call, and which mutexes it has then.
LEMMA EndFrame ==
    ASSUME TypesOK, OpsOK, LocksOK, FineOK, CoresOK, NEW c \in Cores,
           pc[c] = (IF OnMain(c) THEN "calling" ELSE "call"), wire' = wire \ {c},
           pc' = [pc EXCEPT ![c] = IF calls'[c] # <<>> THEN "call"
                                   ELSE IF OnMain(c) /\ Reports(c) THEN "inner" ELSE "done"],
           owner' = IF pc'[c] = "done" /\ OnMain(c) THEN [owner EXCEPT ![Mutex(c)] = Nobody] ELSE owner,
           UNCHANGED <<todo, op, launched, t_fine, rounds>>
    PROVE  /\ pc'[c] \in {"call", "inner", "done"} /\ pc[c] \in {"call", "calling"}
           /\ pc'[c] = "call" <=> calls'[c] # <<>>
           /\ pc'[c] = "inner" => OnMain(c) /\ Reports(c)
           /\ calls'[c] = <<>> /\ OnMain(c) /\ Reports(c) => pc'[c] = "inner"
           /\ \A d \in Cores : d # c => pc'[d] = pc[d]
           /\ pc' \in [Cores -> Labels] /\ wire' = {d \in Cores : pc'[d] = "calling"}
           /\ owner' \in [Locks -> Cores \cup {Nobody}]
           /\ OpsOK' /\ FineOK' /\ LocksOK'
<1>1. /\ pc'[c] = (IF calls'[c] # <<>> THEN "call"
                   ELSE IF OnMain(c) /\ Reports(c) THEN "inner" ELSE "done")
      /\ \A d \in Cores : d # c => pc'[d] = pc[d]
  BY DEF TypesOK
<1>2. pc' \in [Cores -> Labels]
  BY DEF TypesOK, Labels
<1>3. wire' = {d \in Cores : pc'[d] = "calling"}
  BY <1>1 DEF TypesOK
<1>4. owner' \in [Locks -> Cores \cup {Nobody}]
  BY DEF TypesOK
<1>5. OpsOK' /\ FineOK'
  BY <1>1, Stay
<1>6. LocksOK'
  <2>1. CASE ~OnMain(c)
    <3>1. op[c].dev # "DS3231" /\ op[c].dev # "INA3221" /\ owner' = owner
      BY <2>1 DEF OnMain
    <3> QED
      BY <1>1, <3>1 DEF LocksOK
  <2>2. CASE OnMain(c) /\ pc'[c] # "done"
    <3>1. owner' = owner /\ pc[c] = "calling" /\ pc'[c] \in {"call", "inner"}
      BY <1>1, <2>2
    <3> QED
      BY <1>1, <3>1 DEF LocksOK, Inside
  <2>3. CASE OnMain(c) /\ pc'[c] = "done"
    <3>1. owner' = [owner EXCEPT ![Mutex(c)] = Nobody] /\ pc[c] = "calling"
      BY <2>3
    <3>2. CASE op[c].dev = "DS3231"
      <4>1. owner["clock"] = c /\ owner'["clock"] = Nobody /\ owner'["power"] = owner["power"]
        BY <3>1, <3>2 DEF Mutex, TypesOK, Locks, LocksOK, Inside
      <4> QED
        BY <1>1, <2>3, <3>1, <3>2, <4>1, CoresAre DEF LocksOK, Inside
    <3>3. CASE op[c].dev = "INA3221"
      <4>1. owner["power"] = c /\ owner'["power"] = Nobody /\ owner'["clock"] = owner["clock"]
        BY <3>1, <3>3 DEF Mutex, TypesOK, Locks, LocksOK, Inside
      <4> QED
        BY <1>1, <2>3, <3>1, <3>3, <4>1, CoresAre DEF LocksOK, Inside
    <3> QED
      BY <2>3, <3>2, <3>3 DEF OnMain
  <2> QED
    BY <2>1, <2>2, <2>3
<1> QED
  BY <1>1, <1>2, <1>3, <1>4, <1>5, <1>6

\* Two cores are never both between the calls of an operation on one device.
LEMMA Apart ==
    ASSUME LocksOK, NEW c \in Cores, NEW d \in Cores, d # c,
           pc[c] \in {"call", "calling"}, pc[d] \in {"call", "calling"}, op[c].dev \in Main
    PROVE  op[d].dev # op[c].dev
  BY DEF LocksOK, Inside, Main

\* A call that fails leaves the device's register unread, and the operation knows.
LEMMA FailsKeeps ==
    ASSUME PInv, NEW c \in Cores, Fails(c),
           pc[c] = (IF OnMain(c) THEN "calling" ELSE "call"), wire' = wire \ {c},
           pc' = [pc EXCEPT ![c] = IF calls'[c] # <<>> THEN "call"
                                   ELSE IF OnMain(c) /\ Reports(c) THEN "inner" ELSE "done"],
           owner' = IF pc'[c] = "done" /\ OnMain(c) THEN [owner EXCEPT ![Mutex(c)] = Nobody] ELSE owner,
           UNCHANGED <<todo, op, mixed, level, drivers, bootFaults, rounds, commands>>
    PROVE  PInv'
<1>1. /\ mixed[c] \/ faults < MaxFaults
      /\ faults' = IF mixed[c] THEN faults ELSE faults + 1
      /\ bad' = [bad EXCEPT ![c] = TRUE]
      /\ calls' = [calls EXCEPT ![c] =
                      IF op[c].dev \in {"DS3231", "BME280"} THEN <<>>
                      ELSE IF Head(calls[c]).call = "select" THEN Tail(Tail(calls[c])) ELSE Tail(calls[c])]
      /\ got' = [got EXCEPT ![c] = IF Head(calls[c]).call = "put" THEN got[c] ELSE Append(got[c], Nothing)]
      /\ UNCHANGED <<seen, pointer, rtc, now>>
  BY DEF Fails, chips
<1>2. UNCHANGED <<todo, op, mixed, level, initialized, power, t_fine, mode, launched, bootFaults, rounds>>
  BY DEF drivers
<1>3. TypesOK /\ OpsOK /\ LocksOK /\ TimeOK /\ CoresOK /\ FineOK /\ BootOK
  BY DEF PInv
<1>4. CallsAt(c) /\ ReadAt(c) /\ OpFits(op[c])
  BY <1>3, OpNow DEF CoresOK
<1>5. /\ pc'[c] \in {"call", "inner", "done"} /\ pc[c] \in {"call", "calling"}
      /\ pc'[c] = "call" <=> calls'[c] # <<>>
      /\ pc'[c] = "inner" => OnMain(c) /\ Reports(c)
      /\ calls'[c] = <<>> /\ OnMain(c) /\ Reports(c) => pc'[c] = "inner"
      /\ \A d \in Cores : d # c => pc'[d] = pc[d]
      /\ pc' \in [Cores -> Labels] /\ wire' = {d \in Cores : pc'[d] = "calling"}
      /\ owner' \in [Locks -> Cores \cup {Nobody}]
      /\ OpsOK' /\ FineOK' /\ LocksOK'
  BY <1>2, <1>3, EndFrame
<1>6. calls[c] \in Seq(Accesses) /\ calls[c] # <<>>
  BY <1>3, <1>4, <1>5 DEF TypesOK, CallsAt
<1>7. /\ calls'[c] = (IF op[c].dev \in {"DS3231", "BME280"} THEN <<>>
                      ELSE IF Head(calls[c]).call = "select" THEN Tail(Tail(calls[c])) ELSE Tail(calls[c]))
      /\ bad'[c] = TRUE
      /\ got'[c] = (IF Head(calls[c]).call = "put" THEN got[c] ELSE Append(got[c], Nothing))
      /\ \A d \in Cores : d # c => calls'[d] = calls[d] /\ bad'[d] = bad[d] /\ got'[d] = got[d]
  BY <1>1, <1>3 DEF TypesOK
<1>8. /\ calls'[c] \in Seq(Accesses)
      /\ op[c].dev # "DS3231" => calls'[c] \in Seq(Others)
      /\ op[c].dev \notin {"DS3231", "BME280"} => Complete(calls'[c])
  <2>1. CASE op[c].dev \in {"DS3231", "BME280"}
    <3>1. <<>> \in Seq(Accesses) /\ <<>> \in Seq(Others)
      OBVIOUS
    <3> QED
      BY <1>7, <2>1, <3>1
  <2>2. CASE op[c].dev \notin {"DS3231", "BME280"}
    <3>1. PICK s : s = calls[c]
      OBVIOUS
    <3>2. s \in Seq(Others) /\ s # <<>> /\ Complete(s)
      BY <1>4, <1>5, <1>6, <2>2, <3>1 DEF CallsAt
    <3>3. /\ Tail(s) \in Seq(Others) /\ Complete(Tail(s))
          /\ Head(s).call = "select" => Tail(s) # <<>>
      BY <3>2, CallsTail
    <3>4. Tail(s) # <<>> => Tail(Tail(s)) \in Seq(Others) /\ Complete(Tail(Tail(s)))
      BY <3>3, CallsTail
    <3>5. calls'[c] \in Seq(Others) /\ Complete(calls'[c])
      BY <1>7, <2>2, <3>1, <3>3, <3>4
    <3>6. Others \subseteq Accesses
      BY DEF Others, Accesses
    <3> QED
      BY <2>2, <3>5, <3>6
  <2> QED
    BY <2>1, <2>2
<1>9. TypesOK'
  <2>0. UNCHANGED <<seen, pointer>>
    BY <1>1
  <2>1. calls' \in [Cores -> Seq(Accesses)]
    BY <1>1, <1>3, <1>7, <1>8 DEF TypesOK
  <2>2. bad' \in [Cores -> BOOLEAN] /\ faults' \in Nat
    BY <1>1, <1>3 DEF TypesOK
  <2>3. DOMAIN got' = Cores /\ got' = [d \in Cores |-> got'[d]]
    BY <1>1, <1>3 DEF TypesOK
  <2> QED
    BY <1>2, <1>3, <1>5, <2>0, <2>1, <2>2, <2>3 DEF TypesOK
<1>10. TimeOK'
  BY <1>1, <1>3, <1>5 DEF TimeOK
<1>11. CallsAt(c)'
  <2>1. op[c].do = "set" => calls'[c] = <<>>
    BY <1>4, <1>7 DEF OpFits
  <2>2. pc'[c] = "inner" => op[c] = Initialize \/ op[c].dev = "DS3231"
    BY <1>4, <1>5 DEF Reports, OpFits
  <2> QED
    BY <1>2, <1>5, <1>8, <2>1, <2>2 DEF CallsAt
<1>12. ASSUME Asks(op[c]) PROVE ReadAt(c)'
  <2>1. op[c].dev \in Main /\ OnMain(c) /\ op[c].calls = Read(Reg(op[c]))
    BY <1>4, <1>12 DEF OpFits, Asks, Main, OnMain
  <2>2. got[c] = <<>> /\ (calls[c] = Read(Reg(op[c])) \/ calls[c] = Tail(Read(Reg(op[c]))))
    BY <1>4, <1>12, <2>1 DEF ReadAt, Selected
  <2>3. CASE op[c].dev = "DS3231"
    <3>1. calls'[c] = <<>> /\ Reports(c)
      BY <1>7, <2>3 DEF Reports
    <3>2. pc'[c] = "inner"
      BY <1>5, <2>1, <3>1
    <3> QED
      BY <1>7, <3>2 DEF ReadAt
  <2>4. CASE op[c].dev = "INA3221"
    <3>1. PICK r : r = Reg(op[c])
      OBVIOUS
    <3>2. /\ Head(Read(r)) = [call |-> "select", reg |-> r]
          /\ Head(Tail(Read(r))) = [call |-> "get", reg |-> r]
          /\ Tail(Tail(Read(r))) = <<>>
      BY ReadIs
    <3>3. calls'[c] = <<>> /\ Head(calls[c]).call # "put"
      <4>1. CASE calls[c] = Read(r)
        <5>1. Head(calls[c]) = [call |-> "select", reg |-> r] /\ Tail(Tail(calls[c])) = <<>>
          BY <3>2, <4>1, Zenon
        <5> QED
          BY <1>7, <2>4, <5>1
      <4>2. CASE calls[c] = Tail(Read(r))
        <5>1. Head(calls[c]) = [call |-> "get", reg |-> r] /\ Tail(calls[c]) = <<>>
          BY <3>2, <4>2, Zenon
        <5> QED
          BY <1>7, <2>4, <5>1
      <4> QED
        BY <2>2, <3>1, <4>1, <4>2
    <3>4. ~Reports(c)
      BY <1>12, <2>4 DEF Reports, Asks
    <3>5. pc'[c] = "done"
      BY <1>5, <3>3, <3>4
    <3>6. got'[c] = <<Nothing>>
      BY <1>7, <2>2, <3>3
    <3> QED
      BY <1>7, <3>5, <3>6 DEF ReadAt
  <2> QED
    BY <2>1, <2>3, <2>4 DEF Main
<1>13. CoresOK'
  <2>1. ReadAt(c)'
    BY <1>2, <1>12 DEF ReadAt
  <2>2. ASSUME NEW d \in Cores, d # c PROVE CallsAt(d)' /\ ReadAt(d)'
    BY <1>1, <1>2, <1>3, <1>5, <1>7, <2>2, OpNow, OtherAt DEF CoresOK
  <2> QED
    BY <1>11, <2>1, <2>2 DEF CoresOK
<1>14. BootOK'
  <2>1. ASSUME ~launched PROVE ~mixed[core0] /\ faults' # 0
    <3>1. c = core0
      BY <1>3, <1>5, <2>1, Alone
    <3>2. ~mixed[core0]
      BY <1>3, <2>1 DEF BootOK
    <3>3. faults' = faults + 1 /\ faults \in Nat
      BY <1>1, <1>3, <3>1, <3>2 DEF TypesOK
    <3> QED
      BY <3>2, <3>3
  <2> QED
    BY <1>2, <1>3, <2>1 DEF BootOK
<1> QED
  BY <1>3, <1>5, <1>9, <1>10, <1>13, <1>14 DEF PInv

\* A call that works moves the chip's pointer, reads what it is at, or sets a register.
LEMMA DoneKeeps ==
    ASSUME PInv, NEW c \in Cores, Done(c),
           pc[c] = (IF OnMain(c) THEN "calling" ELSE "call"), wire' = wire \ {c},
           pc' = [pc EXCEPT ![c] = IF calls'[c] # <<>> THEN "call"
                                   ELSE IF OnMain(c) /\ Reports(c) THEN "inner" ELSE "done"],
           owner' = IF pc'[c] = "done" /\ OnMain(c) THEN [owner EXCEPT ![Mutex(c)] = Nobody] ELSE owner,
           UNCHANGED <<todo, op, mixed, level, drivers, bootFaults, rounds, commands>>
    PROVE  PInv'
<1>1. PICK call : call = Head(calls[c])
  OBVIOUS
<1>2. /\ pointer' = (IF call.call = "get" \/ op[c].dev = "BH1750" THEN pointer
                     ELSE [pointer EXCEPT ![op[c].dev] = call.reg])
      /\ IF call.call = "get"
           THEN \E v \in {Contents(IF op[c].dev = "BH1750" THEN "light" ELSE pointer[op[c].dev])}
                         \cup (IF mixed[c] THEN {Garbage} ELSE {}) :
                    got' = [got EXCEPT ![c] = Append(got[c], v)]
           ELSE got' = got
      /\ IF call = [call |-> "put", reg |-> "time"]
           THEN /\ rtc' = TimeRegisters(op[c].data) /\ now' = Known(op[c].data)
                /\ seen' = [d \in Cores |-> IF pc[d] = "next" THEN {} ELSE seen[d] \cup {now'}]
           ELSE UNCHANGED <<rtc, now, seen>>
      /\ calls' = [calls EXCEPT ![c] = Tail(calls[c])]
      /\ UNCHANGED <<bad, faults>>
  BY <1>1 DEF Done, At
<1>3. UNCHANGED <<todo, op, mixed, level, initialized, power, t_fine, mode, launched, bootFaults, rounds>>
  BY DEF drivers
<1>4. TypesOK /\ OpsOK /\ LocksOK /\ TimeOK /\ CoresOK /\ FineOK /\ BootOK
  BY DEF PInv
<1>5. CallsAt(c) /\ ReadAt(c) /\ OpFits(op[c])
  BY <1>4, OpNow DEF CoresOK
<1>6. /\ pc'[c] \in {"call", "inner", "done"} /\ pc[c] \in {"call", "calling"}
      /\ pc'[c] = "call" <=> calls'[c] # <<>>
      /\ pc'[c] = "inner" => OnMain(c) /\ Reports(c)
      /\ calls'[c] = <<>> /\ OnMain(c) /\ Reports(c) => pc'[c] = "inner"
      /\ \A d \in Cores : d # c => pc'[d] = pc[d]
      /\ pc' \in [Cores -> Labels] /\ wire' = {d \in Cores : pc'[d] = "calling"}
      /\ owner' \in [Locks -> Cores \cup {Nobody}]
      /\ OpsOK' /\ FineOK' /\ LocksOK'
  BY <1>3, <1>4, EndFrame
<1>7. calls[c] \in Seq(Accesses) /\ calls[c] # <<>>
  BY <1>4, <1>5, <1>6 DEF TypesOK, CallsAt
<1>8. /\ calls'[c] = Tail(calls[c])
      /\ \A d \in Cores : d # c => calls'[d] = calls[d] /\ got'[d] = got[d]
  BY <1>2, <1>4 DEF TypesOK
<1>9. /\ calls'[c] \in Seq(Accesses)
      /\ op[c].dev # "DS3231" => calls'[c] \in Seq(Others) /\ call \in Others
      /\ op[c].dev \notin {"DS3231", "BME280"} => Complete(calls'[c])
  <2>1. PICK s : s = calls[c]
    OBVIOUS
  <2>2. Tail(s) \in Seq(Accesses)
    BY <1>7, <2>1
  <2>3. s \in Seq(Others) /\ s # <<>> => Tail(s) \in Seq(Others) /\ Head(s) \in Others
    BY CallsTail
  <2>4. Complete(s) => Complete(Tail(s))
    BY <1>7, <2>1, CallsTail
  <2>5. /\ op[c].dev # "DS3231" => s \in Seq(Others)
        /\ op[c].dev \notin {"DS3231", "BME280"} => Complete(s)
    BY <1>5, <1>6, <2>1 DEF CallsAt
  <2>6. calls'[c] = Tail(s) /\ call = Head(s) /\ s # <<>>
    BY <1>1, <1>7, <1>8, <2>1
  <2> QED
    BY <2>2, <2>3, <2>4, <2>5, <2>6
<1>10. TypesOK'
  <2>1. calls' \in [Cores -> Seq(Accesses)]
    BY <1>2, <1>4, <1>8, <1>9 DEF TypesOK
  <2>2. DOMAIN got' = Cores /\ got' = [d \in Cores |-> got'[d]]
    BY <1>2, <1>4 DEF TypesOK
  <2>3. DOMAIN seen' = Cores /\ seen' = [d \in Cores |-> seen'[d]]
    BY <1>2, <1>4 DEF TypesOK
  <2>4. DOMAIN pointer' = Chips /\ pointer' = [d \in Chips |-> pointer'[d]]
    BY <1>2, <1>4 DEF TypesOK
  <2>5. UNCHANGED <<bad, faults>>
    BY <1>2
  <2> QED
    BY <1>3, <1>4, <1>6, <2>1, <2>2, <2>3, <2>4, <2>5 DEF TypesOK
<1>11. ASSUME call = [call |-> "put", reg |-> "time"] PROVE op[c].data \in Times
  <2>1. op[c].dev = "DS3231"
    BY <1>9, <1>11 DEF Others, Registers
  <2>2. ~Asks(op[c])
    <3>1. SUFFICES ASSUME Asks(op[c]) PROVE FALSE
      OBVIOUS
    <3>2. PICK r : r = Reg(op[c])
      OBVIOUS
    <3>3. op[c].calls = Read(r) /\ op[c].dev \in Main
      BY <1>5, <3>1, <3>2 DEF OpFits, Asks, Main
    <3>4. calls[c] = Read(r) \/ calls[c] = Tail(Read(r))
      BY <1>5, <1>6, <3>1, <3>3 DEF ReadAt, Selected
    <3>5. call = [call |-> "select", reg |-> r] \/ call = [call |-> "get", reg |-> r]
      <4>1. /\ Head(Read(r)) = [call |-> "select", reg |-> r]
            /\ Head(Tail(Read(r))) = [call |-> "get", reg |-> r]
        BY ReadIs
      <4> QED
        BY <1>1, <3>4, <4>1, Zenon
    <3> QED
      BY <1>11, <3>5
  <2> QED
    BY <1>5, <2>1, <2>2 DEF OpFits, Asks
<1>12. \A d \in Cores : pc[d] # "next" => seen[d] \subseteq seen'[d]
  BY <1>2, <1>4 DEF TypesOK
<1>13. TimeOK'
  <2>1. \A d \in Cores : pc'[d] = "next" <=> pc[d] = "next"
    BY <1>6
  <2>2. CASE call = [call |-> "put", reg |-> "time"]
    <3>1. rtc' = TimeRegisters(op[c].data) /\ now' = Known(op[c].data)
      BY <1>2, <2>2
    <3>2. TimeOf(rtc') = now'
      BY <1>11, <2>2, <3>1, TimeReadsBack
    <3>3. \A d \in Cores : pc[d] # "next" => now' \in seen'[d]
      BY <1>2, <2>2
    <3> QED
      BY <2>1, <3>2, <3>3 DEF TimeOK
  <2>3. CASE call # [call |-> "put", reg |-> "time"]
    <3>1. UNCHANGED <<rtc, now, seen>>
      BY <1>2, <2>3
    <3> QED
      BY <1>4, <2>1, <3>1 DEF TimeOK
  <2> QED
    BY <2>2, <2>3
<1>14. CallsAt(c)'
  <2>1. op[c].do = "set" => calls'[c] = <<>>
    <3>1. Tail(Write("time")) = <<>>
      BY ReadIs
    <3>2. op[c].do = "set" => pc[c] = "calling" /\ calls[c] = Write("time")
      BY <1>5, <1>6 DEF CallsAt
    <3> QED
      BY <1>8, <3>1, <3>2
  <2>2. pc'[c] = "inner" => op[c] = Initialize \/ op[c].dev = "DS3231"
    BY <1>5, <1>6 DEF Reports, OpFits
  <2> QED
    BY <1>3, <1>6, <1>9, <2>1, <2>2 DEF CallsAt
<1>15. ASSUME Asks(op[c]) PROVE ReadAt(c)'
  <2>1. PICK r : r = Reg(op[c])
    OBVIOUS
  <2>2. op[c].dev \in Main /\ OnMain(c) /\ op[c].calls = Read(r) /\ op[c].dev \in Chips
    BY <1>5, <1>15, <2>1 DEF OpFits, Asks, Main, OnMain, Chips
  <2>3. got[c] = <<>> /\ ~bad[c] /\ (calls[c] = Read(r) \/ Selected(c)) /\ pc[c] = "calling"
    BY <1>5, <1>15, <2>2 DEF ReadAt
  <2>4. /\ Head(Read(r)) = [call |-> "select", reg |-> r]
        /\ Head(Tail(Read(r))) = [call |-> "get", reg |-> r]
        /\ Tail(Tail(Read(r))) = <<>>
        /\ Tail(Read(r)) = <<[call |-> "get", reg |-> r]>>
    BY ReadIs
  <2>5. CASE calls[c] = Read(r)
    <3>1. call = [call |-> "select", reg |-> r]
      BY <1>1, <2>4, <2>5, Zenon
    <3>2. pointer' = [pointer EXCEPT ![op[c].dev] = r] /\ got' = got /\ bad' = bad
      BY <1>2, <2>2, <3>1 DEF Main
    <3>3. pointer'[op[c].dev] = r
      BY <1>4, <2>2, <3>2 DEF TypesOK
    <3>4. calls'[c] = Tail(Read(r)) /\ calls'[c] # <<>>
      BY <1>8, <2>4, <2>5
    <3>5. pc'[c] = "call"
      BY <1>6, <3>4
    <3>6. Selected(c)'
      BY <1>3, <2>1, <2>2, <3>3, <3>4 DEF Selected
    <3> QED
      BY <1>3, <2>3, <3>2, <3>5, <3>6 DEF ReadAt
  <2>6. CASE Selected(c)
    <3>1. calls[c] = Tail(Read(r)) /\ pointer[op[c].dev] = r
      BY <2>1, <2>2, <2>6 DEF Selected
    <3>2. call = [call |-> "get", reg |-> r] /\ calls'[c] = <<>>
      BY <1>1, <1>8, <2>4, <3>1, Zenon
    <3>3. PICK v \in {Contents(r)} \cup (IF mixed[c] THEN {Garbage} ELSE {}) :
            got' = [got EXCEPT ![c] = Append(got[c], v)]
      BY <1>2, <2>2, <3>1, <3>2 DEF Main
    <3>4. got'[c] = <<v>>
      BY <1>4, <2>3, <3>3 DEF TypesOK
    <3>5. ~Reports(c)
      BY <1>2, <1>15, <2>3 DEF Reports, Asks
    <3>6. pc'[c] = "done"
      BY <1>6, <3>2, <3>5
    <3>7. UNCHANGED <<rtc, now, seen, bad>>
      BY <1>2, <3>2
    <3>8. r \in {"time", "temp", "CH1_BUSV", "CH2_SHUNTV"}
      BY <1>5, <1>15, <2>1 DEF OpFits, Asks
    <3>9. ASSUME v = Contents(r) PROVE Right(c, v)'
      <4>1. v.from = r
        BY <3>8, <3>9 DEF Contents, Value
      <4>2. r = "time" => TimeOf(v.data) \in seen'[c]
        <5>1. r = "time" => v.data = rtc
          BY <3>9 DEF Contents, Value
        <5>2. TimeOf(rtc) \in seen[c]
          BY <1>4, <2>3 DEF TimeOK
        <5> QED
          BY <3>7, <5>1, <5>2
      <4>3. r = "temp" => Quarters(v.data) = Warmth
        <5>1. r = "temp" => v.data = HoldsQuarters(Warmth)
          BY <3>9 DEF Contents, Value
        <5>2. Quarters(HoldsQuarters(Warmth)) = Warmth
          <6>1. PICK q : q = Warmth
            OBVIOUS
          <6>2. q \in (-512) .. 511
            BY <6>1, PeripheralsAssumption
          <6>3. Quarters(HoldsQuarters(q)) = q
            BY <6>2, QuartersReadBack
          <6> QED
            BY <6>1, <6>3
        <5> QED
          BY <5>1, <5>2
      <4>4. /\ r = "CH1_BUSV" => v.data = <<HoldsChannel(level.volt)>>
            /\ r = "CH2_SHUNTV" => v.data = <<HoldsChannel(level.draw)>>
        BY <3>9 DEF Contents, Value
      <4> QED
        BY <1>3, <2>1, <4>1, <4>2, <4>3, <4>4 DEF Right
    <3>10. mixed[c] \/ v = Contents(r)
      BY <3>3
    <3>11. mixed'[c] \/ Right(c, v)'
      BY <1>3, <3>9, <3>10
    <3> QED
      BY <2>3, <3>4, <3>6, <3>7, <3>11 DEF ReadAt
  <2> QED
    BY <2>3, <2>5, <2>6
<1>16. CoresOK'
  <2>1. ReadAt(c)'
    BY <1>3, <1>15 DEF ReadAt
  <2>2. ASSUME NEW d \in Cores, d # c PROVE CallsAt(d)' /\ ReadAt(d)'
    <3>1. pc[d] \in {"call", "calling"} /\ op[d].dev \in Main => pointer'[op[d].dev] = pointer[op[d].dev]
      <4>1. SUFFICES ASSUME pc[d] \in {"call", "calling"}, op[d].dev \in Main
                     PROVE  pointer'[op[d].dev] = pointer[op[d].dev]
        OBVIOUS
      <4>2. op[c].dev # op[d].dev
        BY <1>4, <1>6, <2>2, <4>1, Apart
      <4>3. op[d].dev \in Chips
        BY <4>1 DEF Main, Chips
      <4> QED
        BY <1>2, <1>4, <4>2, <4>3 DEF TypesOK
    <3>2. bad'[d] = bad[d]
      BY <1>2
    <3> QED
      BY <1>3, <1>4, <1>6, <1>8, <1>12, <2>2, <3>1, <3>2, OpNow, OtherAt DEF CoresOK
  <2> QED
    BY <1>14, <2>1, <2>2 DEF CoresOK
<1>17. ASSUME ~launched PROVE c = core0 /\ ~mixed[core0]
  BY <1>4, <1>6, <1>17, Alone DEF BootOK
<1>18. ASSUME BootGoes, ~launched, op[core0] = Initialize
       PROVE  /\ pc'[core0] \in {"inner", "call"}
              /\ pc'[core0] = "inner" => IdsAt(5)'
              /\ pc'[core0] = "call" => \E k \in 2 .. 4 : IdsAt(k)'
  <2>1. c = core0 /\ ~mixed[core0] /\ core0 \in Cores
    BY <1>17, <1>18, CoresAre
  <2>2. op[c].dev = "INA3221" /\ OnMain(c) /\ Reports(c) /\ pc[core0] = "calling"
    BY <1>18, <2>1, MonitorOps DEF OnMain, Reports
  <2>3. PICK k \in 1 .. 4 : IdsAt(k)
    BY <1>18, <2>2 DEF BootGoes, IdsOK
  <2>4. PICK s : s = calls[core0]
    OBVIOUS
  <2>5. PICK l : l = Initialize.calls
    OBVIOUS
  <2>6. Len(s) = 5 - k /\ \A j \in 1 .. (5 - k) : s[j] = l[j + k - 1]
    BY <2>3, <2>4, <2>5 DEF IdsAt
  <2>7. /\ l[1] = [call |-> "select", reg |-> "MANUF_ID"]
        /\ l[2] = [call |-> "get", reg |-> "MANUF_ID"]
        /\ l[3] = [call |-> "select", reg |-> "DIE_ID"]
        /\ l[4] = [call |-> "get", reg |-> "DIE_ID"]
    BY <2>5, IdsCalls
  <2>8. s \in Seq(Accesses) /\ s # <<>>
    BY <1>7, <2>1, <2>4
  <2>9. /\ Head(s) = s[1] /\ Len(Tail(s)) = Len(s) - 1
        /\ \A i \in 1 .. (Len(s) - 1) : Tail(s)[i] = s[i + 1]
    BY <2>8, CallsTail
  <2>10. calls'[core0] = Tail(s) /\ call = s[1] /\ s[1] = l[k]
    <3>1. s[1] = l[1 + k - 1]
      BY <2>6
    <3>2. 1 + k - 1 = k
      OBVIOUS
    <3> QED
      BY <1>1, <1>8, <2>1, <2>4, <2>9, <3>1, <3>2
  <2>11. Len(calls'[core0]) = 5 - (k + 1)
    BY <2>6, <2>9, <2>10
  <2>12. \A j \in 1 .. (5 - (k + 1)) : calls'[core0][j] = l[j + (k + 1) - 1]
    <3>1. SUFFICES ASSUME NEW j \in 1 .. (5 - (k + 1)) PROVE Tail(s)[j] = l[j + (k + 1) - 1]
      BY <2>10
    <3>2. j \in 1 .. (Len(s) - 1) /\ j + 1 \in 1 .. (5 - k)
      BY <2>6
    <3>3. Tail(s)[j] = s[j + 1] /\ s[j + 1] = l[(j + 1) + k - 1]
      BY <2>6, <2>9, <3>2
    <3>4. (j + 1) + k - 1 = j + (k + 1) - 1
      OBVIOUS
    <3> QED
      BY <3>3, <3>4
  <2>13. Initialize.calls = l
    BY <2>5
  <2>14. ASSUME call.call = "select"
         PROVE  pointer'["INA3221"] = call.reg /\ got'[core0] = got[core0]
    BY <1>2, <1>4, <2>2, <2>14 DEF TypesOK, Chips
  <2>15. ASSUME call.call = "get"
         PROVE  pointer' = pointer /\ got'[core0] = Append(got[core0], Contents(pointer["INA3221"]))
    BY <1>2, <1>4, <2>1, <2>2, <2>15 DEF TypesOK
  <2>16. /\ Contents("MANUF_ID") = Value("MANUF_ID", <<>>)
         /\ Contents("DIE_ID") = Value("DIE_ID", <<>>)
    BY DEF Contents
  <2>17. PICK a, b : a = Value("MANUF_ID", <<>>) /\ b = Value("DIE_ID", <<>>)
    OBVIOUS
  <2>18. Append(<<>>, a) = <<a>> /\ Append(<<a>>, b) = <<a, b>>
    <3>1. Append(<<>>, a) = <<a>>
      OBVIOUS
    <3>2. PICK t : t = Append(<<a>>, b)
      OBVIOUS
    <3>3. t \in Seq({a, b}) /\ Len(t) = 2 /\ t[1] = a /\ t[2] = b
      BY <3>2
    <3>4. t = <<a, b>>
      BY <3>3
    <3> QED
      BY <3>1, <3>2, <3>4
  <2>19. IdsAt(k + 1)'
    <3>1. CASE k = 1
      <4>1. pointer'["INA3221"] = "MANUF_ID" /\ got'[core0] = <<>>
        BY <2>3, <2>7, <2>10, <2>14, <3>1 DEF IdsAt
      <4> QED
        BY <2>11, <2>12, <2>13, <3>1, <4>1 DEF IdsAt
    <3>2. CASE k = 2
      <4>1. got'[core0] = <<a>>
        BY <2>3, <2>7, <2>10, <2>15, <2>16, <2>17, <2>18, <3>2 DEF IdsAt
      <4> QED
        BY <2>11, <2>12, <2>13, <2>17, <3>2, <4>1 DEF IdsAt
    <3>3. CASE k = 3
      <4>1. pointer'["INA3221"] = "DIE_ID" /\ got'[core0] = <<a>>
        BY <2>3, <2>7, <2>10, <2>14, <2>17, <3>3 DEF IdsAt
      <4> QED
        BY <2>11, <2>12, <2>13, <2>17, <3>3, <4>1 DEF IdsAt
    <3>4. CASE k = 4
      <4>1. got'[core0] = <<a, b>>
        <5>1. got[core0] = <<a>> /\ pointer["INA3221"] = "DIE_ID"
          BY <2>3, <2>17, <3>4 DEF IdsAt
        <5>2. call.call = "get"
          BY <2>7, <2>10, <3>4
        <5>3. got'[core0] = Append(<<a>>, b)
          BY <2>15, <2>16, <2>17, <5>1, <5>2
        <5> QED
          BY <2>18, <5>3
      <4> QED
        BY <2>11, <2>12, <2>13, <2>17, <3>4, <4>1 DEF IdsAt
    <3> QED
      BY <3>1, <3>2, <3>3, <3>4
  <2>20. calls'[core0] = <<>> <=> k = 4
    BY <1>9, <2>1, <2>11
  <2> QED
    BY <1>6, <2>1, <2>2, <2>19, <2>20
<1>19. BootOK'
  <2>1. ASSUME BootGoes, ~launched PROVE MonitorAnswers' /\ IdsOK'
    <3>1. MonitorAnswers'
      BY <1>2, <1>3, <2>1 DEF BootGoes, MonitorAnswers
    <3>2. IdsOK'
      BY <1>3, <1>18, <2>1 DEF IdsOK
    <3> QED
      BY <3>1, <3>2
  <2>2. \A d \in Cores : pc'[d] = "next" <=> pc[d] = "next"
    BY <1>6
  <2>3. ~launched => ~mixed'[core0]
    BY <1>3, <1>17
  <2>4. faults' = faults
    BY <1>2
  <2> QED
    BY <1>3, <1>4, <2>1, <2>2, <2>3, <2>4, BootStay
<1> QED
  BY <1>6, <1>10, <1>13, <1>16, <1>19 DEF PInv

LEMMA CallEndKeeps == ASSUME PInv, NEW c \in Cores, CallEnd(c) PROVE PInv'
<1>1. /\ pc[c] = (IF OnMain(c) THEN "calling" ELSE "call") /\ wire' = wire \ {c}
      /\ pc' = [pc EXCEPT ![c] = IF calls'[c] # <<>> THEN "call"
                                 ELSE IF OnMain(c) /\ Reports(c) THEN "inner" ELSE "done"]
      /\ owner' = IF pc'[c] = "done" /\ OnMain(c) THEN [owner EXCEPT ![Mutex(c)] = Nobody] ELSE owner
      /\ UNCHANGED <<todo, op, mixed, level, drivers, bootFaults, rounds, commands>>
  BY DEF CallEnd, At, Go
<1>2. Done(c) \/ Fails(c)
  BY DEF CallEnd
<1>3. CASE Done(c)
  BY <1>1, <1>3, DoneKeeps
<1>4. CASE Fails(c)
  BY <1>1, <1>4, FailsKeeps
<1> QED
  BY <1>2, <1>3, <1>4

-----------------------------------------------------------------------------
(* The end of an operation.                                                *)

\* The boot sets no time.
LEMMA BootSetsNone == \A o \in BootOps : o.do # "set"
  BY ClockOps, MonitorOps, SensorOps DEF BootOps

LEMMA FinishKeeps == ASSUME PInv, NEW c \in Cores, Finish(c) PROVE PInv'
<1>1. PICK list : list = (IF op[c].do = "set" /\ bad[c] THEN <<>> ELSE todo[c])
  OBVIOUS
<1>2. /\ pc[c] = "done"
      /\ owner' = IF op[c].do = "log" THEN [owner EXCEPT !["event"] = Nobody] ELSE owner
      /\ IF op[c].do = "log" THEN pc' = [pc EXCEPT ![c] = "announce"] /\ UNCHANGED <<todo, op, calls, bad, seen>>
         ELSE Begin(c, list)
      /\ got' = [got EXCEPT ![c] = <<>>] /\ mixed' = [mixed EXCEPT ![c] = FALSE]
      /\ UNCHANGED <<wire, pointer, rtc, now, level, launched, faults, bootFaults, rounds>>
  BY <1>1 DEF Finish, At, Go, chips, counters
<1>3. /\ power' = IF op[c].do = "power" THEN [power EXCEPT ![Channel(c)] = Reading(c)] ELSE power
      /\ initialized' = IF op[c].do = "ids" THEN [i \in 1 .. 2 |-> got[c][i].from] = <<"MANUF_ID", "DIE_ID">>
                                            ELSE initialized
      /\ t_fine' = IF op[c].do = "temperature" THEN IF RawReal(c) THEN rounds ELSE -1 ELSE t_fine
      /\ mode' = IF op[c].do # "mode" THEN mode
                 ELSE IF power.volt < BatteryThreshold /\ Uint8(power.draw) < DischargeThreshold
                 THEN "USB" ELSE "BATTERY"
  BY DEF Finish, Returns
<1>4. TypesOK /\ OpsOK /\ LocksOK /\ TimeOK /\ CoresOK /\ FineOK /\ BootOK
  BY DEF PInv
<1>5. CallsAt(c) /\ ReadAt(c) /\ OpFits(op[c])
  BY <1>4, OpNow DEF CoresOK
<1>6. /\ got'[c] = <<>> /\ got' = [d \in Cores |-> got'[d]] /\ mixed' \in [Cores -> BOOLEAN]
      /\ \A d \in Cores : d # c => got'[d] = got[d] /\ mixed'[d] = mixed[d]
      /\ ~mixed'[c] /\ DOMAIN got' = Cores
  BY <1>2, <1>4 DEF TypesOK
<1>7. /\ owner' \in [Locks -> Cores \cup {Nobody}]
      /\ owner'["clock"] = owner["clock"] /\ owner'["power"] = owner["power"]
  <2>1. owner \in [Locks -> Cores \cup {Nobody}]
    BY <1>4 DEF TypesOK
  <2>2. owner' = owner \/ owner' = [owner EXCEPT !["event"] = Nobody]
    BY <1>2
  <2> QED
    BY <2>1, <2>2 DEF Locks
<1>8. DOMAIN power' = {"volt", "draw"} /\ power' = [k \in {"volt", "draw"} |-> power'[k]]
  BY <1>3, <1>4 DEF TypesOK
<1>9. ~launched => c = core0 /\ ~mixed'[core0]
  <2>1. ~launched => c = core0
    BY <1>2, <1>4, Alone
  <2> QED
    BY <1>6, <2>1
<1>10. CASE op[c].do = "log"
  <2>1. /\ op[c] = LogEvent /\ pc' = [pc EXCEPT ![c] = "announce"]
        /\ UNCHANGED <<todo, op, calls, bad, seen>>
        /\ UNCHANGED <<power, initialized, t_fine, mode>>
    BY <1>2, <1>3, <1>5, <1>10 DEF OpFits
  <2>2. /\ pc'[c] = "announce" /\ \A d \in Cores : d # c => pc'[d] = pc[d]
        /\ pc' \in [Cores -> Labels]
    BY <1>4, <2>1 DEF TypesOK, Labels
  <2>3. TypesOK'
    <3>1. wire' = {d \in Cores : pc'[d] = "calling"}
      BY <1>2, <1>4, <2>2 DEF TypesOK
    <3>2. UNCHANGED <<pointer, level, launched, faults>>
      BY <1>2
    <3> QED
      BY <1>4, <1>6, <1>7, <1>8, <2>1, <2>2, <3>1, <3>2 DEF TypesOK
  <2>4. OpsOK' /\ FineOK'
    BY <1>2, <1>4, <2>1, <2>2, Stay
  <2>5. LocksOK'
    BY <1>2, <1>4, <1>7, <2>1, <2>2 DEF LocksOK, Inside
  <2>6. TimeOK'
    BY <1>2, <1>4, <2>1, <2>2 DEF TimeOK
  <2>7. CoresOK'
    <3>1. CallsAt(c)'
      BY <1>2, <1>5, <1>6, <2>1, <2>2, ClockOps DEF CallsAt
    <3>2. ReadAt(c)'
      BY <2>2 DEF ReadAt
    <3>3. ASSUME NEW d \in Cores, d # c PROVE CallsAt(d)' /\ ReadAt(d)'
      BY <1>2, <1>4, <1>6, <2>1, <2>2, <3>3, OpNow, OtherAt DEF CoresOK
    <3> QED
      BY <3>1, <3>2, <3>3 DEF CoresOK
  <2>8. BootOK'
    <3>1. ASSUME BootGoes, ~launched PROVE MonitorAnswers' /\ IdsOK'
      <4>1. op'[core0] = LogEvent
        BY <1>9, <2>1, <3>1
      <4>2. LogEvent # Initialize /\ LogEvent # BatteryVoltage
        BY ClockOps, MonitorOps
      <4> QED
        BY <4>1, <4>2 DEF MonitorAnswers, IdsOK
    <3> QED
      BY <1>2, <1>4, <1>9, <2>1, <2>2, <3>1, BootStay
  <2> QED
    BY <2>3, <2>4, <2>5, <2>6, <2>7, <2>8 DEF PInv
<1>11. CASE op[c].do # "log"
  <2>1. Begin(c, list) /\ list \in {todo[c], <<>>}
    BY <1>1, <1>2, <1>11
  <2>2. TypesOK' /\ OpsOK' /\ LocksOK' /\ TimeOK' /\ CoresOK'
    <3>1. UNCHANGED <<pointer, rtc, now, level, launched, wire, faults>>
      BY <1>2
    <3>2. pc[c] \in {"next", "announce", "done"}
      BY <1>2
    <3> QED
      BY <1>4, <1>6, <1>7, <1>8, <2>1, <3>1, <3>2, Turn
  <2>3. FineOK'
    <3>1. op[core1] = Temperature /\ c = core1 => t_fine' \in {rounds, -1}
      BY <1>3, SensorOps DEF Temperature
    <3>2. t_fine' = t_fine \/ t_fine' \in {rounds, -1}
      BY <1>3
    <3> QED
      BY <1>2, <1>4, <2>1, <3>1, <3>2, FineTurn
  <2>4. op[c] \in OpsOf(c)
    BY <1>2, <1>4 DEF OpsOK
  <2>5. ASSUME launched PROVE mode' = mode
    <3>1. op[c].do # "mode"
      BY <2>4, <2>5, OnlyBoot DEF OpsOf
    <3> QED
      BY <1>3, <3>1
  <2>6. ASSUME ~launched, faults = 0 PROVE BootGoes'
    <3>1. c = core0 /\ op[core0] \in BootOps /\ ~mixed[core0] /\ BootGoes /\ pc[core0] = "done"
      BY <1>2, <1>4, <1>9, <2>4, <2>6, CoresAre DEF OpsOf, BootOK
    <3>2. Begin(core0, todo[core0])
      BY <1>1, <2>1, <3>1, BootSetsNone
    <3>3. initialized \/ op[core0] = Initialize => initialized'
      <4>1. CASE op[core0].do = "ids"
        <5>1. op[core0] = Initialize
          BY <1>5, <3>1, <4>1 DEF OpFits
        <5>2. got[core0] = <<Value("MANUF_ID", <<>>), Value("DIE_ID", <<>>)>>
          BY <3>1, <5>1 DEF BootGoes, IdsOK, IdsAt
        <5>3. [i \in 1 .. 2 |-> got[core0][i].from] = <<"MANUF_ID", "DIE_ID">>
          BY <5>2 DEF Value
        <5> QED
          BY <1>3, <3>1, <4>1, <5>3
      <4>2. CASE op[core0].do # "ids"
        BY <1>3, <3>1, <4>2, MonitorOps
      <4> QED
        BY <4>1, <4>2
    <3>4. power.volt = 8 * level.volt \/ op[core0] = BatteryVoltage => power'.volt = 8 * level.volt
      <4>1. CASE op[core0] = BatteryVoltage
        <5>1. Channel(core0) = "volt" /\ op[core0].do = "power"
          BY <4>1, ReadRegs, MonitorOps DEF Channel, Reg
        <5>2. ~bad[core0]
          BY <3>1, <4>1 DEF BootGoes, MonitorAnswers
        <5>3. Reading(core0) = 8 * level.volt
          BY <3>1, <5>1, <5>2, ReadingIs, CoresAre DEF ReadingsHonest, At
        <5>4. power'["volt"] = Reading(core0)
          BY <1>3, <1>4, <3>1, <5>1 DEF TypesOK
        <5> QED
          BY <5>3, <5>4
      <4>2. CASE op[core0] # BatteryVoltage
        <5>1. op[core0].do = "power" => op[core0] = Draw
          BY <1>5, <3>1, <4>2 DEF OpFits
        <5>2. op[core0] = Draw => Channel(core0) = "draw"
          BY ReadRegs DEF Channel, Reg
        <5>3. power'["volt"] = power["volt"]
          BY <1>3, <1>4, <3>1, <5>1, <5>2 DEF TypesOK
        <5> QED
          BY <4>2, <5>3
      <4> QED
        BY <4>1, <4>2
    <3>5. (mode = "BATTERY" \/ 8 * level.volt < BatteryThreshold
              \/ (op[core0] = DefineMode /\ pc[core0] # "next"))
             => mode' = "BATTERY" \/ 8 * level.volt < BatteryThreshold
      <4>1. CASE op[core0].do # "mode"
        BY <1>3, <3>1, <4>1, MonitorOps
      <4>2. CASE op[core0].do = "mode"
        <5>1. op[core0] = DefineMode /\ DefineMode # BatteryVoltage
          BY <1>5, <3>1, <4>2, MonitorOps DEF OpFits
        <5>2. power.volt = 8 * level.volt
          BY <3>1, <5>1 DEF BootGoes, VoltageFirst
        <5>3. mode' = (IF power.volt < BatteryThreshold /\ Uint8(power.draw) < DischargeThreshold
                       THEN "USB" ELSE "BATTERY")
          BY <1>3, <3>1, <4>2
        <5> QED
          BY <5>2, <5>3
      <4> QED
        BY <4>1, <4>2
    <3>6. ~launched' /\ level' = level /\ pointer' = pointer /\ got'[core0] = <<>>
      BY <1>2, <1>6, <2>6, <3>1
    <3> QED
      BY <1>4, <2>6, <3>1, <3>2, <3>3, <3>4, <3>5, <3>6, BootTurn
  <2>7. BootOK'
    BY <1>2, <1>4, <1>9, <2>5, <2>6 DEF BootOK
  <2> QED
    BY <2>2, <2>3, <2>7 DEF PInv
<1> QED
  BY <1>10, <1>11

-----------------------------------------------------------------------------
(* The theorems.                                                           *)

LEMMA NextKeeps == PInv /\ [Next]_vars => PInv'
<1> SUFFICES ASSUME PInv, [Next]_vars PROVE PInv'
  OBVIOUS
<1>1. CASE Launch
  BY <1>1, LaunchKeeps
<1>2. CASE Round
  BY <1>2, RoundKeeps
<1>3. CASE Command
  BY <1>3, CommandKeeps
<1>4. CASE EnvResets
  BY <1>4, EnvResetsKeeps
<1>5. ASSUME NEW c \in Cores, CoreStep(c) PROVE PInv'
  <2>1. CASE Start(c)
    BY <2>1, StartKeeps
  <2>2. CASE LockEvent(c)
    BY <2>2, LockEventKeeps
  <2>3. CASE CallBegin(c)
    BY <2>3, CallBeginKeeps
  <2>4. CASE CallEnd(c)
    BY <2>4, CallEndKeeps
  <2>5. CASE UartPrint(c)
    BY <2>5, UartPrintKeeps
  <2>6. CASE Printed(c)
    BY <2>6, PrintedKeeps
  <2>7. CASE Finish(c)
    BY <2>7, FinishKeeps
  <2> QED
    BY <1>5, <2>1, <2>2, <2>3, <2>4, <2>5, <2>6, <2>7 DEF CoreStep
<1>6. CASE Over
  BY <1>6, StutterKeeps DEF Over
<1>7. CASE UNCHANGED vars
  BY <1>7, StutterKeeps
<1> QED
  BY <1>1, <1>2, <1>3, <1>4, <1>5, <1>6, <1>7 DEF Next

LEMMA Invariance == Spec => []PInv
  BY Starts, NextKeeps, PTL DEF Spec

\* A time in an event, a record or an answer is one the clock showed while it was read,
\* whoever else uses the buses under the mutexes (DS3231::get_time, log_event).
THEOREM Stamps == Spec => []StampsHonest
<1>1. PInv => StampsHonest
  BY StampIs
<1> QED
  BY <1>1, Invariance, PTL

\* A voltage, a current that is drawn and the chip's temperature are what the devices
\* hold, the conversions of the BME280 use the temperature of their own round, and a boot
\* without failures finds the battery (PowerManager, BME280, the end of init_modules).
THEOREM Readings == Spec => []ReadingsHonest
<1>1. PInv => ReadingsHonest
  BY ReadingIs
<1> QED
  BY <1>1, Invariance, PTL
=============================================================================
