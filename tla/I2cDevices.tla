----------------------------- MODULE I2cDevices -----------------------------
(***************************************************************************)
(* The registers of the clock (DS3231) and of the power monitor (INA3221),   *)
(* and what their drivers make of them.  The chips are external: Holds...    *)
(* is how a chip represents a quantity, after its data sheet.               *)
(***************************************************************************)
EXTENDS Integers, Sequences

\* A time as gmtime gives it: months from 0, years from 1900, Sunday is day 0.
Fields == {"sec", "min", "hour", "mday", "mon", "year"}
Known(tm) == [f \in Fields |-> tm[f]]

Bcd(n) == (((n \div 10) * 16) + (n % 10)) % 256
Binary(byte) == ((byte \div 16) * 10) + (byte % 16)

\* set_time: the seven registers from the seconds on.
TimeRegisters(tm) ==
    << Bcd(tm.sec), Bcd(tm.min), Bcd(tm.hour), IF tm.wday = 0 THEN 7 ELSE tm.wday,
       Bcd(tm.mday), Bcd(tm.mon + 1), Bcd(tm.year - 100) >>

\* Mutant: the months of the chip are taken for those of struct tm.
Month_Raw(byte) == Binary(byte % 32)

\* The five low bits hold the month; above is the century.
Month(byte) == Binary(byte % 32) - 1

\* get_time.
TimeOf(r) ==
    [sec |-> Binary(r[1]), min |-> Binary(r[2]), hour |-> Binary(r[3]),
     mday |-> Binary(r[5]), mon |-> Month(r[6]), year |-> Binary(r[7]) + 100]

\* The chip's temperature is a 10-bit number of quarters, left-aligned in two bytes.
HoldsQuarters(q) == << (q % 1024) \div 4, (q % 4) * 64 >>

\* read_temperature: the first byte is an int8_t, of the second two bits count.
Quarters(r) == (IF r[1] >= 128 THEN r[1] - 256 ELSE r[1]) * 4 + (r[2] \div 64)

-----------------------------------------------------------------------------
\* A channel of the monitor is a signed 13-bit number, left-aligned in 16 bits.
HoldsChannel(k) == (k % 8192) * 8

\* get_voltage, in mV.
Voltage(raw) == raw

\* get_shunt_voltage shifts the unsigned word, and its sign is lost: what is
\* multiplied (5 uV) and divided (10 mOhm) is never negative.
ShuntVoltage(raw) == (raw \div 8) * 5
Current(raw) == ShuntVoltage(raw) \div 10

\* define_system_operating_mode keeps the drawn current in a uint8_t.
Uint8(n) == n % 256
=============================================================================
