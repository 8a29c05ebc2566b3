# Verification of the Kubisat firmware

TLA+ models of the firmware in `src/` (RP2040, two cores, C and C++), checked with TLC on
small instances; for the parts with an inductive argument there are proofs for every
value of the constants, checked with TLAPS. All paths below are under `src/`; `src/lib/`
is left out before `comms/`, `eventman/` and so on, and `vfs/` stands for
`src/lib/storage/pico-vfs/src/`.

## The system

Core 0 boots alone (`main.cpp:164`): hardware, radio, file system, clock, sensors, power
monitor, operating mode. Then it launches core 1 and goes round its loop: a LoRa packet, a
character from the UART, at most one command after the other.

Core 1 (`main.cpp:5`) goes round every 10 ms: read the GPS, collect a telemetry record when
the interval is over, flush to the SD card at every tenth, reset to the boot loader when asked.

| component | state | operations | interacts with |
|---|---|---|---|
| event log `eventman/` | ring of 100, count, write index, id, events since the last save | `log_event`, `get_event`, `save_to_storage` | called on both cores by everything that emits; storage; clock |
| telemetry `telemetry/` | two buffers of 20, count, index, last record, power flags, 2 CSV files | `init`, `collect_telemetry`, `emit_power_events`, `flush_telemetry`, `get_last_*_csv` | core 1's loop; commands 8.2, 8.3 on core 0; event log; storage |
| loop timing `main.cpp:14-36` | `last_telemetry_time`, counter | `is_telemetry_collection_time`, `is_telemetry_flush_time` | telemetry |
| frames `comms/frame.cpp`, `receive.cpp` | `uart_buffer` | extract, decode, encode | UART, LoRa, dispatch |
| commands `comms/commands/` | table of 15 handlers | `execute_command`, `handle_*` | all other parts |
| system state `system_state_manager.h` | mode, verbosity, paused, pending reset, mounted | getters and setters, each atomic | both cores |
| GPS `location/`, `gps_commands.cpp` | buffer and index, RMC and GGA tokens; the pass-through's window | `collect_gps_data`, pass-through | both cores share the GPS UART by a flag and a delay |
| clock `clock/` | DS3231 registers, time-zone offset | set, get, temperature | main I2C bus, shared with the power monitor |
| power `powerman/` | registers of the INA3221 | begin, configure, voltages, currents | main I2C bus |
| sensors `sensors/` | calibration, `t_fine` | init, configure, read | second I2C bus |
| console `comms/utils.cpp` | a mutex | `uart_print` | clock (its stamp) |
| radio `comms/LoRa/` | registers, FIFO, flags | `parse_packet`, `send_message`, `endPacket`, DIO0 handler | core 0, SPI |
| SD card `vfs/blockdevice/sd.c` | card type, mutex, the card's own state | init, read, program, trim | FatFS |
| FatFS glue `vfs/filesystem/fat.c`, `vfs.c` | volumes, mount points, table of descriptors | mount, format, open, write, close | both cores |
| storage `storage/storage.cpp` | mounted flag | `fs_init` | event log and telemetry, both cores |

What is hard about it: the two cores share the log, the card, the table of files, the I2C
bus, the console, the GPS UART and the flags, and not every access is under a lock, or under
the right one; the card, a sensor or the clock may fail at any call and power at any moment;
the radio steps on its own while it is being read; text arrives in pieces; counters and clocks
wrap. `PROJECT.json` lists each place under "hazards", with the properties that watch it or the
reason why none does.

What makes each part correct:

* event log: the ring has the latest events, whole; the file has each once, in order, and
  nothing missing that a working card could hold; POWER events are written at once;
* commands on events: an answer is the latest events, newest first, in full pages;
* telemetry: no record lost while the buffer holds it, none written twice, files in step,
  no field told by command 8.2 is of a record that was replaced before;
* timing: samples neither early nor late, also when the clock wraps;
* power events: who sees only the events knows the state;
* commands: nothing runs that was not sent, all that arrives whole runs, answers are
  readable and true, in flight nothing cuts power or resets, everything ends;
* GPS: a damaged sentence spoils itself only; the session ends and forwards as typed;
* clock, power and sensors: no failure is taken for a reading; no mutexes wait for each other;
* radio: what is executed was sent, whole and once; the satellite listens again after everything;
* card and files: OK means done, nothing else is touched, a mounted card is usable, a
  descriptor leads to its own file, every call returns.

## Modules

| module | models | correspondence |
|---|---|---|
| `BoundedLog` | what the event log promises: an append of one whole entry, in a window of the last ones | abstract, no code |
| `EventManager` | `log_event`, `save_to_storage`, `fs_init` as it calls it | one action per shared load or store outside the mutex; the locked part is several actions, so that the mutex is seen to matter; `file`, `base`, `out` are what the card, the open handle and the FILE buffer hold |
| `EventCommands` | commands 5.1, 5.2 over `EventManager` | each `get_event` and each use of the reference it returns is a step; core 1 logs in between |
| `TelemetryManager` | core 1's collect and flush, `init`, restarts; command 8.2 | a record is its number; in a flush the test of the card, each `fopen` and each `fclose` of a written file is an action of its own, `init` is one; core 1 writes the copy of the last record in two steps, and command 8.2 reads its first and its last field in two |
| `SampleTimer` | the two clocks of `is_telemetry_collection_time` | `now` is real time, `CurrentTime` its image of limited width |
| `PowerEvents` | `emit_power_events` | one action per call; flags are the function's static variables |
| `Sampling` | the loop of core 1 over the two before it | a round collects and emits, or does neither |
| `FrameProtocol` | encode, decode, extract | operators over sequences of words; `Fields` is the chain of `getline` calls |
| `Commands` | both cores' part in the command interface | receiving, decoding, one handler, one reply: one action each |
| `GpsUart` | `collect_gps_data` and the pass-through session | one action per symbol of the GPS and per key of the user |
| `I2cDevices` | registers and conversions of clock and power monitor | operators: BCD, temperature, channels, `settimeofday`'s limits |
| `Peripherals` | boot, rounds and commands as far as they use the I2C buses, and the mutexes of event log, clock, power monitor and console | an operation is a list of I2C calls; a call is two actions, begin and end, between which another core's may begin; each take of a mutex is a step |
| `LoRaRadio` | `LoRaClass` (begin, send, `parsePacket`, `handleDio0Rise`), `send_message`, `on_receive`, the radio | one action per register access that the radio may overtake; the radio's actions are external |
| `SdCard` | `sd.c`: init, read, program, trim | one action per SPI command and per data block; the card is external and may fail at each |
| `Storage` | `fs_init`, `fs_mount`/`fs_format` in `vfs.c` and `fat.c`, `disk_*` | over `SdCard`: waits at a label until the device's call is back |
| `FileTable` | `_open`, `_write`, `_close` in `vfs.c` with `fat.c`'s file contexts | one action per access of the table, on two cores |
| `*Proofs` | the theorems: `EventLogProofs` about `EventManager` and `EventCommands`, `TelemetryManagerProofs` about `TelemetryManager` and `Sampling`, `StorageProofs` about `SdCard` and `Storage`, `CommandsProofs` about `FrameProtocol` and `Commands`, the others about the module they are named after | |

Composition: `EventCommands` EXTENDS `EventManager` (their steps interleave), `Sampling`
joins `SampleTimer` and `PowerEvents`, `Storage` runs on `SdCard`, `Peripherals` on
`I2cDevices`, `Commands` on `FrameProtocol`. The `MC*` modules give the constants that a
configuration cannot write. Definitions named `X_Something` under a comment "Mutant" are wrong
versions of `X`, kept to show that the properties notice them; nothing uses them.

## What the runs show

| run | instance | result |
|---|---|---|
| `event_manager` | 1 core, ring 3, threshold 2, 7 events, ids of 2 bits, any storage call fails | `RingHoldsLatest`; `PersistedOnce` whatever fails; while nothing has failed `NothingSkipped` and, under fairness, `PowerPersisted` |
| `event_manager_unlocked_save` | 2 cores, ring 2, 4 events, no faults | **violated**: `PersistedOnce`, as the save runs outside the mutex |
| `event_commands` | 2 cores, ring 3, page 2, 4 events, one request | `ReplyIsLatest` when nothing is logged meanwhile; `ReplyExactWhileNotFull` with logging; `ImplementsLog`: the ring of two cores refines `BoundedLog` |
| `telemetry` | buffer 4, threshold 2, 6 records, 1 restart, 1 command 8.2, all faults | `FilesPaired`, `NoLossWhileBuffered`, `RowsOnce`; `LastRecordTold`: each field told is of a record that was the newest at some time during the read |
| `telemetry_restart` | no faults, 1 restart | **violated**: `HistoryKept`, the boot empties the CSV files |
| `sampling` | 3-bit clock, interval 3, gaps to 5, a wrap; voltages below, on, between, above the thresholds | `NeverOverdue`, `CollectionsSpaced`; `EventsTellState`, `NoEventRepeated` |
| `commands` | about 60 frames alone, pairs with 2 of them, every cut of one; radio and UART; 2 modes | `WholeFramesExecuted` (nothing invented, none left out), `AnswersReadable`, `OnlySetChanges`, `FlightLocked`, `ConfirmedMeansDone`; under fairness `CommandsEnd`, `RebootHappens` |
| `gps_uart` | FIFO 2, buffer 3, 3 sentences, 4 keys, 1 session, 1 call with junk | `DamageConfined`, `NothingMissed`, `SessionExact` |
| `peripherals` | boot, one round, one command, one failed call, a BME280 reset at any time | `StampsHonest`, `ReadingsHonest`; under fairness `OperationsEnd` |
| `radio` | FIFO 6, packets to 5, 3 on the air of 5 sorts, 1 timeout; radio present, or the bus reads low or high | `ExecutedWasSent`, `SentIsMessage`; under fairness `ListensAgain` |
| `storage` | 3 blocks, all three kinds of card, one with erase sectors of 2 blocks, 3 failures, 3 `fs_init`, 2 volumes, 1 mount point | `CardLeftReady`, `OkIsDone`, `OthersKept`, `MountIsTrue`, `InitIsHonest`, `WorkingCardKept`; under fairness `StorageCallsEnd` |
| `files` | 2 cores, 2 jobs each (an event save or a telemetry flush), a table of 2 slots that grows, 1 failed open | `TableSound`, and under fairness `FileJobsEnd` |

Some properties hold only with an exception, and the exception is what the code does; each is
named in the property and described under "Notes on the code":

* `StampsHonest`, `ReadingsHonest` excuse calls that met on the bus (`mixed`);
* `ReadingsHonest` says of a current that flows the other way only what the driver makes of it: a
  value above every current of the range, where `INA3221.cpp:162,194` promise the current;
* `ConfirmedMeansDone` excuses the value -1 of a time that was set and could not be read back
  (`clock_commands.cpp:54`); the clock must have what was asked for there, too;
* `MountIsTrue` excuses a card without a file system that is no whole number of its erase
  sectors: `format` overwrites its first blocks, and its trim is then refused;
* `ExecutedWasSent` excuses packets whose FIFO was overtaken, and says what they can still be;
* `OkIsDone`, `OthersKept` excuse a card of mistaken unit and a refused block of several;
* `TableSound` and `FileJobsEnd` excuse runs in which two calls met in the table (`raced`);
* `ListensAgain` excuses a boot without a radio on a bus that reads low;
* `NoLossWhileBuffered` and `NothingSkipped` excuse what a failed write or save drops.

### Bounds

The rings need to wrap and to be full while events are unsaved: size 3 (2 with two cores) and
more events than two rounds do. Ids of two bits wrap inside a run while the code's have
16 bits. `EventCommands` pages the events in full; `Commands` has the code's
limit of 100 and asks for none, 10, 100, 101 and -1. The telemetry buffer keeps the code's ratio of 2 to the flush threshold, and six
records overflow it after failed flushes and flush once more; a flush, a
failed one or the next copies may come between the two halves of a read. The timer's width is any with
interval + gap not above it (an assumption of the module: 2^32 ms against seconds in the
code). For the power events only order matters, so values around each threshold are all there
is. Frames interact by their line only; a frame pair and a cut next to a whole one give every
way of joining two texts. The GPS buffer is smaller than an overlong sentence by two so that a
tail remains behind the reset; three sentences make one kind come twice; four keys pass
the exit sequence (three) at every offset.

The I2C instance has one failure because a failed call leaves no state but its operation's, the
mode and `t_fine`, and a round with a failed reading follows one without at every place. The
radio's FIFO is a byte larger than the longest packet, so that a second packet always wraps it
and overwrites the first, as 255 of 256 do; three packets are one before, one during and one
after a reply. The card has a block for the boot sector, one for the tables and one for rows, so
that a transfer of two blocks can be broken in its middle and leaves one outside; three blocks
are no whole number of the one kind's erase sectors of two, so that trims of both sorts occur; three
failures suffice to spoil a command, its stop and the next mount, and more `fs_init` than
volumes and mount points would use both up. Two jobs per core keep three files open at once,
one more than the table starts with.

### Fairness

`EventManager`: a core inside `log_event` keeps running (each core has its own loop, no
scheduler, no preemption, and storage calls return). `Commands`: core 0 does not stop within a
command, the loop of the pass-through tests its time limit in every round, and core 1
goes round its loop. `Storage` and `SdCard`: a call goes on, each wait in `sd.c` has a limit.
`Peripherals`: each core runs, the I2C calls return (with an error, if the chip does not
answer). `LoRaRadio`: core 0 runs and a radio that was told to send finishes; nothing has to
arrive. `FileTable`: each core runs, and a mutex that is free again and again is got at last
(strong fairness): the cores do other work between two calls, longer than a spinning core
needs to see the mutex free. There is no fairness for what comes from outside: frames,
keys, packets, faults.

## What is proved

All for every value of the constants that the modules' assumptions allow, with no bound on the
length of a run.

`EventLogProofs`, any number of cores:

* `TypeInvariant`; `RingInvariant` (`RingHoldsLatest`); `MutualExclusion`; `RingRefinesLog`
  (`ImplementsLog`: initial states map to initial states, every step to an append or a stutter).
  `RingHoldsLatest` is not inductive: it says nothing of the slot that is being written nor why
  no other core writes. `IInv` adds `MutexHeld` (a core is in the locked part exactly while it
  owns the mutex) and `SlotInProgress` (the open slot holds what its writer has stored so far,
  and the next id is the number of ids given out modulo the width). The proof goes action by
  action: those outside the locked part leave the ring alone (`QuietStep`).
* `Once` (`PersistedOnce`) and `Gapless` (`NothingSkipped`), on one core. The premise `Alone` asks
  that a save fits the ring and that two indices fit a `size_t`. Over `IInv`, `SaveInv` says what
  `save_to_storage` has in its hands (`SaveOK`: the start is as many slots back as there are
  unsaved events, the rows so far are those events), that the counter stays below the threshold
  between calls (`CounterOK`), and that the file reaches just to the unsaved events (`FileOK`).
* `AnswerIsLatest` (`ReplyIsLatest`), `AnswerExactWhileNotFull` (`ReplyExactWhileNotFull`) for every
  parameter and page size, and `ReaderKeepsLog`: the ring refines `BoundedLog` also while it is
  read. `RInv` joins `IInv`, where the next event goes (`WriteOK`) and what the handler has:
  how many rows it took when it began (`CountsOK`), that the reference `get_event` gave it is
  still into the entry it asked for, as long as nothing was logged since or the ring is not full
  (`RefOK`), and that the rows so far fill the pages, newest first (`LayoutOK`, `RowsOK`).

`TelemetryManagerProofs`, for all sizes, thresholds, faults and restarts:

* `TypeInvariant`, `Paired` (`FilesPaired`), `NoLoss` (`NoLossWhileBuffered`), `Once` (`RowsOnce`),
  `LastRecord82` (`LastRecordTold`). Whether a row is lost depends on how full the buffer is, that
  on the failures in a row. The invariant has the buffer as the newest numbers (`RingOK`), the
  copy of the last record (`CopyOK`) and what a reader has had of it (`ReaderOK`: its first field is
  of a record since its start), count =< misses * threshold + counter (`CountOK`), what a
  flush has written of each file (`FlushOK`), that files grow by what is behind their rows only
  (`AddedOK`), and the two together while nothing was dropped (`WholeOK`).
* `SamplingTypes`, `Punctual` (`NeverOverdue`), `Spacing` (`CollectionsSpaced`), across any number of
  wraps. The invariant is `last = since % Wrap`; the lemma `WrappedDifference` says that the
  unsigned difference is the real one while that is below the width.
* `EventsTell` (`EventsTellState`), `NoRepeats` (`NoEventRepeated`), for all thresholds: each flag is
  what the last event of its topic said; one lemma per topic.

`CommandsProofs`, for every set of requests and cuts and every table of numbers:

* The frames: what `Fields` and `Extract` compute is proved from their equations, by an argument
  on the shortest text for which it fails. A frame reads back as it was written (`ReadsBack`);
  what has lost its end takes in the next frame and does not decode (`Swallowed`).
* `FlightStaysLocked` (`FlightLocked`), inductive by itself: a handler that passes the check of the
  mode does none of the four things. `OnlySets` (`OnlySetChanges`): no frame but a SET gets
  past the handlers' test of the operation.
* `WholeFrames` (`WholeFramesExecuted`), `Readable` (`AnswersReadable`), `Truth`
  (`ConfirmedMeansDone`). `CommandsInv` ties the text that has been received to the pieces that
  were sent, and the queue to what of them is left (`TextOK`), and the outbox to the request
  and to the settings at that moment (`AnswersOK`: any number of SEQ frames and one that ends
  them): the value of a confirmation is that of the setting when it is sent because no other
  handler runs in between.

`StorageProofs`, over `Storage`'s specification, for every card size, address unit and extent, any
number of failures and of `fs_init`:

* `TypeInvariant`, `LeftReady` (`CardLeftReady`), `Done` (`OkIsDone`), `Confined` (`OthersKept`),
  `HonestInit` (`InitIsHonest`). The invariant has which call may be at which label
  (`PlaceOK`), who has mutex, chip select and transfer there (`LineOK`), where the transfer or the
  erase range is when the driver's unit is the card's (`WhereOK`: the unit cancels), and how much
  of the call is done (`DoneOK`). `StepsAreDevice` says that `fs_init` and the file system make no
  other steps of the device.
* `MountedUsable`, `MountTells` (`MountIsTrue`), `CardKept` (`WorkingCardKept`). `MountInv` says which
  call of the device the file system waits for and what it has when it is back (`CallOK`), and
  which volume belongs to which mount (`MountOK`); `WorkInv`, about runs without a failure, what
  the device answers and the blocks hold at each label, on a card that has a file system or can be
  given one; `TrimOK` says that on another `format` gets no further than its trim. `MountTells`
  and `CardKept` have the hypothesis Volumes >= 2: `fat.c` takes a volume before it mounts, and keeps it when it fails, so that with
  one volume the format that follows finds none. FF_VOLUMES is 4 (`ffconf.h:170`).

`GpsUartProofs`, for every exit sequence, FIFO, buffer and length of sentence: `Exit`
(`SessionExact`), `Confined` (`DamageConfined`), `Missed` (`NothingMissed`). `KeysInv` has the input
buffer as the last keys and how many of the first ones were withheld. `LineInv` keeps an account
(`Accounted`): each gap between two symbols in the UART, a message that is spoilt or torn, and
the session that is on are paid for by a damage of their own; whoever takes a symbol takes over
the gap behind it. Without damage there is no gap, and `CaughtUp` says what the collector has by
the last symbol that it took.

`PeripheralsProofs`, for all levels, temperatures and times: `Stamps` (`StampsHonest`), `Readings`
(`ReadingsHonest`), any failures and
interleavings. `PInv` says which core owns which mutex at
which place of which operation (`LocksOK`); that between the two calls of a read the chip's pointer
stays where the first has put it, unless a call of the other mutex came between (`CoresOK`, with
`mixed` as the excuse), and that what a read returns is then what the register holds; that the
registers of the clock hold a time the chip had (`TimeOK`); that `t_fine` is of this round when a
conversion uses it (`FineOK`); and how far the boot is (`BootOK`: the monitor is initialised before
it is used, the voltage measured before the mode is decided).

`LoRaRadioProofs`, for every FIFO above the longest packet and all packets, boot messages and
replies: `TypeInvariant`, `Executed` (`ExecutedWasSent`), `Sent` (`SentIsMessage`). Whether what is
executed is whole depends on what the radio has announced and on whether the next packet
has overtaken it. The invariant follows a packet: its bytes are in the FIFO from some address on
while it comes (`AirOK`), the announced one is all there unless it was overtaken (`AnnouncedOK`),
and so is what core 0 has read of it (`ReadOK`, `BufferOK`); what was executed is older, or was
torn by it. `SendOK` says the same of a message on its way into the FIFO. `Sent` needs more than
that: over the invariant, `QueueOK` says that the transmissions so far are in the order of the
messages, that the one in the FIFO is later than all of them, and that with a radio that answers
every other message is among them.

`FileTableProofs`, any number of jobs and of failed opens: `TableKept` (`TableSound`). A descriptor is
kept by more than its slot. The invariant, about runs in which no two calls have met, has
what each core has still to do (`OrderOK`: no call twice, no open without its close; `PairedOK`:
what is open has still to be closed), who is in which function (`PlaceOK`, `LockOK`), what an open,
a write and a close have in hand (`OpenOK`, `UseOK`), that the table does not change while it is
moved (`GrowOK`), that a slot between the two stores of a close is not taken (`ApartOK`), and that
every file is reached by its descriptor or is being opened (`ReachedOK`), which bounds the
contexts (`CountOK`) and leaves a place for each new file (`FreePlace`).

### What the proofs assume

The named assumptions of the modules; TLC evaluates each in a run. They are what the code grants:

* `ModulusAssumption`: the ring is not larger than the ids' range: 100 (`EVENT_BUFFER_SIZE`, `event_manager.h:32`)
  against 2^16.
* `TimerAssumption`: interval + the longest round =< 2^32 ms.
* `ThresholdAssumption`: battery_low's threshold is below battery_full's.
* `WordAssumption`, `PrintAssumption`: a number that is printed is a word without a delimiter, and
  not one of the marks or operations.
* `RequestAssumption` of `Commands`: what is sent are frames whose parts are words; a damaged line
  is made of beginnings and ends of such frames, not of arbitrary noise.
* `ParamAssumption`: a parameter of 5.1 is a number, empty or no number.
* `PeripheralsAssumption`: the registers' widths, 13 bits with the sign (INA3221) and 10 (DS3231).
* `TimeAssumption`: the clock holds dates of this century; command 3.0 takes those between
  March 2025 and January 2030 (`clock_commands.cpp:41`).
* `RadioAssumption`: packets have 1 to 255 bytes (the FIFO 256) and do not come from the satellite's own
  address; the boot sends at least one message.

### Only model-checked

All liveness (`PowerPersisted`, `CommandsEnd`, `RebootHappens`, `OperationsEnd`, `ListensAgain`,
`StorageCallsEnd`, `FileJobsEnd`) is beyond the prover, as is ENABLED. Every safety property of the
passing runs is proved.

## Notes on the code

Met while modelling, the two violations among them. Commands, telemetry, GPS:

* `telemetry_manager.cpp:63-97` writes the CSV headers that line 51 promises only when the
  first `fopen` fails and the second, of the same path, works; otherwise the files have none.
* `telemetry_manager.cpp:329-335`: the buffer is emptied whatever `fprintf` and `fclose` return.
* `telemetry_manager.cpp:376`: command 8.2 copies the last record without `telemetry_mutex`;
  when core 1 assigns it meanwhile the answer is made of several records (`LastRecordTold` says
  of which).
* `telemetry_commands.cpp:50`: the NO_DATA answer needs an empty string that
  `get_last_telemetry_record_csv` never returns; lines 52 and 78 use the number of the other command.
* `clock_commands.cpp:69` tests a failed read for 0, `DS3231.cpp:174` makes it -1: the answer
  is VAL 4294967295. Line 54 confirms a time that
  could not be read back as -1. Line 124 cuts an offset to 16 bits before its range is checked.
* `diagnostic_commands.cpp:175,182` say levels 0-5, line 211 takes 0-4; line 238 shows a command
  without the parameter that line 260 asks for.
* `gps_commands.cpp:121`: the timeout is neither limited to 600 s (line 94) nor safe from overflow.
* A pass-through session may leave the collector with a sentence made of two
  (`DamageConfined` allows it one): its checksum is not looked at.
* `frame.cpp:121`: the reason why a frame did not decode becomes the value of an error frame, is
  executed as command 0.0 and is never sent; the ground sees INVALID COMMAND.

I2C:

* `DS3231.cpp:200,211` and the power manager lock the same bus by two mutexes: a register
  address of one may be followed by the read of the other.
* The INA3221's shunt voltage loses its sign (`INA3221.cpp:183`): a small current the other way
  reads as a large one; `main.cpp:153` then cuts a current to 8 bits before it is compared. Line
  150 changes a configuration that was not read when the call failed.

Radio:

* `parsePacket` and `endPacket` leave DIO0 mapped to RX done: the TX callback is never called, and
  were the pin wired, the handler would take packets away from the polling loop.
* The boot sends although `begin` has failed; a bus that reads low then holds core 0 at
  `LoRa-RP2040.cpp:198`.
* A packet that is overtaken in the FIFO is executed with bytes of the later one, and that one
  may be executed again.

Card and files:

* `sd.c:953` reports OK when the card refused one of several blocks; `sd.c:857`: the answer of CMD12
  replaces an error before it; `sd.c:575`: a lost answer of CMD58 leaves a high-capacity card
  addressed in bytes; an ACMD41 that never gets ready is reported OK (the size that cannot be
  read then makes `init` fail: `InitIsHonest`). `disk_initialize` returns bit 0 of the error, so
  that even codes pass for ready.
* `fat.c:268`: `format` trims the whole card, which `sd.c:980-986` refuses for a standard card that
  is no whole number of its erase sectors, after the first two blocks were overwritten.
* `fat.c:201-209`: a volume is taken before `f_mount` and kept when it fails; `fat.c:439`: a file
  context is not freed when `f_open` fails.
* `vfs.c`: `auto_init_recursive_mutex` in a function is a mutex of that function. `_open`, `_write`
  and `_close` on two cores are not kept apart: the table may move under a write, and a slot be
  taken between the two stores of a close, which leaves a file without its file system.

## Not modelled, and why

* What the chips, the card and the radio are inside, beyond how the drivers see them: external.
* FatFS, newlib's streams, littlefs: external libraries; littlefs is linked and never called. In
  the models they are the device calls they make and calls that succeed or fail.
* In `vfs.c`: directories, seek, rename: never called by the program; `stat` once, in the boot
  (`main.cpp:103`), for a size that is printed.
* The contents of records (float formatting, positions of NMEA fields), the arithmetic of the
  BME280's compensation, the modem settings and the CRC of the radio: data that no property
  tells apart.
* The DIO0 interrupt in the middle of an SPI transfer: what the SPI then does is the
  controller's affair, and whether the pin is wired is not in the repository.
* A loss of characters inside a frame by an overflow of the UART's FIFO (`receive.cpp:122`):
  frames have no checksum, so no property of the receiver survives one.
* What freed memory holds after the races in `vfs.c`: anything may follow, so the properties
  stop there.
* Two cores in the event save with faults: violated without them already.
* Build files, recorded flights, documents: no behaviour.

## Plan

Done: all modules above. Left:

1. A `Firmware` module over boot, launch and both loops: that what single-core runs assume
   holds until the launch, and what the flush and the event save do to each other's descriptors.
2. Proofs of step properties that no run asks for yet: that nothing but a close gives a slot
   back, that an operation of `Peripherals` that returns has given its mutexes back.
