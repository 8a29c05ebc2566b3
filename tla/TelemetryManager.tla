--------------------------- MODULE TelemetryManager ---------------------------
(***************************************************************************)
(* lib/telemetry/telemetry_manager.{h,cpp}, driven by the loop of core 1    *)
(* (core1_entry in main.cpp) and read by the telemetry commands on core 0.  *)
(*                                                                         *)
(* A record is its number: 1, 2, ... in the order of collection, also over  *)
(* restarts.  The copy of the last record that core 0 reads is not written  *)
(* in one step, nor read in one: it is the numbers of its first and of its    *)
(* last field, which a command reads in this order.                         *)
(* When the loop decides to collect is SampleTimer's matter; here it may be *)
(* at any iteration.  The CSV header is row 0.                              *)
(***************************************************************************)
EXTENDS Integers, Sequences

CONSTANTS
    BufferSize,     \* TELEMETRY_BUFFER_SIZE
    FlushThreshold, \* flush_threshold
    StorageFaults,  \* TRUE iff mounting, opening and writing may fail
    MaxRecords,     \* bound of the model: records collected
    MaxRestarts,    \* bound of the model: losses of power
    MaxReads        \* bound of the model: commands on core 0

ASSUME SizeAssumption == BufferSize \in Nat \ {0} /\ FlushThreshold \in Nat \ {0}
ASSUME FaultAssumption == StorageFaults \in BOOLEAN
ASSUME BoundAssumption == MaxRecords \in Nat /\ MaxRestarts \in Nat /\ MaxReads \in Nat

VARIABLES
    at,          \* where core 1 is in core1_entry
    counter,     \* telemetry_collection_counter
    telemetry,   \* telemetry_buffer
    sensor,      \* sensor_data_buffer
    count,       \* telemetry_buffer_count
    writeIndex,  \* telemetry_buffer_write_index
    lastCopy,    \* last_telemetry_record_copy
    mounted,     \* SystemStateManager::sd_card_mounted
    files,       \* rows of /telemetry.csv and /sensors.csv
    out,         \* rows in the FILE buffers of flush_telemetry
    reader,      \* core 0 in to_csv: is it, the first field, what was complete at its start
    reply,       \* core 0: the last answer to command 8.2
    total,       \* ghost: records collected since the first boot
    first,       \* ghost: total at this boot
    booted,      \* ghost: the files when this boot found them
    kept,        \* ghost: the files when TelemetryManager::init was done
    misses,      \* ghost: flushes in a row that wrote nothing
    worst,       \* ghost: the most there were in a row since boot
    cut,         \* ghost: a flush has lost rows since boot
    restarts, reads

ram == <<counter, telemetry, sensor, count, writeIndex, lastCopy>>
ghosts == <<total, first, booted, kept, misses, worst, cut>>
answer == <<reader, reply>>
vars == <<at, ram, mounted, files, out, answer, ghosts, restarts, reads>>

Slots == 0 .. (BufferSize - 1)
Header == 0
NoRows == [telemetry |-> <<>>, sensor |-> <<>>]
NoReply == [op |-> "none", from |-> 0, to |-> 0]
NotReading == [busy |-> FALSE, from |-> 0, since |-> 0]

BootRam ==
    [telemetry |-> [s \in Slots |-> 0], sensor |-> [s \in Slots |-> 0],
     lastCopy |-> [from |-> 0, to |-> 0]]

\* What fs_init leaves: a card that does not mount is formatted first.
FsInit(f) ==
    IF StorageFaults
      THEN [mounted : BOOLEAN, files : {f, NoRows}]
      ELSE {[mounted |-> TRUE, files |-> f]}

\* fs_init of init_modules has run when core 1 starts.
Init ==
    /\ at = "start"
    /\ counter = 0 /\ count = 0 /\ writeIndex = 0
    /\ telemetry = BootRam.telemetry /\ sensor = BootRam.sensor
    /\ lastCopy = BootRam.lastCopy
    /\ out = NoRows /\ reader = NotReading /\ reply = NoReply
    /\ mounted \in {i.mounted : i \in FsInit(NoRows)}
    /\ files = NoRows /\ booted = NoRows /\ kept = NoRows
    /\ total = 0 /\ first = 0 /\ misses = 0 /\ worst = 0 /\ cut = FALSE
    /\ restarts = 0 /\ reads = 0

Goto(from, to) == at = from /\ at' = to

-----------------------------------------------------------------------------
(* TelemetryManager::init.                                                 *)

\* fopen(path, "w") empties the file; only a second attempt writes the header.
Created(rows) == IF StorageFaults THEN {<<>>, <<Header>>, rows} ELSE {<<>>}

InitFiles ==
    /\ Goto("start", "loop")
    /\ IF mounted
         THEN \E t \in Created(files.telemetry), s \in Created(files.sensor) :
                 files' = [telemetry |-> t, sensor |-> s]
         ELSE UNCHANGED files
    /\ kept' = files'
    /\ UNCHANGED <<ram, mounted, out, answer, total, first, booted, misses, worst, cut,
                   restarts, reads>>

-----------------------------------------------------------------------------
(* collect_telemetry.                                                      *)

\* Mutant: the sensor record goes to the slot after its telemetry record's.
SensorSlot_Next == (writeIndex + 1) % BufferSize
SensorSlot == writeIndex

\* Mutant: a full buffer keeps its old records and drops the new one.
NextIndex_Stuck ==
    IF count = BufferSize - 1 THEN writeIndex ELSE (writeIndex + 1) % BufferSize
NextIndex == (writeIndex + 1) % BufferSize

\* The buffers, under telemetry_mutex, which only core 1 ever takes.
Collect ==
    /\ total < MaxRecords
    /\ Goto("loop", "copy")
    /\ total' = total + 1
    /\ telemetry' = [telemetry EXCEPT ![writeIndex] = total + 1]
    /\ sensor' = [sensor EXCEPT ![SensorSlot] = total + 1]
    /\ writeIndex' = NextIndex
    /\ count' = IF count < BufferSize THEN count + 1 ELSE count
    /\ lastCopy' = [lastCopy EXCEPT !.from = total + 1]
    /\ UNCHANGED <<counter, mounted, files, out, answer, first, booted, kept,
                   misses, worst, cut, restarts, reads>>

\* The rest of the copy, and the counter of core1_entry.
CopyEnd ==
    /\ Goto("copy", "counted")
    /\ lastCopy' = [lastCopy EXCEPT !.to = total]
    /\ counter' = counter + 1
    /\ UNCHANGED <<telemetry, sensor, count, writeIndex, mounted, files, out, answer,
                   ghosts, restarts, reads>>

-----------------------------------------------------------------------------
(* is_telemetry_flush_time and flush_telemetry.                            *)

FlushTime == counter >= FlushThreshold

NoFlush ==
    /\ ~FlushTime
    /\ Goto("counted", "loop")
    /\ UNCHANGED <<ram, mounted, files, out, answer, ghosts, restarts, reads>>

Missed ==
    /\ misses' = misses + 1
    /\ worst' = IF misses + 1 > worst THEN misses + 1 ELSE worst

\* is_telemetry_flush_time has reset the counter; without a card the buffer stays.
FlushUnmounted ==
    /\ FlushTime
    /\ ~mounted
    /\ Goto("counted", "loop")
    /\ counter' = 0
    /\ Missed
    /\ UNCHANGED <<telemetry, sensor, count, writeIndex, lastCopy, mounted, files, out,
                   answer, total, first, booted, kept, cut, restarts, reads>>

\* The first fopen; whatever comes of it there is a second one.
OpenTelemetry ==
    /\ FlushTime
    /\ mounted
    /\ \/ Goto("counted", "opened")
       \/ StorageFaults /\ Goto("counted", "unopened")
    /\ counter' = 0
    /\ UNCHANGED <<telemetry, sensor, count, writeIndex, lastCopy, mounted, files, out,
                   answer, ghosts, restarts, reads>>

\* The second fopen.  One of the two has failed: the other is closed again, if it was
\* opened, and the buffer stays.
FlushFail ==
    /\ Goto("unopened", "loop") \/ (StorageFaults /\ Goto("opened", "loop"))
    /\ Missed
    /\ UNCHANGED <<ram, mounted, files, out, answer, total, first, booted, kept, cut,
                   restarts, reads>>

\* Mutant: the oldest record of a full buffer is taken to be in slot 0.
ReadIndex_Zero == 0
ReadIndex == IF count = BufferSize THEN writeIndex ELSE 0

Rows(buffer) == [i \in 1 .. count |-> buffer[(ReadIndex + (i - 1)) % BufferSize]]

\* Mutant: the write index survives the flush.
IndexAfterFlush_Kept == writeIndex
IndexAfterFlush == 0

\* Both files are open: print every record, then clear the buffer.
FlushWrite ==
    /\ Goto("opened", "close")
    /\ out' = [telemetry |-> Rows(telemetry), sensor |-> Rows(sensor)]
    /\ count' = 0 /\ writeIndex' = IndexAfterFlush
    /\ misses' = 0
    /\ UNCHANGED <<counter, telemetry, sensor, lastCopy, mounted, files, answer, total,
                   first, booted, kept, worst, cut, restarts, reads>>

\* How many of the rows reach the card: the results of fprintf and fclose are
\* ignored, and a handle takes nothing more after its first failed write.
Reached(rows) == IF StorageFaults THEN 0 .. Len(rows) ELSE {Len(rows)}

CloseFile(f) ==
    /\ \E n \in Reached(out[f]) :
          /\ files' = [files EXCEPT ![f] = @ \o SubSeq(out[f], 1, n)]
          /\ cut' = (cut \/ n < Len(out[f]))
    /\ out' = [out EXCEPT ![f] = <<>>]
    /\ UNCHANGED <<ram, mounted, answer, total, first, booted, kept, misses, worst,
                   restarts, reads>>

CloseTelemetry == Goto("close", "close2") /\ CloseFile("telemetry")
CloseSensor == Goto("close2", "loop") /\ CloseFile("sensor")

-----------------------------------------------------------------------------
(* The environment of core 1.                                              *)

\* A card that is not mounted is mounted, and perhaps formatted, when an event is
\* saved (EventManager, which also has the race of two cores in fs_init).
Remount ==
    /\ ~mounted
    /\ \E i \in FsInit(files) :
          /\ mounted' = i.mounted
          /\ files' = i.files
          /\ kept' = IF at = "start" \/ i.files = files THEN kept ELSE i.files
    /\ UNCHANGED <<at, ram, out, answer, total, first, booted, misses, worst, cut,
                   restarts, reads>>

\* Mutant: the newest slot of the buffer.
LastRecord_FromBuffer ==
    LET slot == telemetry[(writeIndex + BufferSize - 1) % BufferSize]
    IN  [from |-> slot, to |-> slot]
LastRecord == lastCopy

\* The newest record of which the copy is complete.
Complete == IF at = "copy" THEN total - 1 ELSE total

\* handle_get_last_telemetry_record on core 0: to_csv reads field by field, and
\* get_last_telemetry_record_csv takes no mutex.  Its text is never empty.
ReadBegin ==
    /\ ~reader.busy
    /\ reads < MaxReads
    /\ reads' = reads + 1
    /\ reader' = [busy |-> TRUE, from |-> LastRecord.from, since |-> Complete]
    /\ UNCHANGED <<at, ram, mounted, files, out, reply, ghosts, restarts>>

ReadEnd ==
    /\ reader.busy
    /\ reply' = [op |-> "VAL", from |-> reader.from, to |-> LastRecord.to]
    /\ reader' = NotReading
    /\ UNCHANGED <<at, ram, mounted, files, out, ghosts, restarts, reads>>

\* Power is lost at any moment; what is in RAM goes, what is on the card stays.
Restart ==
    /\ restarts < MaxRestarts
    /\ restarts' = restarts + 1
    /\ at' = "start"
    /\ counter' = 0 /\ count' = 0 /\ writeIndex' = 0
    /\ telemetry' = BootRam.telemetry /\ sensor' = BootRam.sensor
    /\ lastCopy' = BootRam.lastCopy
    /\ out' = NoRows /\ reader' = NotReading /\ reply' = NoReply
    /\ \E i \in FsInit(files) : mounted' = i.mounted /\ files' = i.files
    /\ booted' = files' /\ kept' = files'
    /\ first' = total /\ misses' = 0 /\ worst' = 0 /\ cut' = FALSE
    /\ UNCHANGED <<total, reads>>

Done ==
    /\ total = MaxRecords /\ at = "loop"
    /\ UNCHANGED vars

Core1Step ==
    \/ InitFiles
    \/ Collect \/ CopyEnd
    \/ NoFlush \/ FlushUnmounted \/ OpenTelemetry \/ FlushFail \/ FlushWrite
    \/ CloseTelemetry \/ CloseSensor

Next == Core1Step \/ Remount \/ ReadBegin \/ ReadEnd \/ Restart \/ Done

Spec == Init /\ [][Next]_vars

-----------------------------------------------------------------------------
(* Properties.                                                             *)

\* What this boot has added to a file, and what is still on its way to it.
Added(rows, old) == SubSeq(rows, Len(old) + 1, Len(rows))
Written(f) == Added(files[f], kept[f]) \o out[f]
Numbers(a, b) == [i \in 1 .. (b - a) |-> a + i]

\* The two files go in step: as long as writes succeed the n-th new row of
\* /sensors.csv was taken together with the n-th new row of /telemetry.csv.
FilesPaired == at # "close2" /\ ~cut => Written("telemetry") = Written("sensor")

\* However many flushes fail, the buffer has the newest records, in order: what is
\* lost is the oldest.  TELEMETRY_BUFFER_SIZE is twice flush_threshold so that one
\* failed flush does no harm: unless so many fail to open the files in a row that the
\* buffer overflows, or a write is cut short, every record of this boot is in the file
\* or in the buffer, and without a gap.
NoLossWhileBuffered ==
    /\ Rows(telemetry) = Numbers(total - count, total)
    /\ (worst + 1) * FlushThreshold =< BufferSize /\ ~cut =>
           Written("telemetry") \o Rows(telemetry) = Numbers(first, total)

\* Whatever fails, no row is written twice and none out of order: a failed flush
\* is followed by a bigger one, never by a second copy of the same records.
RowsOnce ==
    \A f \in {"telemetry", "sensor"} :
        LET rows == Written(f) \o Rows(telemetry) IN
        \A i \in 1 .. (Len(rows) - 1) : rows[i] < rows[i + 1]

\* Record n as a reader of this boot sees it: the copy is empty until the first.
Told(n) == IF n > first THEN n ELSE 0

\* Command 8.2 takes no mutex, so its answer may be pieced together of several records;
\* but each field is of a record that was the newest at some time while it was read,
\* whatever the buffer and the files go through.  So an answer is one record, whole and
\* the newest one, unless a copy was under way between its first and its last field.
LastRecordTold ==
    [][reader.busy /\ ~reader'.busy /\ reply'.op = "VAL" =>
           LET told == {Told(n) : n \in reader.since .. total}
           IN  reply'.from \in told /\ reply'.to \in told]_vars

-----------------------------------------------------------------------------
(* What the comments say and the code does not do.                         *)

\* telemetry_manager.cpp:50 "creates the telemetry and sensor data CSV files if
\* they don't exist": rows on the card survive the next boot.
HistoryKept ==
    at # "start" =>
        /\ Len(files.telemetry) >= Len(booted.telemetry)
        /\ SubSeq(files.telemetry, 1, Len(booted.telemetry)) = booted.telemetry
=============================================================================
