------------------------------- MODULE SdCard -------------------------------
(***************************************************************************)
(* The block device of the SD card, pico-vfs blockdevice/sd.c: one call of  *)
(* init, read, program or trim at a time, under the device's mutex, as a    *)
(* sequence of SPI commands and data blocks.  Every command may fail.       *)
(*                                                                         *)
(* The card itself is external: it takes a command or not, and answers by   *)
(* one of the classes that _cmd tells apart.  A command that it does not    *)
(* answer properly it has not taken, and data is not altered on the way     *)
(* (the firmware creates the device with enable_crc = false).  The retries  *)
(* inside one command, three of any and five of CMD0, are one step: the     *)
(* answer is that of the last one.                                          *)
(***************************************************************************)
EXTENDS Integers, Sequences

CONSTANTS
    Size,           \* blocks of the card
    Unit,           \* block_size, in bytes: 512
    Values, Erased, \* what a block may hold, and what it holds when trimmed
    Kinds,          \* the cards: "V1" and "V2" (standard), "V2HC" (high capacity)
    EraseSize,      \* erase_size of each kind, in blocks, from the card's register
    Callers, Nobody,
    MaxFaults,      \* bound of the model: failures of the card
    MaxPolls        \* ACMD41 polls that fit its time limit

ASSUME CardAssumption ==
    /\ Size \in Nat \ {0} /\ Unit \in Nat \ {0, 1}
    /\ Erased \in Values
    /\ Kinds \subseteq {"V1", "V2", "V2HC"}
    /\ \A k \in Kinds : EraseSize[k] \in Nat \ {0}
    /\ Nobody \notin Callers
    /\ MaxFaults \in Nat /\ MaxPolls \in Nat

VARIABLES
    (* the card *)
    kind,           \* which card is in the slot
    phase,          \* "off": in no SPI mode yet; "idle": initialising; "ready"
    mode,           \* what it is doing: "command", "send" or "receive"
    pointer,        \* the block it sends or receives next
    range,          \* the blocks CMD32 and CMD33 have selected
    stored,         \* what its blocks hold
    selected,       \* chip select
    faults,         \* ghost: failures so far
    (* blockdevice_t and blockdevice_sd_config_t *)
    card_type, is_initialized, total_sectors,
    ready,          \* device->is_initialized
    owner,          \* config->_mutex
    (* the call in progress, or the last one *)
    call, pc, left, polls, status, buffer,
    before,         \* ghost: stored when the call began
    damaged         \* ghost: a block of this call was refused or did not come

card == <<kind, phase, mode, pointer, range, stored, selected>>
config == <<card_type, is_initialized, total_sectors, ready>>
progress == <<call, left, polls, buffer, before, damaged>>
sdvars == <<card, config, progress, owner, pc, status, faults>>

Blocks == 0 .. (Size - 1)
CallType ==
    [op : {"none", "init", "read", "program", "trim"}, first : Nat, count : Nat, data : Values]
Call(op, first, count, data) == [op |-> op, first |-> first, count |-> count, data |-> data]
NoCall == Call("none", 0, 0, Erased)

\* A card that has just been powered, with a device nobody has initialised.
SdInit ==
    /\ kind \in Kinds /\ phase = "off" /\ mode = "command" /\ pointer = 0
    /\ range = <<0, 0>> /\ stored \in [Blocks -> Values] /\ selected = FALSE
    /\ card_type = "NONE" /\ is_initialized = FALSE /\ total_sectors = 0 /\ ready = FALSE
    /\ owner = Nobody /\ call = NoCall /\ pc = "free" /\ left = 0 /\ polls = 0
    /\ status = "OK" /\ buffer = <<>> /\ before = stored /\ damaged = FALSE
    /\ faults = 0

-----------------------------------------------------------------------------
(* The card, as _cmd sees it.                                              *)

DataCommands == {"CMD9", "CMD17", "CMD18", "CMD24", "CMD25"}
Addressed == {"CMD17", "CMD18", "CMD24", "CMD25", "CMD32", "CMD33"}

\* A card that streams blocks knows CMD12 only, and one that initialises few others.
Understood(cmd) ==
    /\ mode # "command" => cmd = "CMD12"
    /\ phase = "idle" => cmd \in {"CMD8", "CMD58", "CMD59", "ACMD41"}
    /\ cmd = "CMD8" => kind # "V1"

\* Its proper answers.  CMD0 starts anew; a card gets ready in time, and one
\* of high capacity only for a host that has announced it knows such cards.
Proper(cmd, block) ==
    IF cmd = "CMD0" THEN {"idle"}
    ELSE IF phase = "off" THEN {"none"}
    ELSE IF ~Understood(cmd) THEN {"illegal"}
    ELSE IF cmd \in Addressed /\ block \notin Blocks THEN {"param"}
    ELSE IF phase = "ready" THEN {"ok"}
    ELSE IF cmd = "ACMD41" /\ (kind = "V2HC" => card_type = "V2")
      THEN IF polls < MaxPolls THEN {"idle", "ok"} ELSE {"ok"}
    ELSE {"idle"}

\* A card that is still initialising when the time is up is faulty, too.
Faulty(cmd) == {"none", "illegal", "param"} \cup (IF cmd = "ACMD41" THEN {"idle"} ELSE {})
Answers(cmd, block) ==
    Proper(cmd, block) \cup (IF faults < MaxFaults THEN Faulty(cmd) ELSE {})

\* What _cmd makes of the answer.
StatusOf(answer) ==
    CASE answer = "none" -> "NO_DEVICE"
      [] answer = "illegal" -> "UNSUPPORTED"
      [] answer = "param" -> "PARAMETER"
      [] OTHER -> "OK"

\* One command: the card's part of the step, and the chip select, which stays
\* low for a data transfer.  "good" is whether the rest of the answer is.
Exchange(cmd, block, answer, good) ==
    LET taken == answer \in {"ok", "idle"}
        first == IF cmd = "CMD32" THEN block ELSE range[1]
        proper == answer \in Proper(cmd, block) /\ good
    IN
    /\ proper \/ faults < MaxFaults
    /\ faults' = IF proper THEN faults ELSE faults + 1
    /\ selected' = (cmd \in DataCommands /\ StatusOf(answer) = "OK")
    /\ phase' = IF ~taken THEN phase
                ELSE IF cmd = "CMD0" THEN "idle"
                ELSE IF cmd = "ACMD41" /\ answer = "ok" THEN "ready" ELSE phase
    /\ mode' = IF ~taken THEN mode
               ELSE IF cmd \in {"CMD9", "CMD17", "CMD18"} THEN "send"
               ELSE IF cmd \in {"CMD24", "CMD25"} THEN "receive" ELSE "command"
    /\ pointer' = IF taken /\ cmd \in Addressed THEN block ELSE pointer
    /\ range' = IF taken /\ cmd \in {"CMD32", "CMD33"} THEN <<first, block>> ELSE range
    /\ stored' = IF taken /\ cmd = "CMD38"
                 THEN [b \in Blocks |-> IF b \in range[1] .. range[2] THEN Erased ELSE stored[b]]
                 ELSE stored
    /\ UNCHANGED kind

Command(cmd, block, answer) == Exchange(cmd, block, answer, TRUE)

\* Between two calls the card may lose its power for a moment.
CardResets ==
    /\ pc = "free" /\ faults < MaxFaults /\ phase # "off"
    /\ faults' = faults + 1
    /\ phase' = "off" /\ mode' = "command"
    /\ UNCHANGED <<kind, pointer, range, stored, selected, config, progress, owner, pc, status>>

-----------------------------------------------------------------------------
(* Entry and exit of the calls.                                            *)

Begin(c, what) ==
    /\ pc = "free" /\ owner = Nobody
    /\ owner' = c
    /\ call' = what /\ left' = what.count /\ polls' = 0 /\ buffer' = <<>>
    /\ before' = stored /\ damaged' = FALSE /\ status' = "OK"
    /\ pc' = IF what.op = "init" THEN "go_idle" ELSE "check"
    /\ UNCHANGED <<card, config, faults>>

Go(label) == pc' = label /\ UNCHANGED <<owner, status>>

\* Mutant: the early returns of an error forget the mutex.
Return_Early(s) == pc' = "free" /\ owner' = (IF s = "OK" THEN Nobody ELSE owner) /\ status' = s

\* Every return gives the mutex back.
Return(s) == pc' = "free" /\ owner' = Nobody /\ status' = s

\* A step of init that only issues a command.
Silent == UNCHANGED progress

-----------------------------------------------------------------------------
(* init: init_card, the capacity and the block length.                     *)

\* init_card returns to init.
InitCardReturns(s) ==
    /\ is_initialized' = (s = "OK")
    /\ IF s = "OK" THEN Go("csd") ELSE Return(s)
    /\ UNCHANGED <<total_sectors, ready>>

GoIdle == \E a \in Answers("CMD0", 0) :
    /\ pc = "go_idle" /\ Command("CMD0", 0, a) /\ Silent
    /\ UNCHANGED card_type
    /\ IF a = "idle" THEN Go("cmd8") /\ UNCHANGED <<is_initialized, total_sectors, ready>>
                     ELSE InitCardReturns("NO_DEVICE")

\* CMD8 tells version 2 cards from older ones, which find it illegal; a wrong
\* echo is an unusable card.
SendIfCond == \E a \in Answers("CMD8", 0), echoed \in BOOLEAN :
    LET s == StatusOf(a)
        wrong == s = "OK" /\ ~echoed IN
    /\ pc = "cmd8" /\ Silent
    /\ Exchange("CMD8", 0, a, echoed)
    /\ card_type' = IF s = "UNSUPPORTED" \/ wrong THEN "UNKNOWN"
                    ELSE IF s = "NO_DEVICE" THEN card_type ELSE "V2"
    /\ IF wrong THEN InitCardReturns("UNUSABLE")
       ELSE IF s \in {"OK", "UNSUPPORTED"}
         THEN Go("ocr") /\ UNCHANGED <<is_initialized, total_sectors, ready>>
         ELSE InitCardReturns(s)

\* CMD58 the first time: the voltage range.
ReadOcr == \E a \in Answers("CMD58", 0), volts \in BOOLEAN :
    LET s == StatusOf(a) IN
    /\ pc = "ocr" /\ Silent
    /\ Exchange("CMD58", 0, a, volts)
    /\ card_type' = IF s = "OK" /\ ~volts THEN "UNKNOWN" ELSE card_type
    /\ IF s = "OK" /\ volts THEN Go("acmd41") /\ UNCHANGED <<is_initialized, total_sectors, ready>>
       ELSE InitCardReturns(IF s = "OK" THEN "UNUSABLE" ELSE s)

\* ACMD41 is repeated while the answer has the idle bit, as all answers but the
\* last have (0xFF for none, too), until the time is up; then the status is that
\* of the last answer, OK when that was "still idle".
SendOpCond == \E a \in Answers("ACMD41", 0) :
    /\ pc = "acmd41"
    /\ Command("ACMD41", 0, a)
    /\ UNCHANGED <<call, left, buffer, before, damaged>>
    /\ IF a = "ok"
         THEN /\ card_type' = IF card_type = "V2" THEN "V2" ELSE "V1"
              /\ Go(IF card_type = "V2" THEN "ccs" ELSE "crc_off")
              /\ UNCHANGED <<polls, is_initialized, total_sectors, ready>>
         ELSE IF polls < MaxPolls
         THEN polls' = polls + 1 /\ Go("acmd41") /\ UNCHANGED config
         ELSE /\ card_type' = "UNKNOWN" /\ UNCHANGED polls
              /\ InitCardReturns(StatusOf(a))

\* CMD58 the second time: the capacity class.  Its status is lost to CMD59's.
ReadCcs == \E a \in Answers("CMD58", 0) :
    /\ pc = "ccs" /\ Command("CMD58", 0, a) /\ Silent
    /\ card_type' = IF StatusOf(a) = "OK" /\ kind = "V2HC" THEN "V2HC" ELSE card_type
    /\ Go("crc_off") /\ UNCHANGED <<is_initialized, total_sectors, ready>>

CrcOff == \E a \in Answers("CMD59", 0) :
    /\ pc = "crc_off" /\ Command("CMD59", 0, a) /\ Silent
    /\ UNCHANGED card_type
    /\ InitCardReturns(StatusOf(a))

\* _sd_sectors: the command, then the register as a block of data.
SendCsd == \E a \in Answers("CMD9", 0) :
    /\ pc = "csd" /\ Command("CMD9", 0, a) /\ Silent
    /\ UNCHANGED <<card_type, is_initialized, ready>>
    /\ IF StatusOf(a) = "OK" THEN Go("csd_data") /\ UNCHANGED total_sectors
                             ELSE Return("DEVICE_ERROR") /\ total_sectors' = 0

\* Mutant: the size is used though the register did not come.
AfterCsd_Any(came) == Go("blocklen")

AfterCsd(came) == IF came THEN Go("blocklen") ELSE Return("DEVICE_ERROR")

ReadCsd == \E came \in BOOLEAN :
    /\ pc = "csd_data" /\ Silent
    /\ ~came => faults < MaxFaults
    /\ faults' = IF came THEN faults ELSE faults + 1
    /\ mode' = "command" /\ selected' = FALSE
    /\ total_sectors' = IF came THEN Size ELSE 0
    /\ AfterCsd(came)
    /\ UNCHANGED <<kind, phase, pointer, range, stored, card_type, is_initialized, ready>>

SetBlockLen == \E a \in Answers("CMD16", 0) :
    /\ pc = "blocklen" /\ Command("CMD16", 0, a) /\ Silent
    /\ IF StatusOf(a) = "OK" THEN ready' = TRUE /\ Return("OK")
                             ELSE UNCHANGED ready /\ Return("DEVICE_ERROR")
    /\ UNCHANGED <<card_type, is_initialized, total_sectors>>

InitStep ==
    \/ GoIdle \/ SendIfCond \/ ReadOcr \/ SendOpCond \/ ReadCcs \/ CrcOff
    \/ SendCsd \/ ReadCsd \/ SetBlockLen

-----------------------------------------------------------------------------
(* read, program and trim.                                                 *)

\* Mutant: every card is addressed by the block.
Address_Block(block) == block

\* "SDSC cards use byte addresses, SDHC cards block addresses": what the command
\* carries, and which block the card takes it for.
Address(block) == IF card_type = "V2HC" THEN block ELSE block * Unit
BlockAt(address) == IF kind = "V2HC" THEN address ELSE address \div Unit
Target(block) == BlockAt(Address(block))

\* _is_valid_trim asks for whole erase sectors too; a card need not be a multiple of them.
Valid ==
    /\ call.first + call.count =< total_sectors
    /\ call.op = "trim" => call.first % EraseSize[kind] = 0 /\ call.count % EraseSize[kind] = 0

Uninitialised == IF call.op = "read" THEN "PARAMETER" ELSE "NO_INIT"

Check ==
    /\ pc = "check"
    /\ IF ~Valid THEN Return("PARAMETER")
       ELSE IF ~is_initialized THEN Return(Uninitialised)
       ELSE Go(CASE call.op = "read" -> "read_cmd"
                 [] call.op = "program" -> IF call.count = 1 THEN "write_cmd" ELSE "pre_erase"
                 [] call.op = "trim" -> "erase_from")
    /\ UNCHANGED <<card, config, progress, faults>>

\* A command of a transfer that ends the call when it fails.
Or(cmd, block, next) == \E a \in Answers(cmd, block) :
    /\ Command(cmd, block, a) /\ Silent /\ UNCHANGED config
    /\ IF StatusOf(a) = "OK" THEN Go(next) ELSE Return(StatusOf(a))

ReadCommand ==
    /\ pc = "read_cmd"
    /\ Or(IF call.count > 1 THEN "CMD18" ELSE "CMD17", Target(call.first), "read_data")

\* A block comes, or its token does not within 300 ms and the loop ends.
ReadBlock == \E came \in BOOLEAN :
    /\ pc = "read_data" /\ left > 0
    /\ came => pointer \in Blocks
    /\ (pointer \in Blocks /\ ~came) => faults < MaxFaults
    /\ faults' = IF came \/ pointer \notin Blocks THEN faults ELSE faults + 1
    /\ buffer' = IF came THEN Append(buffer, stored[pointer]) ELSE buffer
    /\ pointer' = IF came THEN pointer + 1 ELSE pointer
    /\ left' = IF came THEN left - 1 ELSE 0
    /\ damaged' = ~came
    /\ status' = IF came THEN "OK" ELSE "NO_RESPONSE"
    /\ mode' = IF call.count > 1 THEN mode ELSE "command"
    /\ UNCHANGED <<kind, phase, range, stored, selected, config, owner, pc, call, polls, before>>

\* Mutant: the stop command is forgotten.
AfterRead_Direct == FALSE

AfterRead == call.count > 1

ReadEnd ==
    /\ pc = "read_data" /\ left = 0
    /\ selected' = FALSE
    /\ IF AfterRead THEN Go("stop") ELSE Return(status)
    /\ UNCHANGED <<kind, phase, mode, pointer, range, stored, config, progress, faults>>

\* The status of the stop command replaces that of the blocks.
StopTransmission == \E a \in Answers("CMD12", 0) :
    /\ pc = "stop" /\ Command("CMD12", 0, a) /\ Silent /\ UNCHANGED config
    /\ Return(StatusOf(a))

WriteCommand ==
    /\ pc = "write_cmd"
    /\ Or(IF call.count > 1 THEN "CMD25" ELSE "CMD24", Target(call.first), "write_data")

\* The result of ACMD23 is not looked at.
PreErase == \E a \in Answers("ACMD23", 0) :
    /\ pc = "pre_erase" /\ Command("ACMD23", 0, a) /\ Silent /\ UNCHANGED config
    /\ Go("write_cmd")

\* Mutant: the answer to the data is not looked at.
WriteStatus_Ignored(accepted) == status

\* A refused block fails a call of one block only; it ends the loop of several.
WriteStatus(accepted) == IF accepted \/ call.count > 1 THEN status ELSE "WRITE"

WriteBlock == \E accepted \in BOOLEAN :
    /\ pc = "write_data" /\ left > 0
    /\ accepted => pointer \in Blocks
    /\ (pointer \in Blocks /\ ~accepted) => faults < MaxFaults
    /\ faults' = IF accepted \/ pointer \notin Blocks THEN faults ELSE faults + 1
    /\ stored' = IF accepted THEN [stored EXCEPT ![pointer] = call.data] ELSE stored
    /\ pointer' = IF accepted THEN pointer + 1 ELSE pointer
    /\ left' = IF accepted THEN left - 1 ELSE 0
    /\ damaged' = ~accepted
    /\ status' = WriteStatus(accepted)
    /\ UNCHANGED <<kind, phase, mode, range, selected, config, owner, pc, call, polls, buffer, before>>

\* Several blocks end with the stop token; the card is deselected.
WriteEnd ==
    /\ pc = "write_data" /\ left = 0
    /\ mode' = "command" /\ selected' = FALSE
    /\ Return(status)
    /\ UNCHANGED <<kind, phase, pointer, range, stored, config, progress, faults>>

EraseFrom == pc = "erase_from" /\ Or("CMD32", Target(call.first), "erase_to")

\* size is shortened by one block before it is added.
LastBlock == (call.first + call.count) - 1

EraseTo == pc = "erase_to" /\ Or("CMD33", Target(LastBlock), "erase")

Erase == \E a \in Answers("CMD38", 0) :
    /\ pc = "erase" /\ Command("CMD38", 0, a) /\ Silent /\ UNCHANGED config
    /\ Return(StatusOf(a))

TransferStep ==
    \/ Check
    \/ ReadCommand \/ ReadBlock \/ ReadEnd \/ StopTransmission
    \/ PreErase \/ WriteCommand \/ WriteBlock \/ WriteEnd
    \/ EraseFrom \/ EraseTo \/ Erase

SdStep == InitStep \/ TransferStep

\* The device on its own: any calls, one after the other.
SdNext ==
    \/ \E c \in Callers, count \in 1 .. 2, first \in Blocks, data \in Values,
          op \in {"init", "read", "program", "trim"} : Begin(c, Call(op, first, count, data))
    \/ SdStep
    \/ CardResets

SdSpec == SdInit /\ [][SdNext]_sdvars
SdFairSpec == SdSpec /\ WF_sdvars(SdStep)

-----------------------------------------------------------------------------
(* Properties.                                                             *)

SdTypeOK ==
    /\ kind \in Kinds /\ phase \in {"off", "idle", "ready"}
    /\ mode \in {"command", "send", "receive"}
    /\ pointer \in Nat /\ range \in Nat \X Nat
    /\ stored \in [Blocks -> Values] /\ before \in [Blocks -> Values]
    /\ selected \in BOOLEAN /\ faults \in 0 .. MaxFaults
    /\ card_type \in {"NONE", "V1", "V2", "V2HC", "UNKNOWN"}
    /\ is_initialized \in BOOLEAN /\ total_sectors \in {0, Size} /\ ready \in BOOLEAN
    /\ owner \in Callers \cup {Nobody}
    /\ call \in CallType /\ left \in Nat /\ polls \in Nat
    /\ buffer \in Seq(Values) /\ damaged \in BOOLEAN

Ended == pc = "free" /\ owner = Nobody

\* The driver addresses the card in the card's unit.
UnitMatches == card_type = "V2HC" <=> kind = "V2HC"

\* Whatever fails, between two calls the mutex is free and the card deselected;
\* and only a call that has failed can leave the card in the middle of a transfer.
CardLeftReady ==
    pc = "free" => owner = Nobody /\ ~selected /\ (status = "OK" => mode = "command")

\* OK means done, as far as the driver knows the unit and no block of several was
\* refused: the read buffer holds the blocks, the written blocks the data, and
\* the trimmed ones nothing.
Extent == call.first .. ((call.first + call.count) - 1)

OkIsDone ==
    pc = "free" /\ status = "OK" /\ UnitMatches /\ (call.count > 1 => ~damaged) =>
    /\ call.op = "read" =>
          Len(buffer) = call.count
          /\ \A i \in 1 .. call.count : buffer[i] = stored[(call.first + i) - 1]
    /\ call.op = "program" => \A b \in Extent : stored[b] = call.data
    /\ call.op = "trim" => \A b \in Extent : stored[b] = Erased

\* No call, whether it fails or not, changes a block outside its extent or, if it
\* is a read or an init, any block at all.
OthersKept ==
    UnitMatches =>
    \A b \in Blocks :
        (call.op \in {"program", "trim"} => b \notin Extent) => stored[b] = before[b]

\* init says OK only when the card has become ready and its size is known, also
\* when ACMD41 has timed out, which init_card reports as OK.
InitIsHonest ==
    [][pc # "free" /\ pc' = "free" /\ call.op = "init" /\ status' = "OK" =>
           phase' = "ready" /\ total_sectors' = Size /\ ready']_sdvars

\* Every call returns.
CallsEnd == pc # "free" ~> pc = "free"
=============================================================================
