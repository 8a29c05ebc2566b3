------------------------------ MODULE LoRaRadio ------------------------------
(***************************************************************************)
(* The LoRa radio and the driver core 0 polls it with.  The radio is a set   *)
(* of registers both step on: it receives into, and sends from, one FIFO     *)
(* whose bases are both 0, and raises flags that stay until they are written *)
(* back.  Core 0 announces the boot, then polls: it takes a packet whose      *)
(* flag it finds, or arms the radio for one more; what it takes it checks    *)
(* the addresses of, executes, and answers.                                  *)
(*                                                                         *)
(* Every access of a register that the radio may overtake is a step.        *)
(***************************************************************************)
EXTENDS Integers, Sequences, FiniteSetsExt

CONSTANTS
    FifoSize,     \* of the radio: 256
    MaxPktLength, \* MAX_PKT_LENGTH and MAX_PACKET_SIZE, 255
    Packets,      \* what may be on the air: records of to, from, size
    BootSizes,    \* HELLO and START_MODE: bytes of the text and its final 0
    Replies,      \* sequences of such sizes, what a packet may be answered by
    MaxPackets, MaxTimeouts \* bounds of the model

Local == "satellite" \* lora_address_local
Remote == "ground"   \* lora_address_remote

ASSUME RadioAssumption ==
    /\ MaxPktLength \in Nat /\ FifoSize \in Nat /\ 2 < MaxPktLength /\ MaxPktLength < FifoSize
    /\ \A p \in Packets : p.size \in 1 .. MaxPktLength /\ p.from # Local
    /\ BootSizes \in Seq(Nat) /\ BootSizes # <<>> /\ Replies \subseteq Seq(Nat)
    /\ MaxPackets \in Nat /\ MaxTimeouts \in Nat

VARIABLES
    answers,   \* "radio", or how the bus reads without one: "low" or "high"
    wired,     \* is DIO0 at the pin given to the driver?
    chip,      \* the registers
    air,       \* the packet the radio is receiving
    pc,
    outgoing,  \* sizes of the messages still to send
    irqFlags, packetLength, packetIndex, buffer, \* of the driver and on_receive
    history,   \* ghost: packets and messages, in the order they began
    taken,     \* ghost: the bytes of the packets that were executed, in that order
    onAir,     \* ghost: what was sent, the bytes of each transmission
    overtaken, \* ghost: was the FIFO written while a packet in it was announced?
    timeouts

driver == <<irqFlags, packetLength, packetIndex, buffer>>
ghosts == <<history, taken, onAir, overtaken>>
vars == <<answers, wired, chip, air, pc, outgoing, driver, ghosts, timeouts>>

-----------------------------------------------------------------------------
(* The radio.                                                              *)

Flags == {"RX_DONE", "CRC_ERROR", "TX_DONE", "RX_TIMEOUT"}
Nothing == [number |-> 0, got |-> 0]
Byte(n, k) == [number |-> n, at |-> k] \* the k-th of the packet or message history[n]

\* Registers as the bus reads them; without a radio every bit is 0, or every bit 1.
IrqFlags == CASE answers = "radio" -> chip.irq [] answers = "low" -> {} [] answers = "high" -> Flags
OpMode == IF answers = "radio" THEN chip.mode ELSE answers
Set(c) == chip' = IF answers = "radio" THEN c ELSE chip

\* A write of the mode ends what the radio was receiving.
ToMode(c, mode) == [c EXCEPT !.mode = mode, !.into = 0]

\* The bytes at an address on, around the end of the FIFO.
Fifo(address, n) == [k \in 1 .. n |-> chip.fifo[(address + k - 1) % FifoSize]]

Receiving == chip.mode \in {"rx_continuous", "rx_single"}

\* A packet begins.  It is received only by a radio that listens and is not at another.
PacketBegins(p) ==
    /\ Len(SelectSeq(history, LAMBDA h : h.from # Local)) < MaxPackets
    /\ history' = Append(history, p)
    /\ air' = IF Receiving /\ air = Nothing THEN [number |-> Len(history) + 1, got |-> 0] ELSE air
    /\ UNCHANGED <<answers, wired, chip, pc, outgoing, driver, taken, onAir, overtaken, timeouts>>

\* Is a packet announced and not yet read?
Announced ==
    \/ "RX_DONE" \in chip.irq
    \/ pc \in {"clear", "length", "address", "idle"} /\ "RX_DONE" \in irqFlags

Receive ==
    /\ air # Nothing /\ air.got < history[air.number].size
    /\ chip' = [chip EXCEPT !.fifo[chip.into] = Byte(air.number, air.got + 1),
                            !.into = (chip.into + 1) % FifoSize]
    /\ air' = [air EXCEPT !.got = @ + 1]
    /\ overtaken' = (overtaken \/ Announced)
    /\ UNCHANGED <<answers, wired, pc, outgoing, driver, history, taken, onAir, timeouts>>

\* handleDio0Rise: DIO0 rises when a packet is complete - the mapping is never changed,
\* onTxDone's callback is not reached - and the handler clears the flags and points at
\* a packet that nobody is told of.
HandleDio0Rise(c) ==
    [c EXCEPT !.irq = {}, !.pointer = IF "CRC_ERROR" \in c.irq THEN @ ELSE c.current]

ReceiveDone(crcOk) ==
    /\ air # Nothing /\ air.got = history[air.number].size
    /\ LET done == [chip EXCEPT
                !.irq = @ \cup {"RX_DONE"} \cup IF crcOk THEN {} ELSE {"CRC_ERROR"},
                !.bytes = air.got,
                !.current = (chip.into - air.got) % FifoSize,
                !.mode = IF @ = "rx_single" THEN "standby" ELSE @]
       IN  /\ chip' = IF wired THEN HandleDio0Rise(done) ELSE done
           /\ packetIndex' = IF wired /\ "CRC_ERROR" \notin done.irq THEN 0 ELSE packetIndex
    /\ air' = Nothing
    /\ UNCHANGED <<answers, wired, pc, outgoing, irqFlags, packetLength, buffer, ghosts, timeouts>>

\* A single reception ends when nothing begins for a while.
ReceiveTimeout ==
    /\ chip.mode = "rx_single" /\ air = Nothing /\ timeouts < MaxTimeouts
    /\ chip' = [chip EXCEPT !.mode = "standby", !.irq = @ \cup {"RX_TIMEOUT"}]
    /\ timeouts' = timeouts + 1
    /\ UNCHANGED <<answers, wired, air, pc, outgoing, driver, ghosts>>

TransmitDone ==
    /\ chip.mode = "tx"
    /\ chip' = [chip EXCEPT !.mode = "standby", !.irq = @ \cup {"TX_DONE"}]
    /\ onAir' = Append(onAir, Fifo(0, chip.payload))
    /\ UNCHANGED <<answers, wired, air, pc, outgoing, driver, history, taken, overtaken, timeouts>>

-----------------------------------------------------------------------------
(* Sending.                                                                *)

Init ==
    /\ answers \in {"radio", "low", "high"} /\ wired \in BOOLEAN
    /\ chip = [mode |-> "sleep", irq |-> {}, fifo |-> [a \in 0 .. FifoSize - 1 |-> Byte(0, 0)],
               pointer |-> 0, payload |-> 1, bytes |-> 0, current |-> 0, into |-> 0]
    /\ air = Nothing /\ pc = "boot" /\ outgoing = <<>>
    /\ irqFlags = {} /\ packetLength = 0 /\ packetIndex = 0 /\ buffer = <<>>
    /\ history = <<>> /\ taken = <<>> /\ onAir = <<>> /\ overtaken = FALSE /\ timeouts = 0

\* begin: both bases are 0, the header is explicit, the radio stands by.
Begin(c) == [ToMode(c, "standby") EXCEPT !.pointer = 0, !.current = 0]

ReceiveContinuously(c) == ToMode(c, "rx_continuous")

\* initialize_radio; main goes on to the messages whether begin finds a radio or not.
InitializeRadio ==
    /\ pc = "boot"
    /\ chip' = IF answers = "radio" THEN ReceiveContinuously(Begin(chip)) ELSE chip
    /\ pc' = "begin" /\ outgoing' = BootSizes
    /\ UNCHANGED <<answers, wired, air, driver, ghosts, timeouts>>

IsTransmitting == OpMode \in {"tx", "high"}

\* Mutant: the FIFO pointer stays where the last packet was read.
BeginPacket_KeepPointer(c) ==
    IF IsTransmitting THEN c
    ELSE [ToMode(c, "standby") EXCEPT !.irq = @ \ {"TX_DONE"}, !.payload = 0]

\* send_message sends on if this returns 0.
BeginPacket(c) ==
    IF IsTransmitting THEN c
    ELSE [ToMode(c, "standby") EXCEPT !.irq = @ \ {"TX_DONE"}, !.pointer = 0, !.payload = 0]

\* As many as there is room for: send_message writes byte by byte, each of these limited.
Write(c, bytes) ==
    LET n == Min({Len(bytes), MaxPktLength - c.payload})
        offset(a) == (a - c.pointer) % FifoSize
    IN  [c EXCEPT !.fifo = [a \in DOMAIN @ |-> IF offset(a) < n THEN bytes[offset(a) + 1] ELSE c.fifo[a]],
                  !.pointer = (@ + n) % FifoSize, !.payload = @ + n]

\* The two addresses and the text.
Written(size) == [k \in 1 .. 2 + size |-> Byte(Len(history) + 1, k)]

SendMessage ==
    /\ pc = "begin" /\ outgoing # <<>>
    /\ Set(Write(BeginPacket(chip), Written(Head(outgoing))))
    /\ air' = Nothing
    /\ history' = Append(history, [to |-> Remote, from |-> Local, size |-> 2 + Head(outgoing)])
    /\ overtaken' = (overtaken \/ Announced)
    /\ outgoing' = Tail(outgoing) /\ pc' = "transmit"
    /\ UNCHANGED <<answers, wired, driver, taken, onAir, timeouts>>

EndPacket ==
    /\ pc = "transmit"
    /\ Set(ToMode(chip, "tx"))
    /\ pc' = "wait"
    /\ UNCHANGED <<answers, wired, air, outgoing, driver, ghosts, timeouts>>

\* endPacket's loop, without a limit.
TxDone ==
    /\ pc = "wait" /\ "TX_DONE" \in IrqFlags
    /\ Set([chip EXCEPT !.irq = @ \ {"TX_DONE"}])
    /\ pc' = "begin"
    /\ UNCHANGED <<answers, wired, air, outgoing, driver, ghosts, timeouts>>

AllSent ==
    /\ pc = "begin" /\ outgoing = <<>>
    /\ pc' = "poll"
    /\ UNCHANGED <<answers, wired, chip, air, outgoing, driver, ghosts, timeouts>>

-----------------------------------------------------------------------------
(* Polling: parse_packet.                                                  *)

ReadFlags ==
    /\ pc = "poll"
    /\ irqFlags' = IrqFlags /\ pc' = "clear"
    /\ UNCHANGED <<answers, wired, chip, air, outgoing, packetLength, packetIndex, buffer, ghosts, timeouts>>

PacketFound == "RX_DONE" \in irqFlags /\ "CRC_ERROR" \notin irqFlags

\* What was read is written back, twice.
ClearFlags ==
    /\ pc = "clear"
    /\ Set([chip EXCEPT !.irq = @ \ irqFlags])
    /\ pc' = IF PacketFound THEN "length" ELSE "mode"
    /\ packetIndex' = IF PacketFound THEN 0 ELSE packetIndex
    /\ overtaken' = (overtaken /\ (PacketFound \/ "RX_DONE" \in chip.irq \ irqFlags))
    /\ UNCHANGED <<answers, wired, air, outgoing, irqFlags, packetLength, buffer, history, taken, onAir, timeouts>>

ReadLength ==
    /\ pc = "length"
    /\ packetLength' = chip.bytes /\ pc' = "address"
    /\ UNCHANGED <<answers, wired, chip, air, outgoing, irqFlags, packetIndex, buffer, ghosts, timeouts>>

SetAddress ==
    /\ pc = "address"
    /\ chip' = [chip EXCEPT !.pointer = chip.current]
    /\ pc' = "idle"
    /\ UNCHANGED <<answers, wired, air, outgoing, driver, ghosts, timeouts>>

Idle ==
    /\ pc = "idle"
    /\ chip' = ToMode(chip, "standby") /\ air' = Nothing
    /\ pc' = IF packetLength = 0 THEN "poll" ELSE "receive"
    /\ UNCHANGED <<answers, wired, outgoing, driver, ghosts, timeouts>>

\* Mutant: a radio on standby is taken for one that listens.
Listening_Standby == OpMode \in {"rx_single", "standby"}

Listening == OpMode = "rx_single"

\* No packet: the radio is armed, unless it still is.
ReadMode ==
    /\ pc = "mode"
    /\ pc' = IF Listening THEN "poll" ELSE "arm"
    /\ UNCHANGED <<answers, wired, chip, air, outgoing, driver, ghosts, timeouts>>

Arm ==
    /\ pc = "arm"
    /\ Set([ToMode(chip, "rx_single") EXCEPT !.pointer = 0]) /\ air' = Nothing
    /\ pc' = "poll"
    /\ UNCHANGED <<answers, wired, outgoing, driver, ghosts, timeouts>>

-----------------------------------------------------------------------------
(* Executing: on_receive and process_lora_packet.                          *)

\* available counts by the radio's own length; each read moves the FIFO's pointer.
OnReceive ==
    /\ pc = "receive"
    /\ LET n == Min({packetLength, chip.bytes - packetIndex, MaxPktLength})
       IN  /\ buffer' = Fifo(chip.pointer, n)
           /\ chip' = [chip EXCEPT !.pointer = (@ + n) % FifoSize]
           /\ packetIndex' = packetIndex + n
    /\ pc' = "process"
    /\ UNCHANGED <<answers, wired, air, outgoing, irqFlags, packetLength, ghosts, timeouts>>

To(byte) == IF byte.at = 1 THEN history[byte.number].to ELSE "text"
From(byte) == IF byte.at = 2 THEN history[byte.number].from ELSE "text"

\* Mutant: the destination is not looked at.
Accepted_AnyDestination == Len(buffer) > 2 /\ From(buffer[2]) \in {Remote, Local}

Accepted == Len(buffer) > 2 /\ To(buffer[1]) = Local /\ From(buffer[2]) = Remote

ProcessPacket ==
    /\ pc = "process"
    /\ IF Accepted
       THEN /\ taken' = Append(taken, [bytes |-> buffer, torn |-> overtaken])
            /\ outgoing' \in Replies
       ELSE UNCHANGED <<taken, outgoing>>
    /\ overtaken' = FALSE /\ buffer' = <<>> /\ pc' = "begin"
    /\ UNCHANGED <<answers, wired, chip, air, irqFlags, packetLength, packetIndex, history, onAir, timeouts>>

-----------------------------------------------------------------------------

Radio ==
    \/ \E p \in Packets : PacketBegins(p)
    \/ Receive
    \/ \E crcOk \in BOOLEAN : ReceiveDone(crcOk)
    \/ ReceiveTimeout
    \/ TransmitDone

Send == InitializeRadio \/ SendMessage \/ EndPacket \/ TxDone \/ AllSent
Poll == ReadFlags \/ ClearFlags \/ ReadLength \/ SetAddress \/ Idle \/ ReadMode \/ Arm
Core0 == Send \/ Poll \/ OnReceive \/ ProcessPacket

Next == Radio \/ Core0
Spec == Init /\ [][Next]_vars

\* Core 0 runs and a radio sends what it is told to; nothing has to arrive.
FairSpec == Spec /\ WF_vars(Core0) /\ WF_vars(TransmitDone)

-----------------------------------------------------------------------------
(* Properties.                                                             *)

\* The FIFO is shared by both directions, and a flag outlives what it announced: still
\* a message of the satellite's own is never executed, each packet is executed at most
\* once and in the order of arrival, and it is executed whole - unless the FIFO was
\* written again between the flag and the reading: then what is executed is headed by
\* bytes from the ground, but may be pieced together of two packets, even of one that
\* was meant for another, and no checksum tells; and if the later one was complete it is
\* executed again.
ExecutedWasSent ==
    /\ \A t \in Range(taken) :
        LET n == t.bytes[1].number
        IN  /\ history[n].to = Local /\ history[n].from # Local
            /\ history[t.bytes[2].number].from = Remote
            /\ ~t.torn => t.bytes = [k \in 1 .. history[n].size |-> Byte(n, k)]
    /\ \A i, j \in DOMAIN taken :
        i < j => \/ taken[i].bytes[1].number < taken[j].bytes[1].number
                 \/ taken[i].torn /\ taken[i].bytes[1].number = taken[j].bytes[1].number

\* A message as it leaves: cut at the longest packet.
Cut(n) == Min({history[n].size, MaxPktLength})
Message(n) == [k \in 1 .. Cut(n) |-> Byte(n, k)]

Own(n) == history[n].from = Local
Transmitted(n) == \E i \in DOMAIN onAir : onAir[i] = Message(n)

\* Whatever packets came meanwhile, and wherever they left the FIFO and its pointer: each
\* transmission is one message of the satellite's, with the addresses before it, and
\* nothing else - no packet from the ground, nothing left of an earlier message; each
\* message is sent at most once and in the order they were given; and a radio that
\* answers has sent all of them whenever core 0 is not sending the last.
SentIsMessage ==
    /\ \A i \in DOMAIN onAir :
        LET n == onAir[i][1].number
        IN  /\ onAir[i] # <<>> /\ n \in DOMAIN history
            /\ Own(n) /\ onAir[i] = Message(n)
    /\ \A i, j \in DOMAIN onAir : i < j => onAir[i][1].number < onAir[j][1].number
    /\ answers = "radio" =>
        \A n \in DOMAIN history : Own(n) =>
            \/ Transmitted(n)
            \/ pc \in {"transmit", "wait"} /\ \A m \in n + 1 .. Len(history) : ~Own(m)

\* A radio that answers is armed again and again, whatever is received, rejected, timed
\* out or answered.  A bus without one, if it reads low, holds core 0 in the boot
\* for good: the messages are sent though begin has failed.
ListensAgain == answers # "low" => []<>(pc = "poll" /\ OpMode \in {"rx_single", "high"})
=============================================================================
