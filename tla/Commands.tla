------------------------------- MODULE Commands -------------------------------
(***************************************************************************)
(* The command interface: core 0 takes text from the UART or a LoRa packet, *)
(* executes the frames it finds (frame_process, execute_command and the      *)
(* handlers of lib/comms/commands) and sends the replies.  Core 1 resets the *)
(* satellite to its boot loader when a command asked for it.                 *)
(*                                                                         *)
(* What a reply reports (build number, uptime, events, records) is a word;   *)
(* what the commands change is state.  EventCommands has command 5.1 whole.  *)
(***************************************************************************)
EXTENDS FrameProtocol

CONSTANTS
    Requests,  \* frames the ground station sends
    Cuts,      \* frames of which only a beginning arrives, or only an end
    Radioed,   \* those of Requests that also come by LoRa
    Seconds,   \* bound of the model: those that come as a second frame in a line
    EventBufferSize, \* EVENT_BUFFER_SIZE: 100
    ClockFaults, \* TRUE iff the DS3231 may fail to answer
    MaxPieces  \* bound of the model: frames, whole or cut, in one line

ASSUME PieceAssumption == Radioed \cup Seconds \subseteq Requests /\ MaxPieces \in Nat
ASSUME RingAssumption == EventBufferSize \in Nat /\ EventBufferSize >= 10
ASSUME ClockAssumption == ClockFaults \in BOOLEAN

\* What the ground station sends, and all that a damaged line is made of, are frames.
Sendable(f) ==
    /\ HasWord(f.direction) /\ HasWord(f.group) /\ HasWord(f.command)
    /\ f.op \notin Marks \cup DOMAIN Number
    /\ Plain(f.value) /\ Plain(f.unit)

ASSUME RequestAssumption == \A f \in Requests \cup Cuts : Sendable(f)

VARIABLES
    core0,     \* "idle", "decode", "execute", "bridge" or "send"
    core1,     \* "loop", "wait" (the 100 ms before the reset) or "boot"
    line,      \* uart_buffer
    queue,     \* texts that are to be processed, the current one first
    request,   \* what frame_decode made of the current one
    outbox,    \* replies to it that are to be sent
    mode,      \* system_operating_mode
    verbosity, \* uart_verbosity
    gpsPower,  \* GPS_POWER_ENABLE_PIN
    clock,     \* the time the DS3231 was set to, 0 for never
    offset,    \* timezone_offset_minutes_
    pending,   \* pending_bootloader_reset
    pieces,    \* ghost: what was put in this line: "whole", "end" or "begin"
    whole,     \* ghost: the texts of the frames of this line that arrived whole
    handled,   \* ghost: how many texts of this line have been executed
    missed     \* ghost: frames of an undamaged line were left out

settings == <<verbosity, gpsPower, clock, offset, pending>>
ghosts == <<pieces, whole, handled, missed>>
NoFrame == Build("ERR", 0, 0, <<>>, <<>>)

vars == <<core0, core1, line, queue, request, outbox, mode, settings, ghosts>>

\* define_system_operating_mode has run; a power monitor that does not answer
\* reads as 0 V and 0 mA, so the mode may be either, whatever powers the satellite.
Init ==
    /\ core0 = "idle" /\ core1 = "loop"
    /\ line = <<>> /\ queue = <<>> /\ outbox = <<>>
    /\ request = NoFrame
    /\ mode \in {"BATTERY", "USB"}
    /\ verbosity = 4 /\ gpsPower = 1 /\ clock = 0 /\ offset = 60 /\ pending = FALSE
    /\ pieces = <<>> /\ whole = <<>> /\ handled = 0 /\ missed = FALSE

-----------------------------------------------------------------------------
(* receive.cpp.                                                            *)

Listening == core0 = "idle" /\ core1 # "boot"

Arrives(text, kind, frames) ==
    /\ Listening
    /\ Len(pieces) < MaxPieces
    /\ line' = line \o text
    /\ pieces' = Append(pieces, kind)
    /\ whole' = whole \o frames
    /\ UNCHANGED <<handled, missed, core0, core1, queue, request, outbox, mode, settings>>

Texts(frames) == {Encode(f) : f \in frames}
RequestTexts == Texts(Requests)
SecondTexts == Texts(Seconds)
RadioTexts == Texts(Radioed)
CutTexts == Texts(Cuts)

\* handle_uart_input appends to uart_buffer.
UartFrame(t) ==
    /\ pieces = <<>> \/ t \in SecondTexts
    /\ Arrives(t, "whole", <<t>>)

\* The sender stops in the middle of a frame, or the receiver joins in its middle.
UartBegin(t) == \E n \in 1 .. (Len(t) - 1) : Arrives(SubSeq(t, 1, n), "begin", <<>>)

UartEnd(t) ==
    /\ pieces = <<>>
    /\ \E n \in 2 .. Len(t) : Arrives(SubSeq(t, n, Len(t)), "end", <<>>)

Process(text) ==
    /\ queue' = Extract(text)
    /\ core0' = IF Extract(text) = <<>> THEN "idle" ELSE "decode"

\* Core 0 is through with a line, of which it has executed so many texts.
Undamaged == \A i \in 1 .. Len(pieces) : pieces[i] # "begin"

LineDone(executed) ==
    /\ pieces' = <<>> /\ whole' = <<>> /\ handled' = 0
    /\ missed' = (missed \/ (Undamaged /\ executed # Len(whole)))

\* '\r' or '\n'.
UartEndOfLine ==
    /\ Listening
    /\ line # <<>>
    /\ Process(line)
    /\ line' = <<>>
    /\ IF Extract(line) = <<>> THEN LineDone(0) ELSE UNCHANGED ghosts
    /\ UNCHANGED <<core1, request, outbox, mode, settings>>

\* on_receive and process_lora_packet, for a packet with the right addresses;
\* another one changes nothing.  Bound of the model: uart_buffer, which a packet
\* leaves alone, is empty.
LoraPacket(t) ==
    /\ Listening
    /\ line = <<>>
    /\ Process(t)
    /\ pieces' = <<"whole">> /\ whole' = <<t>>
    /\ UNCHANGED <<handled, missed, core1, line, request, outbox, mode, settings>>

-----------------------------------------------------------------------------
(* execute_command and the handlers.                                       *)

FrameDecode ==
    /\ core0 = "decode" /\ core1 # "boot"
    /\ core0' = "execute"
    /\ \E fs \in {Fields(Head(queue))} : request' = FrameFrom(fs)
    /\ UNCHANGED <<core1, line, queue, outbox, mode, settings, ghosts>>

Running(group, command) ==
    /\ core0 = "execute" /\ core1 # "boot"
    /\ request.group = group /\ request.command = command

Replies(frames) ==
    /\ core0' = "send"
    /\ outbox' = frames
    /\ UNCHANGED <<core1, line, queue, request, mode, ghosts>>

Reply(op, value) == Replies(<<Build(op, request.group, request.command, value, <<>>)>>)

Refuse(code) == Reply("ERR", <<code>>) /\ UNCHANGED settings

NotGet == request.op # "GET"

HasParam == request.value # <<>>
NumberParam == IsNumber(request.value)
Param == Stoi(request.value)

\* A command that only reads: GET without a parameter.
ReadOnly(group, command, answer) ==
    /\ Running(group, command)
    /\ IF NotGet THEN Refuse("INVALID_OPERATION")
       ELSE IF HasParam THEN Refuse("PARAM_UNNECESSARY")
       ELSE answer /\ UNCHANGED settings

\* An answer of so many SEQ frames, and the one that ends it.
SeqDone(word, pages) ==
    Replies([i \in 1 .. pages |-> Build("SEQ", request.group, request.command, <<word>>, <<>>)]
            \o <<Build("VAL", request.group, request.command, <<"SEQ_DONE">>, <<>>)>>)

\* The numbers of the 15 commands fill less than the 100 characters of a frame.
GetCommandsList == ReadOnly(1, 0, SeqDone("commands", 1))
GetBuildVersion == ReadOnly(1, 1, Reply("VAL", <<"build">>))
GetPowerMode == ReadOnly(1, 2, Reply("VAL", <<mode>>))
GetUptime == ReadOnly(1, 3, Reply("VAL", <<"uptime">>))

\* The comment at diagnostic_commands.cpp:175 has six.
Levels == 0 .. 4

Verbosity ==
    /\ Running(1, 8)
    /\ \/ /\ request.op = "GET"
          /\ IF HasParam THEN Refuse("PARAM_UNNECESSARY")
             ELSE Reply("VAL", <<Word(verbosity)>>) /\ UNCHANGED settings
       \/ /\ request.op = "SET"
          /\ IF ~NumberParam THEN Refuse("INVALID_FORMAT")
             ELSE IF Param \notin Levels THEN Refuse("PARAM_INVALID")
             ELSE /\ verbosity' = Param
                  /\ Reply("RES", <<"LEVEL_SET">>)
                  /\ UNCHANGED <<gpsPower, clock, offset, pending>>
       \/ request.op \notin {"GET", "SET"} /\ Refuse("INVALID_OPERATION")

\* Mutants: the mode is not asked for; the flag is not set.
OnGround_Always == TRUE
OnGround == mode = "USB"

ResetFlag_Never == FALSE
ResetFlag == TRUE

EnterBootloaderMode ==
    /\ Running(1, 9)
    /\ IF request.op # "SET" \/ ~OnGround THEN Refuse("INVALID_OPERATION")
       ELSE IF request.value # <<"USB">> THEN Refuse("PARAM_INVALID")
       ELSE /\ pending' = ResetFlag
            /\ Reply("RES", <<"REBOOT_BOOTSEL">>)
            /\ UNCHANGED <<verbosity, gpsPower, clock, offset>>

\* Whether a transfer with the DS3231 succeeds.
Answers == IF ClockFaults THEN BOOLEAN ELSE {TRUE}

\* -1 as a uint32_t, which is what get_local_time returns when it fails; the
\* handler takes 0 for the failure.
LocalTime(ok) == IF ok THEN <<"time">> ELSE <<"4294967295">>

\* What get_time returns when it fails, and the handler prints as the time.
NotRead == <<"-1">>

Time ==
    /\ Running(3, 0)
    /\ \/ /\ request.op = "SET"
          /\ IF ~HasParam THEN Refuse("PARAM_REQUIRED")
             ELSE IF ~NumberParam THEN Refuse("INVALID_FORMAT")
             ELSE IF Param =< 1742487032 \/ Param >= 1893520044 THEN Refuse("INVALID_VALUE")
             ELSE \/ ClockFaults /\ Refuse("FAIL_TO_SET")
                  \/ /\ clock' = Param
                     /\ \E ok \in Answers :
                           Reply("RES", IF ok THEN <<Word(Param)>> ELSE NotRead)
                     /\ UNCHANGED <<verbosity, gpsPower, offset, pending>>
       \/ /\ request.op = "GET"
          /\ IF HasParam THEN Refuse("PARAM_UNNECESSARY")
             ELSE (\E ok \in Answers : Reply("VAL", LocalTime(ok))) /\ UNCHANGED settings
       \/ request.op \notin {"GET", "SET"} /\ Refuse("INVALID_OPERATION")

\* The value of an int16_t.
Int16(n) == ((n + 32768) % 65536) - 32768

\* Mutant: the handler leaves the range to set_timezone_offset, which only prints.
OffsetOK_Any(n) == TRUE
OffsetOK(n) == n \in -720 .. 720

\* The settings can be printed, whatever they are set to.
ASSUME PrintAssumption ==
    /\ HasWord(1) /\ HasWord(4) /\ HasWord(60)
    /\ \A w \in DOMAIN Number : Int16(Number[w]) \in -720 .. 720 => HasWord(Int16(Number[w]))

\* DS3231::set_timezone_offset.
SetTimezoneOffset(n) == offset' = IF n \in -720 .. 720 THEN n ELSE offset

TimezoneOffset ==
    /\ Running(3, 1)
    /\ \/ /\ request.op = "GET"
          /\ IF HasParam THEN Refuse("PARAM_UNNECESSARY")
             ELSE Reply("VAL", <<Word(offset)>>) /\ UNCHANGED settings
       \/ /\ request.op = "SET"
          /\ IF ~HasParam THEN Refuse("PARAM_REQUIRED")
             ELSE IF ~NumberParam \/ ~OffsetOK(Int16(Param)) THEN Refuse("PARAM_INVALID")
             ELSE /\ SetTimezoneOffset(Int16(Param))
                  /\ Reply("RES", <<Word(Int16(Param))>>)
                  /\ UNCHANGED <<verbosity, gpsPower, clock, pending>>
       \/ request.op \notin {"GET", "SET"} /\ Refuse("INVALID_OPERATION")

GetInternalTemperature ==
    /\ Running(3, 4)
    /\ IF NotGet \/ HasParam THEN Refuse("INVALID_OPERATION")
       ELSE \E ok \in Answers :
               /\ IF ok THEN Replies(<<Build("VAL", 3, 4, <<"temperature">>, <<"C">>)>>)
                  ELSE Reply("ERR", <<"INTERNAL_FAIL_TO_READ">>)
               /\ UNCHANGED settings

\* How many events 5.1 asks for: 10 when it does not say, and all there are for 0.
EventsAsked == IF ~HasParam THEN 10 ELSE IF Param = 0 THEN EventBufferSize ELSE Param

\* Command 5.1 as far as its replies go: ten events in a frame, of as many as there
\* are.  stoul takes a negative number modulo 2^32, which is more than the ring holds.
GetLastEvents ==
    /\ Running(5, 1)
    /\ IF NotGet THEN Refuse("INVALID_OPERATION")
       ELSE IF HasParam /\ ~NumberParam THEN Refuse("PARAM_INVALID")
       ELSE IF EventsAsked \notin 0 .. EventBufferSize THEN Refuse("INVALID_VALUE")
       ELSE /\ \E pages \in 0 .. ((EventsAsked + 9) \div 10) : SeqDone("events", pages)
            /\ UNCHANGED settings

GetEventCount ==
    /\ Running(5, 2)
    /\ IF NotGet \/ HasParam THEN Refuse("INVALID_OPERATION")
       ELSE Reply("VAL", <<"count">>) /\ UNCHANGED settings

GpsPowerStatus ==
    /\ Running(7, 1)
    /\ \/ /\ request.op = "SET"
          /\ IF ~OnGround THEN Refuse("INVALID_OPERATION")
             ELSE IF ~HasParam THEN Refuse("PARAM_REQUIRED")
             ELSE IF ~NumberParam \/ Param \notin {0, 1} THEN Refuse("PARAM_INVALID")
             ELSE /\ gpsPower' = Param
                  /\ Reply("RES", <<Word(Param)>>)
                  /\ UNCHANGED <<verbosity, clock, offset, pending>>
       \/ /\ request.op = "GET"
          /\ IF HasParam THEN Refuse("PARAM_UNNECESSARY")
             ELSE Reply("VAL", <<Word(gpsPower)>>) /\ UNCHANGED settings
       \/ request.op \notin {"GET", "SET"} /\ Refuse("INVALID_OPERATION")

\* Core 0 stays in the loop of the pass-through until the user or the time ends it.
EnableGpsUartPassthrough ==
    /\ Running(7, 2)
    /\ IF request.op # "SET" \/ ~OnGround THEN Refuse("INVALID_OPERATION")
       ELSE IF HasParam /\ ~NumberParam THEN Refuse("INVALID_VALUE")
       ELSE /\ core0' = "bridge"
            /\ UNCHANGED <<core1, line, queue, request, outbox, mode, settings, ghosts>>

BridgeExit(reason) ==
    /\ core0 = "bridge" /\ core1 # "boot"
    /\ Reply("RES", <<reason>>)
    /\ UNCHANGED settings

\* Mutant: there is no time limit.
TimeLimit_None == FALSE
TimeLimit == TRUE

UserExit == BridgeExit("USER_EXIT")
BridgeTimeout == TimeLimit /\ BridgeExit("TIMEOUT")

\* A parameter is only refused when the operation is wrong too; an answer to 8.3
\* in that case has the number of 8.2.
LastRecord(command) ==
    /\ Running(8, command)
    /\ IF ~NotGet THEN Reply("VAL", <<"record">>)
       ELSE IF HasParam
         THEN Replies(<<Build("ERR", 8, 2, <<"PARAM_UNNECESSARY">>, <<>>)>>)
       ELSE Reply("ERR", <<"INVALID_OPERATION">>)
    /\ UNCHANGED settings

GetLastTelemetryRecord == LastRecord(2)
GetLastSensorRecord == LastRecord(3)

Known == {<<1, 0>>, <<1, 1>>, <<1, 2>>, <<1, 3>>, <<1, 8>>, <<1, 9>>, <<3, 0>>, <<3, 1>>,
          <<3, 4>>, <<5, 1>>, <<5, 2>>, <<7, 1>>, <<7, 2>>, <<8, 2>>, <<8, 3>>}

\* A command that is not in the table, and a frame that does not decode.
InvalidCommand ==
    /\ core0 = "execute" /\ core1 # "boot"
    /\ <<request.group, request.command>> \notin Known
    /\ Replies(<<Build("ERR", 0, 0, <<"INVALID_COMMAND">>, <<>>)>>)
    /\ UNCHANGED settings

\* Mutant: the texts behind the first one are dropped.
Rest_Dropped == <<>>
Rest == Tail(queue)

\* frame_process sends the replies one by one, then the next text's turn comes.
SendReply ==
    /\ core0 = "send" /\ core1 # "boot"
    /\ outbox' = Tail(outbox)
    /\ IF Len(outbox) > 1 THEN UNCHANGED <<core0, queue, request, ghosts>>
       ELSE /\ queue' = Rest
            /\ request' = NoFrame
            /\ core0' = IF Rest = <<>> THEN "idle" ELSE "decode"
            /\ IF Rest = <<>> THEN LineDone(handled + 1)
               ELSE handled' = handled + 1 /\ UNCHANGED <<pieces, whole, missed>>
    /\ UNCHANGED <<core1, line, mode, settings>>

Execute ==
    \/ GetCommandsList \/ GetBuildVersion \/ GetPowerMode \/ GetUptime
    \/ Verbosity \/ EnterBootloaderMode
    \/ Time \/ TimezoneOffset \/ GetInternalTemperature
    \/ GetLastEvents \/ GetEventCount
    \/ GpsPowerStatus \/ EnableGpsUartPassthrough
    \/ GetLastTelemetryRecord \/ GetLastSensorRecord
    \/ InvalidCommand

-----------------------------------------------------------------------------
(* core1_entry: is_bootloader_reset_pending is looked at in every round.    *)

Others == <<core0, line, queue, request, outbox, mode, settings, ghosts>>

NoticeReset == core1 = "loop" /\ pending /\ core1' = "wait" /\ UNCHANGED Others
ResetUsbBoot == core1 = "wait" /\ core1' = "boot" /\ UNCHANGED Others

\* Nothing runs any more.
Booted == core1 = "boot" /\ UNCHANGED vars

Receive ==
    \/ \E t \in RequestTexts : UartFrame(t)
    \/ \E t \in CutTexts : UartBegin(t) \/ UartEnd(t)
    \/ UartEndOfLine
    \/ \E t \in RadioTexts : LoraPacket(t)

Next ==
    \/ Receive \/ FrameDecode \/ Execute \/ UserExit \/ BridgeTimeout \/ SendReply
    \/ NoticeReset \/ ResetUsbBoot \/ Booted

Spec == Init /\ [][Next]_vars

\* Core 0 does not stop in the middle of a command, the pass-through ends when its
\* time is over, and core 1 goes round its loop.
Fairness ==
    /\ WF_vars(FrameDecode \/ Execute) /\ WF_vars(SendReply) /\ WF_vars(BridgeTimeout)
    /\ WF_vars(NoticeReset \/ ResetUsbBoot)

FairSpec == Spec /\ Fairness

-----------------------------------------------------------------------------
(* Properties.                                                             *)

Terminal == {"VAL", "RES", "ERR"}
Key(f) == <<f.group, f.command>>

\* A frame whose end was lost swallows what follows in its line, but what comes
\* of it is never taken for a command: whatever decodes was sent, whole.  And frames
\* that arrive whole, several in a line and behind the end of another, are executed one
\* by one in the order in which they were sent, none left out.
NothingInvented ==
    core0 \notin {"idle", "decode"} /\ Key(request) \in Known =>
        \E i \in 1 .. Len(whole) : whole[i] = Head(queue)

NoneLeftOut ==
    /\ ~missed
    /\ core0 # "idle" /\ Undamaged =>
          /\ handled + Len(queue) = Len(whole)
          /\ \A i \in 1 .. Len(queue) : queue[i] = whole[handled + i]

WholeFramesExecuted == NothingInvented /\ NoneLeftOut

\* The ground station can tell where an answer ends: any number of SEQ frames,
\* then one other, and all of them readable by the satellite's own rules under
\* the number of the command that was asked (8.3 apart, see LastRecord).
AnswersReadable ==
    core0 = "send" =>
        /\ \A i \in 1 .. Len(outbox) : outbox[i].op \in Terminal <=> i = Len(outbox)
        /\ \A i \in 1 .. Len(outbox) :
              LET f == Decode(Encode(outbox[i])) IN
              /\ <<f.op, f.value>> = <<outbox[i].op, outbox[i].value>>
              /\ \/ Key(f) = (IF Key(request) \in Known THEN Key(request) ELSE <<0, 0>>)
                 \/ Key(request) = <<8, 3>> /\ request.op # "GET"

\* Only a frame that the ground station sent as a SET, and that arrived whole,
\* changes a setting: no reading command does, no damaged frame, no operation the
\* satellite does not know, and none of its own replies should one come back to it.
SetTexts == Texts({f \in Requests : f.op = "SET"})

OnlySetChanges ==
    [][settings' # settings =>
          /\ Head(queue) \in SetTexts
          /\ \E i \in 1 .. Len(whole) : whole[i] = Head(queue)]_vars

\* In battery mode (flight) no sequence of frames cuts the power of the GPS, takes
\* core 0 away from the radio or resets the satellite.
FlightLocked ==
    mode = "BATTERY" => gpsPower = 1 /\ core0 # "bridge" /\ ~pending /\ core1 = "loop"

\* A RES reply tells the truth: the setting has the value that the reply gives, or the
\* one that was asked for when the reply has only a word for it (1.8, 1.9).  One reply
\* gives a value that was not set: handle_time does not look for a failure of get_time when
\* it reads the time back, whatever clock_commands.cpp:20 says of a confirmation.  It is -1
\* then, no time that can be set, and the clock has what was asked for all the same.
ConfirmedMeansDone ==
    core0 = "send" /\ outbox[1].op = "RES" =>
        LET value == outbox[1].value IN
        CASE Key(request) = <<1, 8>> -> value = <<"LEVEL_SET">> /\ verbosity = Param
          [] Key(request) = <<1, 9>> -> value = <<"REBOOT_BOOTSEL">> /\ pending
          [] Key(request) = <<3, 0>> -> clock = Param /\ (value = NotRead \/ Stoi(value) = clock)
          [] Key(request) = <<3, 1>> -> offset = Stoi(value)
          [] Key(request) = <<7, 1>> -> gpsPower = Stoi(value)
          [] OTHER -> TRUE

\* Core 0 always comes back to the radio: every command ends, also the
\* pass-through whose user never sends the exit sequence.
CommandsEnd == core0 # "idle" ~> core0 = "idle" \/ core1 = "boot"

\* A reset that was confirmed happens.
RebootHappens ==
    (core0 = "send" /\ Key(request) = <<1, 9>> /\ outbox[1].op = "RES") ~> core1 = "boot"
=============================================================================
