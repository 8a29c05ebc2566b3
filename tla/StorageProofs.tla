---------------------------- MODULE StorageProofs ----------------------------
(***************************************************************************)
(* Theorems about the block device under fs_init and the file system, and   *)
(* about fs_init itself, for every size of the card, every unit of addresses,*)
(* any number of failures and any number of calls of fs_init.               *)
(***************************************************************************)
EXTENDS Storage, SequenceTheorems, WellFoundedInduction, TLAPS

InitLabels == {"go_idle", "cmd8", "ocr", "acmd41", "ccs", "crc_off", "csd", "csd_data", "blocklen"}
ReadLabels == {"read_cmd", "read_data", "stop"}
WriteLabels == {"pre_erase", "write_cmd", "write_data"}
TrimLabels == {"erase_from", "erase_to", "erase"}

\* Which call is at a label, and that the calls of a block count have one.
PlaceOK ==
    /\ pc \in InitLabels \cup ReadLabels \cup WriteLabels \cup TrimLabels \cup {"free", "check"}
    /\ call.op \in {"read", "program"} => call.count > 0
    /\ pc = "check" => call.op \in {"read", "program", "trim"}
    /\ pc \in InitLabels => call.op = "init"
    /\ pc \in ReadLabels => call.op = "read"
    /\ pc \in WriteLabels => call.op = "program"
    /\ pc \in TrimLabels => call.op = "trim"
    /\ left =< call.count /\ (pc = "stop" => call.count > 1)
    /\ pc \in {"check", "read_cmd", "pre_erase", "write_cmd"} =>
          left = call.count /\ status = "OK" /\ ~damaged /\ buffer = <<>>

\* Mutex, chip select and transfer.
LineOK ==
    /\ pc = "free" => owner = Nobody
    /\ selected => pc \in {"csd_data", "read_data", "write_data"}
    /\ pc = "free" /\ status = "OK" => mode = "command"
    /\ pc = "read_data" /\ left = 0 /\ ~(call.count > 1) => mode = "command"
    /\ pc = "blocklen" => total_sectors = Size

\* Where the transfer is, in blocks, when the unit of addresses is the card's.
WhereOK ==
    /\ card_type = "V2HC" => kind = "V2HC"
    /\ UnitMatches =>
        /\ pc \in {"read_data", "write_data"} /\ left > 0 => pointer = call.first + (call.count - left)
        /\ pc = "erase_to" => range[1] = call.first /\ call.first \in Blocks
        /\ pc = "erase" => range = <<call.first, LastBlock>> /\ call.first \in Blocks /\ LastBlock \in Blocks

\* What has been done of the call.
DoneOK ==
    /\ call.op \in {"none", "init", "read"} => stored = before
    /\ pc \in {"check", "pre_erase", "write_cmd", "erase_from", "erase_to", "erase"} => stored = before
    /\ pc \in {"read_data", "write_data"} /\ damaged /\ call.count = 1 => status # "OK"
    /\ pc \in {"read_data", "write_data"} /\ damaged => left = 0
    /\ UnitMatches /\ pc \in {"read_data", "stop"} /\ ~damaged =>
        /\ Len(buffer) = call.count - left
        /\ \A i \in 1 .. Len(buffer) : buffer[i] = stored[(call.first + i) - 1]
    /\ UnitMatches /\ pc = "write_data" /\ ~damaged =>
        \A b \in call.first .. ((call.first + (call.count - left)) - 1) : stored[b] = call.data
    /\ pc = "stop" => left = 0

\* The types in two parts: what the card has, and what the driver has.
CardTypeOK ==
    /\ kind \in Kinds /\ phase \in {"off", "idle", "ready"}
    /\ mode \in {"command", "send", "receive"}
    /\ pointer \in Nat /\ range \in Nat \X Nat
    /\ stored \in [Blocks -> Values] /\ selected \in BOOLEAN /\ faults \in 0 .. MaxFaults

DriverTypeOK ==
    /\ before \in [Blocks -> Values]
    /\ card_type \in {"NONE", "V1", "V2", "V2HC", "UNKNOWN"}
    /\ is_initialized \in BOOLEAN /\ total_sectors \in {0, Size} /\ ready \in BOOLEAN
    /\ owner \in Callers \cup {Nobody}
    /\ call \in CallType /\ left \in Nat /\ polls \in Nat
    /\ buffer \in Seq(Values) /\ damaged \in BOOLEAN

SdInv == CardTypeOK /\ DriverTypeOK /\ PlaceOK /\ LineOK /\ WhereOK /\ DoneOK /\ OthersKept /\ OkIsDone

\* The steps of the device, as fs_init and the file system let it make them.
NewDevice ==
    /\ pc = "free"
    /\ card_type' = "NONE" /\ is_initialized' = FALSE /\ total_sectors' = 0 /\ ready' = FALSE
    /\ UNCHANGED <<card, progress, owner, pc, status, faults>>

Called == \E c \in Callers, what \in CallType :
    /\ Begin(c, what)
    /\ what.op # "none" /\ (what.op \in {"read", "program"} => what.count > 0)

DeviceStep == Called \/ SdStep \/ CardResets \/ NewDevice \/ UNCHANGED sdvars

-----------------------------------------------------------------------------
(* One command.                                                            *)

LEMMA AnswerFacts ==
    ASSUME CardTypeOK, NEW cmd, NEW block, NEW a \in Answers(cmd, block)
    PROVE  /\ a \in {"ok", "idle", "none", "illegal", "param"}
           /\ StatusOf(a) = "OK" <=> a \in {"ok", "idle"}
           /\ a \in {"ok", "idle"} /\ cmd \in Addressed => block \in Blocks
           /\ a \in {"ok", "idle"} /\ cmd = "CMD16" => phase = "ready"
<1>1. a \in Proper(cmd, block) \/ a \in Faulty(cmd)
  BY DEF Answers
<1>2. a \in {"ok", "idle", "none", "illegal", "param"}
  BY <1>1 DEF Proper, Faulty
<1>3. StatusOf(a) = "OK" <=> a \in {"ok", "idle"}
  BY <1>2 DEF StatusOf
<1>4. ASSUME a \in {"ok", "idle"}, cmd \in Addressed
      PROVE  block \in Blocks
  BY <1>1, <1>4 DEF Proper, Faulty, Addressed
<1>5. ASSUME a \in {"ok", "idle"}, cmd = "CMD16"
      PROVE  phase = "ready"
  BY <1>1, <1>5 DEF CardTypeOK, Proper, Faulty, Understood, Addressed
<1> QED
  BY <1>2, <1>3, <1>4, <1>5

\* What a command does to the card, and what the driver may rely on.
LEMMA ExchangeFacts ==
    ASSUME CardTypeOK, NEW cmd, NEW block, NEW a \in Answers(cmd, block), NEW good \in BOOLEAN,
           Exchange(cmd, block, a, good)
    PROVE  /\ CardTypeOK' /\ kind' = kind
           /\ selected' <=> cmd \in DataCommands /\ StatusOf(a) = "OK"
           /\ cmd \notin {"CMD0", "ACMD41"} => phase' = phase
           /\ StatusOf(a) = "OK" /\ cmd \notin DataCommands => mode' = "command"
           /\ StatusOf(a) = "OK" /\ cmd \in Addressed => block \in Blocks /\ pointer' = block
           /\ StatusOf(a) = "OK" /\ cmd = "CMD32" => range' = <<block, block>>
           /\ StatusOf(a) = "OK" /\ cmd = "CMD33" => range' = <<range[1], block>>
           /\ cmd \notin {"CMD32", "CMD33"} => range' = range
           /\ cmd # "CMD38" \/ StatusOf(a) # "OK" => stored' = stored
           /\ cmd = "CMD38" /\ StatusOf(a) = "OK" =>
                 stored' = [b \in Blocks |-> IF b \in range[1] .. range[2] THEN Erased ELSE stored[b]]
<1> DEFINE taken == a \in {"ok", "idle"}
<1>1. (StatusOf(a) = "OK" <=> taken) /\ (taken /\ cmd \in Addressed => block \in Blocks)
  BY AnswerFacts
<1>2. kind' = kind
  BY DEF Exchange
<1>3. selected' <=> cmd \in DataCommands /\ StatusOf(a) = "OK"
  BY DEF Exchange
<1>4. /\ phase' = IF ~taken THEN phase
                ELSE IF cmd = "CMD0" THEN "idle"
                ELSE IF cmd = "ACMD41" /\ a = "ok" THEN "ready" ELSE phase
      /\ mode' = IF ~taken THEN mode
               ELSE IF cmd \in {"CMD9", "CMD17", "CMD18"} THEN "send"
               ELSE IF cmd \in {"CMD24", "CMD25"} THEN "receive" ELSE "command"
  BY DEF Exchange
<1>5. pointer' = IF taken /\ cmd \in Addressed THEN block ELSE pointer
  BY DEF Exchange
<1>6. range' = IF taken /\ cmd \in {"CMD32", "CMD33"}
               THEN <<IF cmd = "CMD32" THEN block ELSE range[1], block>> ELSE range
  BY DEF Exchange
<1>7. stored' = IF taken /\ cmd = "CMD38"
                THEN [b \in Blocks |-> IF b \in range[1] .. range[2] THEN Erased ELSE stored[b]]
                ELSE stored
  BY DEF Exchange
<1>8. faults' \in 0 .. MaxFaults
  BY CardAssumption DEF Exchange, CardTypeOK
<1> HIDE DEF taken
<1>9. selected' \in BOOLEAN
  BY DEF Exchange
<1>10. phase' \in {"off", "idle", "ready"} /\ mode' \in {"command", "send", "receive"}
  BY <1>4 DEF CardTypeOK
<1>11. pointer' \in Nat /\ range' \in Nat \X Nat
  <2>1. cmd \in {"CMD32", "CMD33"} => cmd \in Addressed
    BY DEF Addressed
  <2>2. \A b \in Blocks : b \in Nat
    BY DEF Blocks
  <2>3. pointer \in Nat /\ range \in Nat \X Nat /\ range[1] \in Nat
    BY DEF CardTypeOK
  <2> QED
    BY <1>1, <1>5, <1>6, <2>1, <2>2, <2>3
<1>12. stored' \in [Blocks -> Values]
  BY <1>7, CardAssumption DEF CardTypeOK
<1>13. CardTypeOK'
  BY <1>2, <1>8, <1>9, <1>10, <1>11, <1>12 DEF CardTypeOK
<1>14. StatusOf(a) = "OK" /\ cmd \notin DataCommands => mode' = "command"
  BY <1>1, <1>4 DEF DataCommands
<1>15. cmd \notin {"CMD0", "ACMD41"} => phase' = phase
  BY <1>4
<1>16. /\ StatusOf(a) = "OK" /\ cmd = "CMD32" => range' = <<block, block>>
       /\ StatusOf(a) = "OK" /\ cmd = "CMD33" => range' = <<range[1], block>>
       /\ cmd \notin {"CMD32", "CMD33"} => range' = range
  BY <1>1, <1>6
<1> QED
  BY <1>1, <1>2, <1>3, <1>5, <1>7, <1>13, <1>14, <1>15, <1>16

LEMMA CommandFacts ==
    ASSUME CardTypeOK, NEW cmd, NEW block, NEW a \in Answers(cmd, block), Command(cmd, block, a)
    PROVE  /\ CardTypeOK' /\ kind' = kind
           /\ selected' <=> cmd \in DataCommands /\ StatusOf(a) = "OK"
           /\ cmd \notin {"CMD0", "ACMD41"} => phase' = phase
           /\ StatusOf(a) = "OK" /\ cmd \notin DataCommands => mode' = "command"
           /\ StatusOf(a) = "OK" /\ cmd \in Addressed => block \in Blocks /\ pointer' = block
           /\ StatusOf(a) = "OK" /\ cmd = "CMD32" => range' = <<block, block>>
           /\ StatusOf(a) = "OK" /\ cmd = "CMD33" => range' = <<range[1], block>>
           /\ cmd \notin {"CMD32", "CMD33"} => range' = range
           /\ cmd # "CMD38" \/ StatusOf(a) # "OK" => stored' = stored
           /\ cmd = "CMD38" /\ StatusOf(a) = "OK" =>
                 stored' = [b \in Blocks |-> IF b \in range[1] .. range[2] THEN Erased ELSE stored[b]]
<1>1. Exchange(cmd, block, a, TRUE)
  BY DEF Command
<1>2. TRUE \in BOOLEAN
  OBVIOUS
<1> QED
  BY <1>1, <1>2, ExchangeFacts

-----------------------------------------------------------------------------
(* The steps of init.                                                      *)

\* What every step of init leaves alone, and where it may go.
InitFrame ==
    /\ pc \in InitLabels /\ pc' \in InitLabels \cup {"free"}
    /\ UNCHANGED <<kind, stored, call, left, buffer, before, damaged>>
    /\ polls' \in Nat
    /\ card_type' = card_type \/ card_type' \in {"V1", "V2", "UNKNOWN"} \/ (card_type' = "V2HC" /\ kind = "V2HC")
    /\ is_initialized' \in BOOLEAN /\ total_sectors' \in {0, Size} /\ ready' \in BOOLEAN
    /\ IF pc' = "free" THEN owner' = Nobody ELSE owner' = owner
    /\ selected' => pc' = "csd_data"
    /\ pc' = "blocklen" => total_sectors' = Size
    /\ pc' = "free" /\ status' = "OK" =>
          pc = "blocklen" /\ mode' = "command" /\ phase' = "ready" /\ ready' /\ UNCHANGED total_sectors

LEMMA CardReturns ==
    ASSUME NEW s, DriverTypeOK, InitCardReturns(s)
    PROVE  /\ pc' = IF s = "OK" THEN "csd" ELSE "free"
           /\ is_initialized' \in BOOLEAN /\ total_sectors' \in {0, Size} /\ ready' \in BOOLEAN
           /\ IF pc' = "free" THEN owner' = Nobody ELSE owner' = owner
           /\ pc' = "free" => status' # "OK"
<1>1. /\ pc' = IF s = "OK" THEN "csd" ELSE "free"
      /\ IF pc' = "free" THEN owner' = Nobody ELSE owner' = owner
      /\ pc' = "free" => status' # "OK"
  BY DEF InitCardReturns, Go, Return
<1>2. is_initialized' \in BOOLEAN /\ total_sectors' \in {0, Size} /\ ready' \in BOOLEAN
  BY DEF InitCardReturns, DriverTypeOK
<1> QED
  BY <1>1, <1>2

\* Going on to another label of init, with the configuration as it was.
LEMMA GoesOn ==
    ASSUME NEW label, DriverTypeOK, Go(label), UNCHANGED <<is_initialized, total_sectors, ready>>
    PROVE  /\ pc' = label /\ owner' = owner
           /\ is_initialized' \in BOOLEAN /\ total_sectors' \in {0, Size} /\ ready' \in BOOLEAN
  BY DEF Go, DriverTypeOK

LEMMA InitShape ==
    ASSUME CardTypeOK, DriverTypeOK, InitStep
    PROVE  CardTypeOK' /\ InitFrame
<1> USE DEF Silent, progress
<1>1. CASE GoIdle
  <2>1. PICK a \in Answers("CMD0", 0) :
           /\ pc = "go_idle" /\ Command("CMD0", 0, a) /\ Silent /\ UNCHANGED card_type
           /\ IF a = "idle" THEN Go("cmd8") /\ UNCHANGED <<is_initialized, total_sectors, ready>>
                            ELSE InitCardReturns("NO_DEVICE")
    BY <1>1 DEF GoIdle
  <2>2. CardTypeOK' /\ kind' = kind /\ stored' = stored /\ ~selected'
    BY <2>1, CommandFacts DEF DataCommands
  <2>3. /\ pc' \in {"cmd8", "free"} /\ (IF pc' = "free" THEN owner' = Nobody ELSE owner' = owner)
        /\ is_initialized' \in BOOLEAN /\ total_sectors' \in {0, Size} /\ ready' \in BOOLEAN
        /\ pc' = "free" => status' # "OK"
    BY <2>1, CardReturns, GoesOn
  <2>4. UNCHANGED <<call, left, buffer, before, damaged>> /\ polls' \in Nat
    BY <2>1 DEF DriverTypeOK
  <2> QED
    BY <2>1, <2>2, <2>3, <2>4 DEF InitFrame, InitLabels
<1>2. CASE SendIfCond
  <2>1. PICK a \in Answers("CMD8", 0), echoed \in BOOLEAN :
           LET s == StatusOf(a)
               wrong == s = "OK" /\ ~echoed IN
           /\ pc = "cmd8" /\ Silent /\ Exchange("CMD8", 0, a, echoed)
           /\ card_type' = IF s = "UNSUPPORTED" \/ wrong THEN "UNKNOWN"
                           ELSE IF s = "NO_DEVICE" THEN card_type ELSE "V2"
           /\ IF wrong THEN InitCardReturns("UNUSABLE")
              ELSE IF s \in {"OK", "UNSUPPORTED"}
                THEN Go("ocr") /\ UNCHANGED <<is_initialized, total_sectors, ready>>
                ELSE InitCardReturns(s)
    BY <1>2 DEF SendIfCond
  <2>2. CardTypeOK' /\ kind' = kind /\ stored' = stored /\ ~selected'
    BY <2>1, ExchangeFacts DEF DataCommands
  <2>3. /\ pc' \in {"ocr", "free"} /\ (IF pc' = "free" THEN owner' = Nobody ELSE owner' = owner)
        /\ is_initialized' \in BOOLEAN /\ total_sectors' \in {0, Size} /\ ready' \in BOOLEAN
        /\ pc' = "free" => status' # "OK"
    BY <2>1, CardReturns, GoesOn
  <2>4. UNCHANGED <<call, left, buffer, before, damaged>> /\ polls' \in Nat
    BY <2>1 DEF DriverTypeOK
  <2> QED
    BY <2>1, <2>2, <2>3, <2>4 DEF InitFrame, InitLabels
<1>3. CASE ReadOcr
  <2>1. PICK a \in Answers("CMD58", 0), volts \in BOOLEAN :
           LET s == StatusOf(a) IN
           /\ pc = "ocr" /\ Silent /\ Exchange("CMD58", 0, a, volts)
           /\ card_type' = IF s = "OK" /\ ~volts THEN "UNKNOWN" ELSE card_type
           /\ IF s = "OK" /\ volts THEN Go("acmd41") /\ UNCHANGED <<is_initialized, total_sectors, ready>>
              ELSE InitCardReturns(IF s = "OK" THEN "UNUSABLE" ELSE s)
    BY <1>3 DEF ReadOcr
  <2>2. CardTypeOK' /\ kind' = kind /\ stored' = stored /\ ~selected'
    BY <2>1, ExchangeFacts DEF DataCommands
  <2>3. /\ pc' \in {"acmd41", "free"} /\ (IF pc' = "free" THEN owner' = Nobody ELSE owner' = owner)
        /\ is_initialized' \in BOOLEAN /\ total_sectors' \in {0, Size} /\ ready' \in BOOLEAN
        /\ pc' = "free" => status' # "OK"
    BY <2>1, CardReturns, GoesOn
  <2>4. UNCHANGED <<call, left, buffer, before, damaged>> /\ polls' \in Nat
    BY <2>1 DEF DriverTypeOK
  <2> QED
    BY <2>1, <2>2, <2>3, <2>4 DEF InitFrame, InitLabels
<1>4. CASE SendOpCond
  <2>1. PICK a \in Answers("ACMD41", 0) :
           /\ pc = "acmd41" /\ Command("ACMD41", 0, a)
           /\ UNCHANGED <<call, left, buffer, before, damaged>>
           /\ IF a = "ok"
                THEN /\ card_type' = IF card_type = "V2" THEN "V2" ELSE "V1"
                     /\ Go(IF card_type = "V2" THEN "ccs" ELSE "crc_off")
                     /\ UNCHANGED <<polls, is_initialized, total_sectors, ready>>
                ELSE IF polls < MaxPolls
                THEN polls' = polls + 1 /\ Go("acmd41") /\ UNCHANGED config
                ELSE /\ card_type' = "UNKNOWN" /\ UNCHANGED polls
                     /\ InitCardReturns(StatusOf(a))
    BY <1>4 DEF SendOpCond
  <2>2. CardTypeOK' /\ kind' = kind /\ stored' = stored /\ ~selected'
    BY <2>1, CommandFacts DEF DataCommands
  <2>3. /\ pc' \in {"ccs", "crc_off", "acmd41", "csd", "free"}
        /\ (IF pc' = "free" THEN owner' = Nobody ELSE owner' = owner)
        /\ is_initialized' \in BOOLEAN /\ total_sectors' \in {0, Size} /\ ready' \in BOOLEAN
        /\ pc' = "free" => status' # "OK"
    <3>1. CASE a = "ok"
      <4>1. /\ Go(IF card_type = "V2" THEN "ccs" ELSE "crc_off")
            /\ UNCHANGED <<is_initialized, total_sectors, ready>>
        BY <2>1, <3>1
      <4> QED
        BY <4>1, GoesOn
    <3>2. CASE a # "ok" /\ polls < MaxPolls
      <4>1. Go("acmd41") /\ UNCHANGED <<is_initialized, total_sectors, ready>>
        BY <2>1, <3>2 DEF config
      <4> QED
        BY <4>1, GoesOn
    <3>3. CASE a # "ok" /\ ~(polls < MaxPolls)
      <4>1. InitCardReturns(StatusOf(a))
        BY <2>1, <3>3
      <4> QED
        BY <4>1, CardReturns
    <3> QED
      BY <3>1, <3>2, <3>3
  <2>4. polls' \in Nat
    BY <2>1 DEF DriverTypeOK
  <2>5. card_type' = card_type \/ card_type' \in {"V1", "V2", "UNKNOWN"}
    BY <2>1 DEF config
  <2>6. UNCHANGED <<call, left, buffer, before, damaged>> /\ pc = "acmd41"
    BY <2>1
  <2> QED
    BY <2>2, <2>3, <2>4, <2>5, <2>6 DEF InitFrame, InitLabels
<1>5. CASE ReadCcs
  <2>1. PICK a \in Answers("CMD58", 0) :
           /\ pc = "ccs" /\ Command("CMD58", 0, a) /\ Silent
           /\ card_type' = IF StatusOf(a) = "OK" /\ kind = "V2HC" THEN "V2HC" ELSE card_type
           /\ Go("crc_off") /\ UNCHANGED <<is_initialized, total_sectors, ready>>
    BY <1>5 DEF ReadCcs
  <2>2. CardTypeOK' /\ kind' = kind /\ stored' = stored /\ ~selected'
    BY <2>1, CommandFacts DEF DataCommands
  <2>3. /\ pc' = "crc_off" /\ owner' = owner
        /\ is_initialized' \in BOOLEAN /\ total_sectors' \in {0, Size} /\ ready' \in BOOLEAN
    BY <2>1, GoesOn
  <2>4. UNCHANGED <<call, left, buffer, before, damaged>> /\ polls' \in Nat
    BY <2>1 DEF DriverTypeOK
  <2> QED
    BY <2>1, <2>2, <2>3, <2>4 DEF InitFrame, InitLabels
<1>6. CASE CrcOff
  <2>1. PICK a \in Answers("CMD59", 0) :
           /\ pc = "crc_off" /\ Command("CMD59", 0, a) /\ Silent /\ UNCHANGED card_type
           /\ InitCardReturns(StatusOf(a))
    BY <1>6 DEF CrcOff
  <2>2. CardTypeOK' /\ kind' = kind /\ stored' = stored /\ ~selected'
    BY <2>1, CommandFacts DEF DataCommands
  <2>3. /\ pc' \in {"csd", "free"} /\ (IF pc' = "free" THEN owner' = Nobody ELSE owner' = owner)
        /\ is_initialized' \in BOOLEAN /\ total_sectors' \in {0, Size} /\ ready' \in BOOLEAN
        /\ pc' = "free" => status' # "OK"
    BY <2>1, CardReturns
  <2>4. UNCHANGED <<call, left, buffer, before, damaged>> /\ polls' \in Nat
    BY <2>1 DEF DriverTypeOK
  <2> QED
    BY <2>1, <2>2, <2>3, <2>4 DEF InitFrame, InitLabels
<1>7. CASE SendCsd
  <2>1. PICK a \in Answers("CMD9", 0) :
           /\ pc = "csd" /\ Command("CMD9", 0, a) /\ Silent
           /\ UNCHANGED <<card_type, is_initialized, ready>>
           /\ IF StatusOf(a) = "OK" THEN Go("csd_data") /\ UNCHANGED total_sectors
                                    ELSE Return("DEVICE_ERROR") /\ total_sectors' = 0
    BY <1>7 DEF SendCsd
  <2>2. CardTypeOK' /\ kind' = kind /\ stored' = stored /\ (selected' => StatusOf(a) = "OK")
    BY <2>1, CommandFacts
  <2>3. /\ pc' = IF StatusOf(a) = "OK" THEN "csd_data" ELSE "free"
        /\ (IF pc' = "free" THEN owner' = Nobody ELSE owner' = owner)
        /\ pc' = "free" => status' # "OK"
    BY <2>1 DEF Go, Return
  <2>4. is_initialized' \in BOOLEAN /\ total_sectors' \in {0, Size} /\ ready' \in BOOLEAN
    BY <2>1 DEF DriverTypeOK
  <2>5. UNCHANGED <<call, left, buffer, before, damaged>> /\ polls' \in Nat
    BY <2>1 DEF DriverTypeOK
  <2> QED
    BY <2>1, <2>2, <2>3, <2>4, <2>5 DEF InitFrame, InitLabels
<1>8. CASE ReadCsd
  <2>1. PICK came \in BOOLEAN :
           /\ pc = "csd_data" /\ Silent
           /\ ~came => faults < MaxFaults
           /\ faults' = IF came THEN faults ELSE faults + 1
           /\ mode' = "command" /\ selected' = FALSE
           /\ total_sectors' = IF came THEN Size ELSE 0
           /\ AfterCsd(came)
           /\ UNCHANGED <<kind, phase, pointer, range, stored, card_type, is_initialized, ready>>
    BY <1>8 DEF ReadCsd
  <2>2. CardTypeOK'
    <3>1. faults' \in 0 .. MaxFaults
      BY <2>1, CardAssumption DEF CardTypeOK
    <3> QED
      BY <2>1, <3>1 DEF CardTypeOK
  <2>3. /\ pc' = IF came THEN "blocklen" ELSE "free"
        /\ (IF pc' = "free" THEN owner' = Nobody ELSE owner' = owner)
        /\ pc' = "free" => status' # "OK"
    BY <2>1 DEF AfterCsd, Go, Return
  <2>4. is_initialized' \in BOOLEAN /\ total_sectors' \in {0, Size} /\ ready' \in BOOLEAN
    BY <2>1 DEF DriverTypeOK
  <2>5. UNCHANGED <<call, left, buffer, before, damaged>> /\ polls' \in Nat
    BY <2>1 DEF DriverTypeOK
  <2> QED
    BY <2>1, <2>2, <2>3, <2>4, <2>5 DEF InitFrame, InitLabels
<1>9. CASE SetBlockLen
  <2>1. PICK a \in Answers("CMD16", 0) :
           /\ pc = "blocklen" /\ Command("CMD16", 0, a) /\ Silent
           /\ IF StatusOf(a) = "OK" THEN ready' = TRUE /\ Return("OK")
                                    ELSE UNCHANGED ready /\ Return("DEVICE_ERROR")
           /\ UNCHANGED <<card_type, is_initialized, total_sectors>>
    BY <1>9 DEF SetBlockLen
  <2>2. /\ CardTypeOK' /\ kind' = kind /\ stored' = stored /\ ~selected' /\ phase' = phase
        /\ StatusOf(a) = "OK" => mode' = "command"
    BY <2>1, CommandFacts DEF DataCommands
  <2>3. StatusOf(a) = "OK" => phase = "ready"
    BY AnswerFacts
  <2>4. pc' = "free" /\ owner' = Nobody /\ (status' = "OK" => StatusOf(a) = "OK" /\ ready')
    BY <2>1 DEF Return
  <2>5. is_initialized' \in BOOLEAN /\ total_sectors' \in {0, Size} /\ ready' \in BOOLEAN
    BY <2>1 DEF DriverTypeOK
  <2>6. UNCHANGED <<call, left, buffer, before, damaged>> /\ polls' \in Nat
    BY <2>1 DEF DriverTypeOK
  <2> QED
    BY <2>1, <2>2, <2>3, <2>4, <2>5, <2>6 DEF InitFrame, InitLabels
<1> QED
  BY <1>1, <1>2, <1>3, <1>4, <1>5, <1>6, <1>7, <1>8, <1>9 DEF InitStep

LEMMA InitKeeps ==
    ASSUME SdInv, InitStep
    PROVE  SdInv'
<1>1. CardTypeOK' /\ InitFrame
  BY InitShape DEF SdInv
<1> USE <1>1 DEF InitFrame
<1>2. /\ call.op = "init" /\ call' = call /\ stored' = before' /\ stored = before
      /\ pc \in InitLabels /\ pc' \in InitLabels \cup {"free"}
  BY DEF SdInv, PlaceOK, DoneOK
<1>3. DriverTypeOK'
  BY DEF SdInv, DriverTypeOK
<1>4. PlaceOK'
  BY <1>2 DEF SdInv, PlaceOK, InitLabels, ReadLabels, WriteLabels, TrimLabels
<1>5. LineOK'
  BY <1>2 DEF LineOK, InitLabels
<1>6. WhereOK'
  BY <1>2 DEF SdInv, WhereOK, InitLabels
<1>7. DoneOK'
  BY <1>2 DEF DoneOK, InitLabels
<1>8. OthersKept' /\ OkIsDone'
  BY <1>2 DEF OthersKept, OkIsDone
<1> QED
  BY <1>3, <1>4, <1>5, <1>6, <1>7, <1>8 DEF SdInv

-----------------------------------------------------------------------------
(* The steps of read, program and trim.                                    *)

LEMMA Times ==
    ASSUME NEW b \in Int, NEW u \in Nat \ {0}
    PROVE  (b * u) \div u = b
<1> DEFINE q == (b * u) \div u
           r == (b * u) % u
<1>1. q \in Int /\ r \in 0 .. (u - 1) /\ b * u = u * q + r
  OBVIOUS
<1> HIDE DEF q, r
<1>2. u * (b - q) = r
  BY <1>1
<1>3. CASE b - q >= 1
  <2>1. u * (b - q) >= u
    BY <1>1, <1>3
  <2> QED
    BY <1>1, <1>2, <2>1
<1>4. CASE b - q =< -1
  <2>1. u * (b - q) =< -u
    BY <1>1, <1>4
  <2> QED
    BY <1>1, <1>2, <2>1
<1> QED
  BY <1>1, <1>3, <1>4 DEF q

\* A block is what the card takes its address for, if the unit is the card's.
LEMMA TargetIs ==
    ASSUME UnitMatches, NEW b \in Int
    PROVE  Target(b) = b
<1>1. (b * Unit) \div Unit = b
  BY Times, CardAssumption
<1>2. CASE kind = "V2HC"
  BY <1>2 DEF UnitMatches, Target, BlockAt, Address
<1>3. CASE kind # "V2HC"
  BY <1>1, <1>3 DEF UnitMatches, Target, BlockAt, Address
<1> QED
  BY <1>2, <1>3

LEMMA CallFacts ==
    ASSUME DriverTypeOK
    PROVE  call.first \in Nat /\ call.count \in Nat /\ call.data \in Values /\ LastBlock \in Int
  BY DEF DriverTypeOK, CallType, LastBlock

\* What no step of a transfer changes.
TransferFrame == UNCHANGED <<config, kind, call, before>>

\* A transfer that gives up, with the blocks as they are.
LEMMA GivesUp ==
    ASSUME SdInv, TransferFrame, CardTypeOK', DriverTypeOK', left' = left, stored' = stored,
           pc' = "free", owner' = Nobody, status' # "OK", ~selected'
    PROVE  SdInv'
<1> USE DEF TransferFrame, config
<1>1. PlaceOK' /\ LineOK'
  BY DEF SdInv, PlaceOK, LineOK, InitLabels, ReadLabels, WriteLabels, TrimLabels
<1>2. WhereOK' /\ DoneOK'
  BY DEF SdInv, WhereOK, DoneOK
<1>3. OthersKept'
  BY DEF SdInv, OthersKept, UnitMatches, Extent
<1>4. OkIsDone'
  BY DEF OkIsDone
<1> QED
  BY <1>1, <1>2, <1>3, <1>4 DEF SdInv

\* A command of a transfer changes nothing of the call.
LEMMA CommandTypes ==
    ASSUME SdInv, NEW cmd, NEW block, NEW a \in Answers(cmd, block), Command(cmd, block, a),
           Silent, UNCHANGED config, owner' \in {owner, Nobody}
    PROVE  /\ CardTypeOK' /\ DriverTypeOK' /\ TransferFrame
           /\ UNCHANGED <<left, buffer, damaged>>
<1> USE DEF Silent, progress, config
<1>1. CardTypeOK' /\ kind' = kind
  BY CommandFacts DEF SdInv
<1>2. DriverTypeOK'
  BY DEF SdInv, DriverTypeOK
<1> QED
  BY <1>1, <1>2 DEF TransferFrame

\* One that fails ends the transfer.
LEMMA CommandFails ==
    ASSUME SdInv, NEW cmd, NEW block, NEW a \in Answers(cmd, block), Command(cmd, block, a),
           Silent, UNCHANGED config, StatusOf(a) # "OK", Return(StatusOf(a))
    PROVE  SdInv'
<1>1. pc' = "free" /\ owner' = Nobody /\ status' # "OK"
  BY DEF Return
<1>2. CardTypeOK' /\ DriverTypeOK' /\ TransferFrame /\ left' = left
  BY <1>1, CommandTypes
<1>3. stored' = stored /\ ~selected'
  BY CommandFacts DEF SdInv
<1> QED
  BY <1>1, <1>2, <1>3, GivesUp

\* One that is taken goes on.
LEMMA OrFacts ==
    ASSUME SdInv, NEW cmd, NEW block, NEW next, Or(cmd, block, next),
           cmd \notin {"CMD0", "ACMD41", "CMD38"}
    PROVE  \/ SdInv'
           \/ /\ CardTypeOK' /\ DriverTypeOK' /\ TransferFrame
              /\ UNCHANGED <<left, buffer, damaged, stored, owner, status>> /\ pc' = next
              /\ selected' => cmd \in DataCommands
              /\ cmd \in Addressed => block \in Blocks /\ pointer' = block
              /\ cmd = "CMD32" => range' = <<block, block>>
              /\ cmd = "CMD33" => range' = <<range[1], block>>
<1>1. PICK a \in Answers(cmd, block) :
         /\ Command(cmd, block, a) /\ Silent /\ UNCHANGED config
         /\ IF StatusOf(a) = "OK" THEN Go(next) ELSE Return(StatusOf(a))
  BY DEF Or
<1>2. CASE StatusOf(a) # "OK"
  BY <1>1, <1>2, CommandFails
<1>3. CASE StatusOf(a) = "OK"
  <2>1. pc' = next /\ owner' = owner /\ status' = status
    BY <1>1, <1>3 DEF Go
  <2>2. CardTypeOK' /\ DriverTypeOK' /\ TransferFrame /\ UNCHANGED <<left, buffer, damaged>>
    BY <1>1, <2>1, CommandTypes
  <2>3. CardTypeOK
    BY DEF SdInv
  <2>4. /\ stored' = stored /\ (selected' => cmd \in DataCommands)
        /\ cmd \in Addressed => block \in Blocks /\ pointer' = block
        /\ cmd = "CMD32" => range' = <<block, block>>
        /\ cmd = "CMD33" => range' = <<range[1], block>>
    BY <1>1, <1>3, <2>3, CommandFacts
  <2> QED
    BY <2>1, <2>2, <2>4
<1> QED
  BY <1>2, <1>3

LEMMA CheckKeeps == ASSUME SdInv, Check PROVE SdInv'
<1>1. /\ pc = "check" /\ UNCHANGED <<card, config, progress, faults>>
      /\ call.op \in {"read", "program", "trim"} /\ ~selected /\ stored = before
  BY DEF Check, SdInv, PlaceOK, LineOK, DoneOK
<1> USE DEF card, config, progress
<1>2. CardTypeOK' /\ TransferFrame /\ ~selected' /\ stored' = stored /\ left' = left
  BY <1>1 DEF SdInv, CardTypeOK, TransferFrame
<1>3. owner' \in {owner, Nobody}
  BY DEF Check, Go, Return
<1>4. DriverTypeOK'
  BY <1>1, <1>3 DEF SdInv, DriverTypeOK
<1>5. CASE ~Valid \/ ~is_initialized
  <2>1. pc' = "free" /\ owner' = Nobody /\ status' # "OK"
    BY <1>5 DEF Check, Return, Uninitialised
  <2> QED
    BY <1>2, <1>4, <2>1, GivesUp
<1>6. CASE Valid /\ is_initialized
  <2>1. /\ status' = status /\ owner' = owner
        /\ pc' = CASE call.op = "read" -> "read_cmd"
                   [] call.op = "program" -> IF call.count = 1 THEN "write_cmd" ELSE "pre_erase"
                   [] call.op = "trim" -> "erase_from"
    BY <1>6 DEF Check, Go
  <2>2. /\ call.op = "read" => pc' = "read_cmd"
        /\ call.op = "program" => pc' \in {"write_cmd", "pre_erase"}
        /\ call.op = "trim" => pc' = "erase_from"
    BY <1>1, <2>1
  <2>3. PlaceOK'
    BY <1>1, <2>1, <2>2 DEF SdInv, PlaceOK, InitLabels, ReadLabels, WriteLabels, TrimLabels
  <2>4. LineOK' /\ WhereOK'
    BY <1>1, <2>2 DEF SdInv, LineOK, WhereOK, UnitMatches
  <2>5. DoneOK'
    BY <1>1, <2>2 DEF DoneOK
  <2>6. OthersKept' /\ OkIsDone'
    BY <1>1, <2>2 DEF OthersKept, OkIsDone
  <2> QED
    BY <1>2, <1>4, <2>3, <2>4, <2>5, <2>6 DEF SdInv
<1> QED
  BY <1>5, <1>6

LEMMA ReadCommandKeeps == ASSUME SdInv, ReadCommand PROVE SdInv'
<1> DEFINE cmd == IF call.count > 1 THEN "CMD18" ELSE "CMD17"
<1>1. /\ pc = "read_cmd" /\ call.op = "read" /\ left = call.count /\ left > 0 /\ ~damaged
      /\ buffer = <<>> /\ stored = before
  BY DEF ReadCommand, SdInv, PlaceOK, DoneOK, ReadLabels
<1>2. Or(cmd, Target(call.first), "read_data")
  BY DEF ReadCommand
<1>3. cmd \in {"CMD17", "CMD18"}
  OBVIOUS
<1> HIDE DEF cmd
<1>4. SUFFICES ASSUME /\ CardTypeOK' /\ DriverTypeOK' /\ TransferFrame
                      /\ UNCHANGED <<left, buffer, damaged, stored, owner, status>>
                      /\ pc' = "read_data" /\ pointer' = Target(call.first)
               PROVE  SdInv'
  BY <1>2, <1>3, OrFacts DEF Addressed
<1> USE DEF TransferFrame, config
<1>5. UnitMatches => pointer' = call.first
  BY <1>4, TargetIs, CallFacts DEF SdInv
<1>6. call.first \in Nat /\ call.count \in Nat
  BY CallFacts DEF SdInv
<1>7. PlaceOK' /\ LineOK'
  BY <1>1, <1>4 DEF SdInv, PlaceOK, LineOK, InitLabels, ReadLabels, WriteLabels, TrimLabels
<1>8. WhereOK'
  BY <1>1, <1>4, <1>5, <1>6 DEF SdInv, WhereOK, UnitMatches
<1>9. Len(buffer') = 0 /\ call'.count - left' = 0
  BY <1>1, <1>4, <1>6, EmptySeq
<1>10. DoneOK'
  BY <1>1, <1>4, <1>9 DEF DoneOK
<1>11. OthersKept' /\ OkIsDone'
  BY <1>1, <1>4 DEF OthersKept, OkIsDone
<1> QED
  BY <1>4, <1>7, <1>8, <1>10, <1>11 DEF SdInv

LEMMA ReadBlockKeeps == ASSUME SdInv, ReadBlock PROVE SdInv'
<1>1. PICK came \in BOOLEAN :
         /\ pc = "read_data" /\ left > 0
         /\ came => pointer \in Blocks
         /\ (pointer \in Blocks /\ ~came) => faults < MaxFaults
         /\ faults' = IF came \/ pointer \notin Blocks THEN faults ELSE faults + 1
         /\ buffer' = IF came THEN Append(buffer, stored[pointer]) ELSE buffer
         /\ pointer' = IF came THEN pointer + 1 ELSE pointer
         /\ left' = IF came THEN left - 1 ELSE 0
         /\ damaged' = ~came
         /\ status' = IF came THEN "OK" ELSE "NO_RESPONSE"
         /\ mode' = IF call.count > 1 THEN mode ELSE "command"
         /\ UNCHANGED <<kind, phase, range, stored, selected, config, owner, pc, call, polls, before>>
  BY DEF ReadBlock
<1> USE DEF config
<1>2. /\ CardTypeOK /\ DriverTypeOK /\ call.op = "read" /\ ~damaged /\ left =< call.count
      /\ stored = before
  BY <1>1 DEF SdInv, PlaceOK, DoneOK, ReadLabels
<1>3. call.first \in Nat /\ call.count \in Nat /\ left \in Nat /\ pointer \in Nat
      /\ buffer \in Seq(Values) /\ stored \in [Blocks -> Values] /\ Len(buffer) \in Nat
  BY <1>2, CallFacts, LenProperties DEF CardTypeOK, DriverTypeOK
<1>4. left' \in Nat /\ left' =< call.count /\ pointer' \in Nat
  BY <1>1, <1>2, <1>3
<1>5. CardTypeOK'
  <2>1. faults' \in 0 .. MaxFaults
    BY <1>1, <1>2, CardAssumption DEF CardTypeOK
  <2>2. mode' \in {"command", "send", "receive"}
    BY <1>1, <1>2 DEF CardTypeOK
  <2> QED
    BY <1>1, <1>2, <1>4, <2>1, <2>2 DEF CardTypeOK
<1>6. buffer' \in Seq(Values)
  <2>1. CASE came
    <3>1. stored[pointer] \in Values
      BY <1>1, <1>3, <2>1
    <3> QED
      BY <1>1, <1>3, <2>1, <3>1, AppendProperties
  <2>2. CASE ~came
    BY <1>1, <1>3, <2>2
  <2> QED
    BY <2>1, <2>2
<1>7. DriverTypeOK'
  <2>1. damaged' \in BOOLEAN
    BY <1>1
  <2> QED
    BY <1>1, <1>2, <1>4, <1>6, <2>1 DEF DriverTypeOK
<1>8. PlaceOK'
  BY <1>1, <1>4 DEF SdInv, PlaceOK, InitLabels, ReadLabels, WriteLabels, TrimLabels
<1>9. LineOK'
  BY <1>1 DEF SdInv, LineOK
<1>10. UnitMatches /\ left > 0 => pointer = call.first + (call.count - left)
  BY <1>1 DEF SdInv, WhereOK
<1>11. WhereOK'
  <2>1. ASSUME UnitMatches', left' > 0
        PROVE  pointer' = call'.first + (call'.count - left')
    <3>1. came /\ UnitMatches /\ left > 0
      BY <1>1, <2>1 DEF UnitMatches
    <3>2. pointer' = pointer + 1 /\ left' = left - 1 /\ call' = call
      BY <1>1, <3>1
    <3>3. pointer = call.first + (call.count - left)
      BY <1>10, <3>1
    <3>4. pointer + 1 = call.first + (call.count - (left - 1))
      BY <1>3, <3>3
    <3> QED
      BY <3>2, <3>4, Zenon
  <2> QED
    BY <1>1, <2>1 DEF SdInv, WhereOK
<1>12. ASSUME UnitMatches', ~damaged'
       PROVE  /\ Len(buffer') = call'.count - left'
              /\ \A i \in 1 .. Len(buffer') : buffer'[i] = stored'[(call'.first + i) - 1]
  <2>1. came /\ UnitMatches
    BY <1>1, <1>12 DEF UnitMatches
  <2>2. /\ Len(buffer) = call.count - left /\ pointer = call.first + (call.count - left)
        /\ \A i \in 1 .. Len(buffer) : buffer[i] = stored[(call.first + i) - 1]
    BY <1>1, <1>2, <1>10, <2>1 DEF SdInv, DoneOK
  <2>3. stored[pointer] \in Values
    BY <1>1, <1>3, <2>1
  <2>4. /\ buffer' = Append(buffer, stored[pointer]) /\ Len(buffer') = Len(buffer) + 1
        /\ buffer'[Len(buffer) + 1] = stored[pointer]
        /\ \A i \in 1 .. Len(buffer) : buffer'[i] = buffer[i]
    BY <1>1, <1>3, <2>1, <2>3, AppendProperties
  <2>5. pointer = (call.first + (Len(buffer) + 1)) - 1
    <3>1. pointer = call.first + Len(buffer)
      BY <2>2, Zenon
    <3>2. Len(buffer) \in Nat /\ call.first \in Nat
      BY <1>3
    <3> QED
      BY <3>1, <3>2
  <2>6. ASSUME NEW i \in 1 .. Len(buffer')
        PROVE  buffer'[i] = stored[(call.first + i) - 1]
    <3>1. CASE i = Len(buffer) + 1
      BY <2>4, <2>5, <3>1
    <3>2. CASE i # Len(buffer) + 1
      <4>1. i \in 1 .. Len(buffer)
        BY <1>3, <2>4, <3>2
      <4> QED
        BY <2>2, <2>4, <4>1
    <3> QED
      BY <3>1, <3>2
  <2>7. Len(buffer') = call.count - left'
    BY <1>1, <1>3, <2>1, <2>2, <2>4
  <2> QED
    BY <1>1, <2>6, <2>7
<1>13. DoneOK'
  <2>1. (damaged' => left' = 0) /\ (damaged' => status' # "OK")
    BY <1>1
  <2> QED
    BY <1>1, <1>2, <1>12, <2>1 DEF DoneOK
<1>14. OthersKept' /\ OkIsDone'
  BY <1>1, <1>2 DEF OthersKept, OkIsDone
<1> QED
  BY <1>5, <1>7, <1>8, <1>9, <1>11, <1>13, <1>14 DEF SdInv

LEMMA ReadEndKeeps == ASSUME SdInv, ReadEnd PROVE SdInv'
<1>1. /\ pc = "read_data" /\ left = 0 /\ selected' = FALSE
      /\ IF call.count > 1 THEN Go("stop") ELSE Return(status)
      /\ UNCHANGED <<kind, phase, mode, pointer, range, stored, config, progress, faults>>
  BY DEF ReadEnd, AfterRead
<1> USE DEF config, progress
<1>2. call.op = "read" /\ stored = before /\ call.count > 0 /\ call.count \in Nat
  BY <1>1, CallFacts DEF SdInv, PlaceOK, DoneOK, ReadLabels
<1>3. CardTypeOK'
  BY <1>1 DEF SdInv, CardTypeOK
<1>4. DriverTypeOK'
  <2>1. owner' \in {owner, Nobody}
    BY <1>1 DEF Go, Return
  <2> QED
    BY <1>1, <2>1 DEF SdInv, DriverTypeOK
<1>5. UnitMatches' = UnitMatches
  BY <1>1 DEF UnitMatches
<1>6. CASE call.count > 1
  <2>1. pc' = "stop" /\ owner' = owner /\ status' = status
    BY <1>1, <1>6 DEF Go
  <2>2. PlaceOK' /\ LineOK' /\ WhereOK'
    BY <1>1, <1>2, <1>6, <2>1 DEF SdInv, PlaceOK, LineOK, WhereOK, UnitMatches, InitLabels, ReadLabels,
                      WriteLabels, TrimLabels
  <2>3. DoneOK'
    BY <1>1, <1>2, <1>5, <2>1 DEF SdInv, DoneOK
  <2>4. OthersKept' /\ OkIsDone'
    BY <1>1, <1>2, <2>1 DEF OthersKept, OkIsDone
  <2> QED
    BY <1>3, <1>4, <2>2, <2>3, <2>4 DEF SdInv
<1>7. CASE ~(call.count > 1)
  <2>1. pc' = "free" /\ owner' = Nobody /\ status' = status /\ call.count = 1
    BY <1>1, <1>2, <1>7 DEF Return
  <2>2. PlaceOK' /\ LineOK' /\ WhereOK'
    BY <1>1, <1>2, <1>7, <2>1 DEF SdInv, PlaceOK, LineOK, WhereOK, UnitMatches, InitLabels, ReadLabels,
                      WriteLabels, TrimLabels
  <2>3. DoneOK' /\ OthersKept'
    BY <1>1, <1>2, <2>1 DEF DoneOK, OthersKept
  <2>4. ASSUME status = "OK", UnitMatches
        PROVE  Len(buffer) = call.count /\ \A i \in 1 .. call.count : buffer[i] = stored[(call.first + i) - 1]
    <3>1. ~damaged
      BY <1>1, <2>1, <2>4 DEF SdInv, DoneOK
    <3>2. /\ Len(buffer) = call.count - left
          /\ \A i \in 1 .. Len(buffer) : buffer[i] = stored[(call.first + i) - 1]
      BY <1>1, <2>4, <3>1 DEF SdInv, DoneOK
    <3> QED
      BY <1>1, <1>2, <3>2
  <2>5. OkIsDone'
    BY <1>1, <1>2, <1>5, <2>1, <2>4 DEF OkIsDone
  <2> QED
    BY <1>3, <1>4, <2>2, <2>3, <2>5 DEF SdInv
<1> QED
  BY <1>6, <1>7

LEMMA StopKeeps == ASSUME SdInv, StopTransmission PROVE SdInv'
<1>1. PICK a \in Answers("CMD12", 0) :
         pc = "stop" /\ Command("CMD12", 0, a) /\ Silent /\ UNCHANGED config /\ Return(StatusOf(a))
  BY DEF StopTransmission
<1>2. CASE StatusOf(a) # "OK"
  BY <1>1, <1>2, CommandFails
<1>3. CASE StatusOf(a) = "OK"
  <2>1. pc' = "free" /\ owner' = Nobody /\ status' = "OK"
    BY <1>1, <1>3 DEF Return
  <2>2. CardTypeOK' /\ DriverTypeOK' /\ TransferFrame /\ UNCHANGED <<left, buffer, damaged>>
    BY <1>1, <2>1, CommandTypes
  <2>3. stored' = stored /\ ~selected' /\ mode' = "command"
    BY <1>1, <1>3, CommandFacts DEF SdInv, DataCommands
  <2> USE DEF TransferFrame, config
  <2>4. call.op = "read" /\ stored = before /\ call.count > 1 /\ left = 0 /\ call.count \in Nat
    BY <1>1, CallFacts DEF SdInv, PlaceOK, DoneOK, ReadLabels
  <2>5. UnitMatches' = UnitMatches
    BY <2>2 DEF UnitMatches
  <2>6. PlaceOK' /\ LineOK' /\ WhereOK'
    BY <2>1, <2>2, <2>3, <2>4 DEF SdInv, PlaceOK, LineOK, WhereOK, UnitMatches, InitLabels, ReadLabels,
                      WriteLabels, TrimLabels
  <2>7. DoneOK' /\ OthersKept'
    BY <2>1, <2>2, <2>3, <2>4 DEF DoneOK, OthersKept
  <2>8. ASSUME ~damaged, UnitMatches
        PROVE  Len(buffer) = call.count /\ \A i \in 1 .. call.count : buffer[i] = stored[(call.first + i) - 1]
    <3>1. /\ Len(buffer) = call.count - left
          /\ \A i \in 1 .. Len(buffer) : buffer[i] = stored[(call.first + i) - 1]
      BY <1>1, <2>8 DEF SdInv, DoneOK
    <3> QED
      BY <2>4, <3>1
  <2>9. OkIsDone'
    BY <2>2, <2>3, <2>4, <2>5, <2>8 DEF OkIsDone
  <2> QED
    BY <2>2, <2>6, <2>7, <2>9 DEF SdInv
<1> QED
  BY <1>2, <1>3

LEMMA PreEraseKeeps == ASSUME SdInv, PreErase PROVE SdInv'
<1>1. PICK a \in Answers("ACMD23", 0) :
         pc = "pre_erase" /\ Command("ACMD23", 0, a) /\ Silent /\ UNCHANGED config /\ Go("write_cmd")
  BY DEF PreErase
<1>2. pc' = "write_cmd" /\ owner' = owner /\ status' = status
  BY <1>1 DEF Go
<1>3. CardTypeOK' /\ DriverTypeOK' /\ TransferFrame /\ UNCHANGED <<left, buffer, damaged>>
  BY <1>1, <1>2, CommandTypes
<1>4. stored' = stored /\ ~selected'
  BY <1>1, CommandFacts DEF SdInv, DataCommands
<1> USE DEF TransferFrame, config
<1>5. call.op = "program" /\ stored = before
  BY <1>1 DEF SdInv, PlaceOK, DoneOK, WriteLabels
<1>6. PlaceOK' /\ LineOK' /\ WhereOK'
  BY <1>1, <1>2, <1>3, <1>4, <1>5 DEF SdInv, PlaceOK, LineOK, WhereOK, UnitMatches, InitLabels, ReadLabels,
                    WriteLabels, TrimLabels
<1>7. DoneOK' /\ OthersKept' /\ OkIsDone'
  BY <1>2, <1>3, <1>4, <1>5 DEF DoneOK, OthersKept, OkIsDone
<1> QED
  BY <1>3, <1>6, <1>7 DEF SdInv

LEMMA WriteCommandKeeps == ASSUME SdInv, WriteCommand PROVE SdInv'
<1> DEFINE cmd == IF call.count > 1 THEN "CMD25" ELSE "CMD24"
<1>1. /\ pc = "write_cmd" /\ call.op = "program" /\ left = call.count /\ left > 0 /\ ~damaged
      /\ stored = before
  BY DEF WriteCommand, SdInv, PlaceOK, DoneOK, WriteLabels
<1>2. Or(cmd, Target(call.first), "write_data")
  BY DEF WriteCommand
<1>3. cmd \in {"CMD24", "CMD25"}
  OBVIOUS
<1> HIDE DEF cmd
<1>4. SUFFICES ASSUME /\ CardTypeOK' /\ DriverTypeOK' /\ TransferFrame
                      /\ UNCHANGED <<left, buffer, damaged, stored, owner, status>>
                      /\ pc' = "write_data" /\ pointer' = Target(call.first)
               PROVE  SdInv'
  BY <1>2, <1>3, OrFacts DEF Addressed
<1> USE DEF TransferFrame, config
<1>5. UnitMatches => pointer' = call.first
  BY <1>4, TargetIs, CallFacts DEF SdInv
<1>6. call.first \in Nat /\ call.count \in Nat
  BY CallFacts DEF SdInv
<1>7. PlaceOK' /\ LineOK'
  BY <1>1, <1>4 DEF SdInv, PlaceOK, LineOK, InitLabels, ReadLabels, WriteLabels, TrimLabels
<1>8. WhereOK'
  BY <1>1, <1>4, <1>5, <1>6 DEF SdInv, WhereOK, UnitMatches
<1>9. DoneOK'
  <2>1. \A b \in call'.first .. ((call'.first + (call'.count - left')) - 1) : stored'[b] = call'.data
    BY <1>1, <1>4, <1>6
  <2> QED
    BY <1>1, <1>4, <2>1 DEF DoneOK
<1>10. OthersKept' /\ OkIsDone'
  BY <1>1, <1>4 DEF OthersKept, OkIsDone
<1> QED
  BY <1>4, <1>7, <1>8, <1>9, <1>10 DEF SdInv

LEMMA WriteBlockKeeps == ASSUME SdInv, WriteBlock PROVE SdInv'
<1>1. PICK accepted \in BOOLEAN :
         /\ pc = "write_data" /\ left > 0
         /\ accepted => pointer \in Blocks
         /\ (pointer \in Blocks /\ ~accepted) => faults < MaxFaults
         /\ faults' = IF accepted \/ pointer \notin Blocks THEN faults ELSE faults + 1
         /\ stored' = IF accepted THEN [stored EXCEPT ![pointer] = call.data] ELSE stored
         /\ pointer' = IF accepted THEN pointer + 1 ELSE pointer
         /\ left' = IF accepted THEN left - 1 ELSE 0
         /\ damaged' = ~accepted
         /\ status' = IF accepted \/ call.count > 1 THEN status ELSE "WRITE"
         /\ UNCHANGED <<kind, phase, mode, range, selected, config, owner, pc, call, polls, buffer, before>>
  BY DEF WriteBlock, WriteStatus
<1> USE DEF config
<1>2. /\ CardTypeOK /\ DriverTypeOK /\ call.op = "program" /\ ~damaged /\ left =< call.count
  BY <1>1 DEF SdInv, PlaceOK, DoneOK, WriteLabels
<1>3. call.first \in Nat /\ call.count \in Nat /\ call.data \in Values /\ left \in Nat
      /\ pointer \in Nat /\ stored \in [Blocks -> Values]
  BY <1>2, CallFacts DEF CardTypeOK, DriverTypeOK
<1>4. left' \in Nat /\ left' =< call.count /\ pointer' \in Nat
  BY <1>1, <1>2, <1>3
<1>5. CardTypeOK'
  <2>1. faults' \in 0 .. MaxFaults
    BY <1>1, <1>2, CardAssumption DEF CardTypeOK
  <2>2. stored' \in [Blocks -> Values]
    BY <1>1, <1>3
  <2> QED
    BY <1>1, <1>2, <1>4, <2>1, <2>2 DEF CardTypeOK
<1>6. DriverTypeOK'
  <2>1. damaged' \in BOOLEAN
    BY <1>1
  <2> QED
    BY <1>1, <1>2, <1>4, <2>1 DEF DriverTypeOK
<1>7. PlaceOK' /\ LineOK'
  BY <1>1, <1>2, <1>4 DEF SdInv, PlaceOK, LineOK, InitLabels, ReadLabels, WriteLabels, TrimLabels
<1>8. UnitMatches' = UnitMatches /\ Extent' = Extent
  BY <1>1 DEF UnitMatches, Extent
<1>9. UnitMatches => pointer = call.first + (call.count - left)
  BY <1>1 DEF SdInv, WhereOK
<1>10. WhereOK'
  <2>1. UnitMatches' /\ left' > 0 => pointer' = call'.first + (call'.count - left')
    BY <1>1, <1>3, <1>8, <1>9
  <2> QED
    BY <1>1, <2>1 DEF SdInv, WhereOK
<1>11. ASSUME UnitMatches, accepted
       PROVE  \A b \in call.first .. ((call.first + (call.count - left')) - 1) : stored'[b] = call.data
  <2>1. \A b \in call.first .. ((call.first + (call.count - left)) - 1) : stored[b] = call.data
    BY <1>1, <1>2, <1>11 DEF SdInv, DoneOK
  <2>2. stored'[pointer] = call.data /\ (\A b \in Blocks \ {pointer} : stored'[b] = stored[b])
    BY <1>1, <1>3, <1>11
  <2>3. pointer \in 0 .. (Size - 1) /\ pointer = call.first + (call.count - left)
    BY <1>1, <1>9, <1>11 DEF Blocks
  <2>4. ASSUME NEW b \in call.first .. ((call.first + (call.count - left')) - 1)
        PROVE  stored'[b] = call.data
    <3>1. CASE b = pointer
      BY <2>2, <3>1
    <3>2. CASE b # pointer
      <4>1. /\ b \in call.first .. ((call.first + (call.count - left)) - 1) /\ b \in 0 .. (Size - 1)
        BY <1>1, <1>3, <1>11, <2>3, <3>2, CardAssumption
      <4>2. stored'[b] = stored[b]
        BY <2>2, <3>2, <4>1 DEF Blocks
      <4> QED
        BY <2>1, <4>1, <4>2
    <3> QED
      BY <3>1, <3>2
  <2> QED
    BY <2>4
<1>12. DoneOK'
  <2>0. damaged' => ~accepted
    BY <1>1
  <2>1. (damaged' => left' = 0) /\ (damaged' /\ call'.count = 1 => status' # "OK")
    BY <1>1, <2>0
  <2>2. UnitMatches' /\ ~damaged' =>
          \A b \in call'.first .. ((call'.first + (call'.count - left')) - 1) : stored'[b] = call'.data
    BY <1>1, <1>8, <1>11
  <2> QED
    BY <1>1, <1>2, <2>1, <2>2 DEF DoneOK
<1>13. OthersKept'
  <2>1. ASSUME UnitMatches, NEW b \in Blocks, b \notin Extent
        PROVE  stored'[b] = before[b]
    <3>1. stored[b] = before[b]
      BY <1>2, <2>1 DEF SdInv, OthersKept
    <3>2. pointer \in Extent
      BY <1>1, <1>2, <1>3, <1>9, <2>1 DEF Extent
    <3>3. stored'[b] = stored[b]
      BY <1>1, <1>3, <2>1, <3>2
    <3> QED
      BY <3>1, <3>3
  <2> QED
    BY <1>1, <1>2, <1>8, <2>1 DEF OthersKept
<1>14. OkIsDone'
  BY <1>1 DEF OkIsDone
<1> QED
  BY <1>5, <1>6, <1>7, <1>10, <1>12, <1>13, <1>14 DEF SdInv

LEMMA WriteEndKeeps == ASSUME SdInv, WriteEnd PROVE SdInv'
<1>1. /\ pc = "write_data" /\ left = 0 /\ mode' = "command" /\ selected' = FALSE
      /\ pc' = "free" /\ owner' = Nobody /\ status' = status
      /\ UNCHANGED <<kind, phase, pointer, range, stored, config, progress, faults>>
  BY DEF WriteEnd, Return
<1> USE DEF config, progress
<1>2. call.op = "program" /\ call.count > 0 /\ call.count \in Nat /\ call.first \in Nat
  BY <1>1, CallFacts DEF SdInv, PlaceOK, WriteLabels
<1>3. CardTypeOK' /\ DriverTypeOK'
  BY <1>1 DEF SdInv, CardTypeOK, DriverTypeOK
<1>4. UnitMatches' = UnitMatches /\ Extent' = Extent
  BY <1>1 DEF UnitMatches, Extent
<1>5. PlaceOK' /\ LineOK' /\ WhereOK'
  BY <1>1, <1>2 DEF SdInv, PlaceOK, LineOK, WhereOK, UnitMatches, InitLabels, ReadLabels,
                    WriteLabels, TrimLabels
<1>6. DoneOK' /\ OthersKept'
  BY <1>1, <1>2, <1>4 DEF SdInv, DoneOK, OthersKept
<1>7. ASSUME status = "OK", UnitMatches, call.count > 1 => ~damaged
      PROVE  \A b \in Extent : stored[b] = call.data
  <2>1. ~damaged
    BY <1>1, <1>2, <1>7 DEF SdInv, DoneOK
  <2>2. \A b \in call.first .. ((call.first + (call.count - left)) - 1) : stored[b] = call.data
    BY <1>1, <1>7, <2>1 DEF SdInv, DoneOK
  <2>3. call.count - left = call.count
    BY <1>1, <1>2
  <2> QED
    BY <2>2, <2>3 DEF Extent
<1>8. OkIsDone'
  BY <1>1, <1>2, <1>4, <1>7 DEF OkIsDone
<1> QED
  BY <1>3, <1>5, <1>6, <1>8 DEF SdInv

LEMMA EraseFromKeeps == ASSUME SdInv, EraseFrom PROVE SdInv'
<1>1. pc = "erase_from" /\ call.op = "trim" /\ stored = before /\ Or("CMD32", Target(call.first), "erase_to")
  BY DEF EraseFrom, SdInv, PlaceOK, DoneOK, TrimLabels
<1>2. "CMD32" \in Addressed /\ "CMD32" \notin DataCommands
  BY DEF Addressed, DataCommands
<1>3. SUFFICES ASSUME /\ CardTypeOK' /\ DriverTypeOK' /\ TransferFrame
                      /\ UNCHANGED <<left, buffer, damaged, stored, owner, status>>
                      /\ pc' = "erase_to" /\ ~selected'
                      /\ Target(call.first) \in Blocks
                      /\ range' = <<Target(call.first), Target(call.first)>>
               PROVE  SdInv'
  BY <1>1, <1>2, OrFacts
<1> USE DEF TransferFrame, config
<1>4. UnitMatches => range'[1] = call.first /\ call.first \in Blocks
  <2>1. UnitMatches => Target(call.first) = call.first
    BY TargetIs, CallFacts DEF SdInv
  <2> QED
    BY <1>3, <2>1
<1>5. UnitMatches' = UnitMatches
  BY <1>3 DEF UnitMatches
<1>6. PlaceOK' /\ LineOK'
  BY <1>1, <1>3 DEF SdInv, PlaceOK, LineOK, InitLabels, ReadLabels, WriteLabels, TrimLabels
<1>7. WhereOK'
  BY <1>3, <1>4, <1>5 DEF SdInv, WhereOK, Blocks
<1>8. DoneOK' /\ OthersKept' /\ OkIsDone'
  BY <1>1, <1>3 DEF DoneOK, OthersKept, OkIsDone
<1> QED
  BY <1>3, <1>6, <1>7, <1>8 DEF SdInv

LEMMA EraseToKeeps == ASSUME SdInv, EraseTo PROVE SdInv'
<1>1. pc = "erase_to" /\ call.op = "trim" /\ stored = before /\ Or("CMD33", Target(LastBlock), "erase")
  BY DEF EraseTo, SdInv, PlaceOK, DoneOK, TrimLabels
<1>2. "CMD33" \in Addressed /\ "CMD33" \notin DataCommands
  BY DEF Addressed, DataCommands
<1>3. SUFFICES ASSUME /\ CardTypeOK' /\ DriverTypeOK' /\ TransferFrame
                      /\ UNCHANGED <<left, buffer, damaged, stored, owner, status>>
                      /\ pc' = "erase" /\ ~selected'
                      /\ Target(LastBlock) \in Blocks
                      /\ range' = <<range[1], Target(LastBlock)>>
               PROVE  SdInv'
  BY <1>1, <1>2, OrFacts
<1> USE DEF TransferFrame, config
<1>4. LastBlock' = LastBlock
  BY <1>3 DEF LastBlock
<1>5. UnitMatches => range' = <<call.first, LastBlock>> /\ call.first \in Blocks /\ LastBlock \in Blocks
  <2>1. UnitMatches => Target(LastBlock) = LastBlock
    BY TargetIs, CallFacts DEF SdInv
  <2>2. UnitMatches => range[1] = call.first /\ call.first \in Blocks
    BY <1>1 DEF SdInv, WhereOK
  <2> QED
    BY <1>3, <2>1, <2>2
<1>6. UnitMatches' = UnitMatches
  BY <1>3 DEF UnitMatches
<1>7. PlaceOK' /\ LineOK'
  BY <1>1, <1>3 DEF SdInv, PlaceOK, LineOK, InitLabels, ReadLabels, WriteLabels, TrimLabels
<1>8. WhereOK'
  BY <1>3, <1>4, <1>5, <1>6 DEF SdInv, WhereOK, Blocks
<1>9. DoneOK' /\ OthersKept' /\ OkIsDone'
  BY <1>1, <1>3 DEF DoneOK, OthersKept, OkIsDone
<1> QED
  BY <1>3, <1>7, <1>8, <1>9 DEF SdInv

LEMMA EraseKeeps == ASSUME SdInv, Erase PROVE SdInv'
<1>1. PICK a \in Answers("CMD38", 0) :
         pc = "erase" /\ Command("CMD38", 0, a) /\ Silent /\ UNCHANGED config /\ Return(StatusOf(a))
  BY DEF Erase
<1>2. CASE StatusOf(a) # "OK"
  BY <1>1, <1>2, CommandFails
<1>3. CASE StatusOf(a) = "OK"
  <2>1. pc' = "free" /\ owner' = Nobody /\ status' = "OK"
    BY <1>1, <1>3 DEF Return
  <2>2. CardTypeOK' /\ DriverTypeOK' /\ TransferFrame /\ UNCHANGED <<left, buffer, damaged>>
    BY <1>1, <2>1, CommandTypes
  <2>3. /\ ~selected' /\ mode' = "command"
        /\ stored' = [b \in Blocks |-> IF b \in range[1] .. range[2] THEN Erased ELSE stored[b]]
    BY <1>1, <1>3, CommandFacts DEF SdInv, DataCommands
  <2> USE DEF TransferFrame, config
  <2>4. call.op = "trim" /\ stored = before /\ call.count \in Nat /\ call.first \in Nat
    BY <1>1, CallFacts DEF SdInv, PlaceOK, DoneOK, TrimLabels
  <2>5. UnitMatches' = UnitMatches /\ Extent' = Extent
    BY <2>2 DEF UnitMatches, Extent
  <2>6. PlaceOK' /\ LineOK' /\ WhereOK'
    BY <2>1, <2>2, <2>3, <2>4 DEF SdInv, PlaceOK, LineOK, WhereOK, UnitMatches, InitLabels, ReadLabels,
                      WriteLabels, TrimLabels
  <2>7. ASSUME UnitMatches
        PROVE  /\ range[1] .. range[2] = Extent /\ Extent \subseteq Blocks
    <3>1. range = <<call.first, LastBlock>> /\ call.first \in Blocks /\ LastBlock \in Blocks
      BY <1>1, <2>7 DEF SdInv, WhereOK
    <3>2. range[1] .. range[2] = Extent
      BY <3>1 DEF Extent, LastBlock
    <3>3. \A b \in call.first .. LastBlock : b \in Blocks
      BY <2>4, <3>1, CardAssumption DEF Blocks
    <3> QED
      BY <3>1, <3>2, <3>3
  <2>8. UnitMatches => (\A b \in Extent : stored'[b] = Erased) /\ \A b \in Blocks \ Extent : stored'[b] = stored[b]
    BY <2>3, <2>7
  <2>9. DoneOK'
    BY <2>1, <2>2, <2>4 DEF DoneOK
  <2>10. OthersKept'
    BY <2>2, <2>4, <2>5, <2>8 DEF OthersKept
  <2>11. OkIsDone'
    BY <2>2, <2>4, <2>5, <2>8 DEF OkIsDone
  <2> QED
    BY <2>2, <2>6, <2>9, <2>10, <2>11 DEF SdInv
<1> QED
  BY <1>2, <1>3

-----------------------------------------------------------------------------
(* The steps between two calls.                                            *)

LEMMA CalledKeeps == ASSUME SdInv, Called PROVE SdInv'
<1>1. PICK c \in Callers, what \in CallType :
         /\ Begin(c, what)
         /\ what.op # "none" /\ (what.op \in {"read", "program"} => what.count > 0)
  BY DEF Called
<1>2. /\ pc = "free" /\ owner' = c /\ call' = what /\ left' = what.count /\ polls' = 0 /\ buffer' = <<>>
      /\ before' = stored /\ damaged' = FALSE /\ status' = "OK"
      /\ pc' = IF what.op = "init" THEN "go_idle" ELSE "check"
      /\ UNCHANGED <<card, config, faults>>
  BY <1>1 DEF Begin
<1> USE DEF card, config
<1>3. what.op \in {"init", "read", "program", "trim"} /\ what.count \in Nat /\ ~selected
  BY <1>1, <1>2 DEF CallType, SdInv, LineOK
<1>4. CardTypeOK'
  BY <1>2 DEF SdInv, CardTypeOK
<1>5. DriverTypeOK'
  BY <1>2, <1>3, EmptySeq DEF SdInv, CardTypeOK, DriverTypeOK
<1>6. PlaceOK'
  BY <1>1, <1>2, <1>3 DEF PlaceOK, InitLabels, ReadLabels, WriteLabels, TrimLabels
<1>7. LineOK' /\ WhereOK'
  BY <1>2, <1>3 DEF SdInv, LineOK, WhereOK, UnitMatches
<1>8. DoneOK' /\ OthersKept' /\ OkIsDone'
  BY <1>2 DEF DoneOK, OthersKept, OkIsDone
<1> QED
  BY <1>4, <1>5, <1>6, <1>7, <1>8 DEF SdInv

LEMMA BetweenKeeps ==
    ASSUME SdInv, CardResets \/ NewDevice \/ UNCHANGED sdvars
    PROVE  SdInv'
<1> USE DEF card, config, progress
<1>1. CASE CardResets
  <2>1. /\ pc = "free" /\ faults < MaxFaults /\ faults' = faults + 1 /\ phase' = "off" /\ mode' = "command"
        /\ UNCHANGED <<kind, pointer, range, stored, selected, config, progress, owner, pc, status>>
    BY <1>1 DEF CardResets
  <2>2. CardTypeOK' /\ DriverTypeOK'
    BY <2>1, CardAssumption DEF SdInv, CardTypeOK, DriverTypeOK
  <2>3. UnitMatches' = UnitMatches /\ Extent' = Extent
    BY <2>1 DEF UnitMatches, Extent
  <2>4. PlaceOK' /\ LineOK' /\ WhereOK' /\ DoneOK'
    BY <2>1 DEF SdInv, PlaceOK, LineOK, WhereOK, DoneOK, InitLabels, ReadLabels, WriteLabels, TrimLabels
  <2>5. OthersKept' /\ OkIsDone'
    BY <2>1, <2>3 DEF SdInv, OthersKept, OkIsDone
  <2> QED
    BY <2>2, <2>4, <2>5 DEF SdInv
<1>2. CASE NewDevice
  <2>1. /\ pc = "free" /\ card_type' = "NONE" /\ is_initialized' = FALSE /\ total_sectors' = 0 /\ ready' = FALSE
        /\ UNCHANGED <<card, progress, owner, pc, status, faults>>
    BY <1>2 DEF NewDevice
  <2>2. CardTypeOK' /\ DriverTypeOK'
    BY <2>1 DEF SdInv, CardTypeOK, DriverTypeOK
  <2>3. (UnitMatches' => UnitMatches) /\ Extent' = Extent
    BY <2>1 DEF SdInv, WhereOK, UnitMatches, Extent
  <2>4. PlaceOK' /\ LineOK' /\ WhereOK' /\ DoneOK'
    BY <2>1 DEF SdInv, PlaceOK, LineOK, WhereOK, DoneOK, InitLabels, ReadLabels, WriteLabels, TrimLabels
  <2>5. OthersKept' /\ OkIsDone'
    BY <2>1, <2>3 DEF SdInv, OthersKept, OkIsDone
  <2> QED
    BY <2>2, <2>4, <2>5 DEF SdInv
<1>3. CASE UNCHANGED sdvars
  <2>1. CardTypeOK' /\ DriverTypeOK' /\ PlaceOK' /\ LineOK'
    BY <1>3 DEF SdInv, sdvars, CardTypeOK, DriverTypeOK, PlaceOK, LineOK
  <2>2. UnitMatches' = UnitMatches /\ Extent' = Extent /\ LastBlock' = LastBlock
    BY <1>3 DEF sdvars, UnitMatches, Extent, LastBlock
  <2>3. WhereOK' /\ DoneOK'
    BY <1>3, <2>2 DEF SdInv, sdvars, WhereOK, DoneOK
  <2>4. OthersKept' /\ OkIsDone'
    BY <1>3, <2>2 DEF SdInv, sdvars, OthersKept, OkIsDone
  <2> QED
    BY <2>1, <2>3, <2>4 DEF SdInv
<1> QED
  BY <1>1, <1>2, <1>3

LEMMA DeviceKeeps == ASSUME SdInv, DeviceStep PROVE SdInv'
<1>1. CASE TransferStep
  BY <1>1, CheckKeeps, ReadCommandKeeps, ReadBlockKeeps, ReadEndKeeps, StopKeeps, PreEraseKeeps,
     WriteCommandKeeps, WriteBlockKeeps, WriteEndKeeps, EraseFromKeeps, EraseToKeeps, EraseKeeps
     DEF TransferStep
<1> QED
  BY <1>1, InitKeeps, CalledKeeps, BetweenKeeps DEF DeviceStep, SdStep

LEMMA SdStarts == SdInit => SdInv
<1> SUFFICES ASSUME SdInit
             PROVE  SdInv
  OBVIOUS
<1> USE DEF SdInit, NoCall, Call
<1>1. CardTypeOK
  <2>1. 0 \in 0 .. MaxFaults /\ <<0, 0>> \in Nat \X Nat
    BY CardAssumption
  <2>2. selected \in BOOLEAN
    OBVIOUS
  <2> QED
    BY <2>1, <2>2 DEF CardTypeOK
<1>2. DriverTypeOK
  BY CardAssumption, EmptySeq DEF DriverTypeOK, CallType
<1>3. PlaceOK /\ LineOK /\ WhereOK /\ DoneOK
  BY DEF PlaceOK, LineOK, WhereOK, DoneOK, UnitMatches, InitLabels, ReadLabels, WriteLabels, TrimLabels
<1>4. OthersKept /\ OkIsDone
  BY DEF OthersKept, OkIsDone
<1> QED
  BY <1>1, <1>2, <1>3, <1>4 DEF SdInv

-----------------------------------------------------------------------------
(* fs_init and the file system make no other steps of the device.          *)

LEMMA DeviceCalls ==
    ASSUME NEW op \in {"init", "read", "program", "trim"}, NEW at \in Nat, NEW count \in Nat,
           NEW data \in Values, NEW next, op \in {"read", "program"} => count > 0,
           Device(op, at, count, data, next)
    PROVE  DeviceStep
<1> DEFINE what == Call(op, at, count, data)
<1>1. PICK c \in Callers : Begin(c, what)
  BY DEF Device
<1>2. what \in CallType /\ what.op = op /\ what.count = count
  BY DEF Call, CallType
<1> HIDE DEF what
<1>3. Called
  BY <1>1, <1>2 DEF Called
<1> QED
  BY <1>3 DEF DeviceStep

LEMMA QuietIs == Quiet => DeviceStep
  BY DEF Quiet, DeviceStep

LEMMA StepsAreDevice ==
    ASSUME SdInv, [Next]_allvars
    PROVE  DeviceStep
<1>1. /\ Erased \in Values /\ Fat \in Values /\ Row \in Values /\ Boot = 0 /\ Data = 2
      /\ total_sectors \in Nat
  BY CardAssumption, StorageAssumption DEF Boot, Data, SdInv, DriverTypeOK
<1>2. /\ "init" \in {"init", "read", "program", "trim"} /\ "read" \in {"init", "read", "program", "trim"}
      /\ "program" \in {"init", "read", "program", "trim"} /\ "trim" \in {"init", "read", "program", "trim"}
  OBVIOUS
<1>3. ASSUME NEW next, \/ Device("init", 0, 0, Erased, next)
                       \/ Device("read", Boot, 1, Erased, next)
                       \/ Device("read", Data - 1, 2, Erased, next)
                       \/ Device("program", Data, 1, Row, next)
                       \/ Device("program", 0, 1, Erased, next)
                       \/ Device("program", 1, 1, Erased, next)
                       \/ Device("program", Boot, 1, Fat, next)
                       \/ Device("program", 1, 2, Erased, next)
                       \/ Device("trim", 0, total_sectors, Erased, next)
      PROVE  DeviceStep
  <2>1. CASE Device("init", 0, 0, Erased, next)
    BY <1>1, <2>1, DeviceCalls
  <2>2. CASE Device("read", Boot, 1, Erased, next)
    BY <1>1, <2>2, DeviceCalls
  <2>3. CASE Device("read", Data - 1, 2, Erased, next)
    <3>1. Data - 1 \in Nat
      BY <1>1
    <3> QED
      BY <1>1, <2>3, <3>1, DeviceCalls
  <2>4. CASE Device("program", Data, 1, Row, next)
    BY <1>1, <2>4, DeviceCalls
  <2>5. CASE Device("program", 0, 1, Erased, next)
    BY <1>1, <2>5, DeviceCalls
  <2>6. CASE Device("program", 1, 1, Erased, next)
    BY <1>1, <2>6, DeviceCalls
  <2>7. CASE Device("program", Boot, 1, Fat, next)
    BY <1>1, <2>7, DeviceCalls
  <2>8. CASE Device("program", 1, 2, Erased, next)
    BY <1>1, <2>8, DeviceCalls
  <2>9. CASE Device("trim", 0, total_sectors, Erased, next)
    BY <1>1, <2>9, DeviceCalls
  <2> QED
    BY <1>3, <2>1, <2>2, <2>3, <2>4, <2>5, <2>6, <2>7, <2>8, <2>9
<1>4. CASE FsInit
  BY <1>4 DEF FsInit, NewDevice, DeviceStep
<1>5. CASE CreateDevice \/ FsMount \/ FsMountInit
  BY <1>3, <1>5, QuietIs DEF CreateDevice, FsMount, FsMountInit, MountFails
<1>6. CASE MountVolume \/ MountDisk \/ MountRead
  BY <1>3, <1>6, QuietIs DEF MountVolume, MountDisk, MountRead, MountFails
<1>7. CASE FsFormat \/ FsFormatInit \/ FormatFirst \/ FormatSecond
  BY <1>3, <1>7, QuietIs DEF FsFormat, FsFormatInit, FormatFirst, FormatSecond, OrFormatReturns,
                             FormatReturns
<1>8. CASE FormatTrim \/ FormatVolume
  BY <1>3, <1>8, QuietIs DEF FormatTrim, FormatVolume, OrFormatReturns, FormatReturns
<1>9. CASE MkfsDisk \/ MkfsBoot \/ MkfsTables
  BY <1>3, <1>9, QuietIs DEF MkfsDisk, MkfsBoot, MkfsTables, FormatReturns
<1>10. CASE WriteRow \/ ReadRows \/ Transferred
  BY <1>3, <1>10, QuietIs DEF WriteRow, ReadRows, Transferred
<1>11. CASE SdStep \/ CardResets
  BY <1>11 DEF DeviceStep
<1>12. CASE UNCHANGED allvars
  BY <1>12 DEF allvars, DeviceStep
<1> QED
  BY <1>4, <1>5, <1>6, <1>7, <1>8, <1>9, <1>10, <1>11, <1>12 DEF Next, StorageStep

LEMMA AlwaysSdInv == Spec => []SdInv
<1>1. Init => SdInv
  BY SdStarts DEF Init
<1>2. SdInv /\ [Next]_allvars => SdInv'
  BY StepsAreDevice, DeviceKeeps
<1> QED
  BY <1>1, <1>2, PTL DEF Spec

\* The card and the driver keep to their types, whatever fails and however often
\* fs_init is called.
THEOREM TypeInvariant == Spec => []SdTypeOK
<1>1. SdInv => SdTypeOK
  BY DEF SdInv, CardTypeOK, DriverTypeOK, SdTypeOK
<1> QED
  BY <1>1, AlwaysSdInv, PTL

\* Every call of the block device, whatever fails in it, gives the mutex back and
\* deselects the card; one that is OK leaves it ready for the next command.
THEOREM LeftReady == Spec => []CardLeftReady
<1>1. SdInv => CardLeftReady
  BY DEF SdInv, LineOK, CardLeftReady
<1> QED
  BY <1>1, AlwaysSdInv, PTL

\* What a call reports as OK has been done, for any extent and any unit of addresses,
\* if the driver knows the unit and no block of several was refused.
THEOREM Done == Spec => []OkIsDone
<1>1. SdInv => OkIsDone
  BY DEF SdInv
<1> QED
  BY <1>1, AlwaysSdInv, PTL

\* No call changes a block outside its extent, wherever it breaks off.
THEOREM Confined == Spec => []OthersKept
<1>1. SdInv => OthersKept
  BY DEF SdInv
<1> QED
  BY <1>1, AlwaysSdInv, PTL

\* An init that is OK has made the card ready and learned its size, also after an
\* ACMD41 whose timeout was taken for OK.
THEOREM HonestInit == Spec => InitIsHonest
<1> DEFINE Honest == pc # "free" /\ pc' = "free" /\ call.op = "init" /\ status' = "OK" =>
                         phase' = "ready" /\ total_sectors' = Size /\ ready'
<1>1. SdInv /\ [Next]_allvars => [Honest]_sdvars
  <2> SUFFICES ASSUME SdInv, [Next]_allvars
               PROVE  Honest \/ UNCHANGED sdvars
    OBVIOUS
  <2>1. DeviceStep
    BY StepsAreDevice
  <2>2. CASE Called \/ CardResets \/ NewDevice
    BY <2>2 DEF Called, Begin, CardResets, NewDevice
  <2>3. CASE InitStep
    <3>1. InitFrame
      BY <2>3, InitShape DEF SdInv
    <3>2. pc' = "free" /\ status' = "OK" =>
             pc = "blocklen" /\ phase' = "ready" /\ ready' /\ total_sectors' = total_sectors
      BY <3>1 DEF InitFrame
    <3>3. pc = "blocklen" => total_sectors = Size
      BY DEF SdInv, LineOK
    <3> QED
      BY <3>2, <3>3
  <2>4. CASE TransferStep
    <3>1. pc \in {"check"} \cup ReadLabels \cup WriteLabels \cup TrimLabels
      BY <2>4 DEF TransferStep, Check, ReadCommand, ReadBlock, ReadEnd, StopTransmission, PreErase,
                  WriteCommand, WriteBlock, WriteEnd, EraseFrom, EraseTo, Erase, ReadLabels, WriteLabels,
                  TrimLabels
    <3>2. call.op # "init"
      BY <3>1 DEF SdInv, PlaceOK
    <3> QED
      BY <3>2
  <2> QED
    BY <2>1, <2>2, <2>3, <2>4 DEF DeviceStep, SdStep
<1>2. [][Honest]_sdvars => InitIsHonest
  BY PTL DEF InitIsHonest
<1> QED
  BY <1>1, <1>2, AlwaysSdInv, PTL DEF Spec

-----------------------------------------------------------------------------
(* The labels of fs_init, and what is in progress at them.                 *)

CreateLabels == {"create", "mount", "mount_init", "volume"}
ReadyLabels == {"volume", "mount_disk", "mount_read"}
FormatLabels == {"format", "format_init", "format_first", "format_second", "format_trim", "format_volume"}
MkfsLabels == {"mkfs_disk", "mkfs_boot", "mkfs_tables"}

StorageTypeOK ==
    /\ fs \in {"up", "transferred"} \cup CreateLabels \cup ReadyLabels \cup FormatLabels \cup MkfsLabels
    /\ attempt \in {1, 2} /\ inits \in Nat /\ mounts \in Nat /\ sd_card_mounted \in BOOLEAN
    /\ slots \in [VolumeIds -> Nat] /\ id \in 0 .. Volumes

\* The call of the block device that is made, or was made, at a label.
CallOK ==
    /\ fs \in {"up", "create", "volume", "format", "format_first"} => pc = "free"
    /\ fs = "mount" /\ pc # "free" => call.op = "init"
    /\ fs \in {"mount_init", "mount_disk", "format_init", "mkfs_disk"} => call.op = "init"
    /\ fs = "mount_read" => call = Call("read", Boot, 1, Erased)
    /\ fs = "format_second" => call = Call("program", 0, 1, Erased)
    /\ fs = "format_trim" => call = Call("program", 1, 1, Erased)
    /\ fs = "format_volume" => call = Call("trim", 0, total_sectors, Erased)
    /\ fs = "mkfs_boot" => call = Call("program", Boot, 1, Fat)
    /\ fs = "mkfs_tables" => call = Call("program", 1, 2, Erased)
    /\ fs = "transferred" =>
          call \in {Call("program", Data, 1, Row), Call("read", Data - 1, 2, Erased)}

\* The device and the volume that a mount ends with.
MountOK ==
    /\ fs \in ReadyLabels => ready
    /\ fs = "mount_init" /\ pc = "free" /\ status = "OK" => ready
    /\ fs \in {"mount_disk", "mount_read"} => id \in VolumeIds /\ slots[id] = inits
    /\ ~sd_card_mounted => mounts = 0
    /\ sd_card_mounted => fs \in {"up", "transferred"} /\ MountedIsUsable

\* Whatever unit the driver takes the card to count in, block 0 is block 0: what
\* f_mount looks at is the boot block, and a row is never written over it.
BootOK ==
    /\ fs = "mount_read" =>
        /\ pc = "read_data" /\ left > 0 => pointer = Boot /\ buffer = <<>>
        /\ buffer # <<>> => buffer[1] = stored[Boot]
    /\ fs = "transferred" /\ pc = "write_data" /\ left > 0 => pointer > 0

MountInv == StorageTypeOK /\ CallOK /\ MountOK /\ BootOK

-----------------------------------------------------------------------------
(* The steps of the device, as the file system relies on them.             *)

\* Blocks change by a block that is accepted and by a trim only.
LEMMA StoredKept ==
    ASSUME SdInv, SdStep
    PROVE  \/ stored' = stored
           \/ /\ pc = "write_data" /\ left > 0 /\ pointer \in Blocks
              /\ stored' = [stored EXCEPT ![pointer] = call.data]
           \/ /\ pc = "erase"
              /\ stored' = [b \in Blocks |-> IF b \in range[1] .. range[2] THEN Erased ELSE stored[b]]
<1>1. CardTypeOK
  BY DEF SdInv
<1>2. CASE InitStep
  BY <1>2, InitShape DEF SdInv, InitFrame
<1>3. ASSUME NEW cmd, NEW block, NEW next, Or(cmd, block, next), cmd # "CMD38"
      PROVE  stored' = stored
  <2>1. PICK a \in Answers(cmd, block) : Command(cmd, block, a)
    BY <1>3 DEF Or
  <2> QED
    BY <1>1, <1>3, <2>1, CommandFacts
<1>4. CASE Check \/ ReadEnd \/ WriteEnd \/ ReadBlock
  BY <1>4 DEF Check, ReadEnd, WriteEnd, ReadBlock, card
<1>5. CASE ReadCommand \/ WriteCommand \/ EraseFrom \/ EraseTo
  BY <1>3, <1>5 DEF ReadCommand, WriteCommand, EraseFrom, EraseTo
<1>6. CASE StopTransmission
  <2>1. PICK a \in Answers("CMD12", 0) : Command("CMD12", 0, a)
    BY <1>6 DEF StopTransmission
  <2> QED
    BY <1>1, <2>1, CommandFacts
<1>7. CASE PreErase
  <2>1. PICK a \in Answers("ACMD23", 0) : Command("ACMD23", 0, a)
    BY <1>7 DEF PreErase
  <2> QED
    BY <1>1, <2>1, CommandFacts
<1>8. CASE WriteBlock
  BY <1>8 DEF WriteBlock
<1>9. CASE Erase
  <2>1. PICK a \in Answers("CMD38", 0) : pc = "erase" /\ Command("CMD38", 0, a)
    BY <1>9 DEF Erase
  <2> QED
    BY <1>1, <2>1, CommandFacts
<1> QED
  BY <1>2, <1>4, <1>5, <1>6, <1>7, <1>8, <1>9 DEF SdStep, TransferStep

\* A transfer leaves the configuration alone; no call ends between its steps.
LEMMA TransferKeepsConfig ==
    ASSUME SdInv, TransferStep
    PROVE  /\ UNCHANGED <<config, call, kind>>
           /\ pc \in {"check"} \cup ReadLabels \cup WriteLabels \cup TrimLabels
           /\ call.op \in {"read", "program", "trim"}
<1>1. UNCHANGED <<config, call, kind>>
  BY DEF TransferStep, Check, ReadCommand, ReadBlock, ReadEnd, StopTransmission, PreErase,
         WriteCommand, WriteBlock, WriteEnd, EraseFrom, EraseTo, Erase, Or, Command, Exchange,
         Silent, progress, card
<1>2. pc \in {"check"} \cup ReadLabels \cup WriteLabels \cup TrimLabels
  BY DEF TransferStep, Check, ReadCommand, ReadBlock, ReadEnd, StopTransmission, PreErase,
         WriteCommand, WriteBlock, WriteEnd, EraseFrom, EraseTo, Erase, ReadLabels, WriteLabels,
         TrimLabels
<1> QED
  BY <1>1, <1>2 DEF SdInv, PlaceOK

\* No step of init makes a device uninitialised again.
LEMMA InitKeepsReady ==
    ASSUME InitStep
    PROVE  ready' = ready \/ ready'
BY DEF InitStep, GoIdle, SendIfCond, ReadOcr, SendOpCond, ReadCcs, CrcOff, SendCsd, ReadCsd,
       SetBlockLen, InitCardReturns, config

LEMMA StepKeeps ==
    ASSUME SdInv, SdStep
    PROVE  /\ call' = call /\ pc # "free" /\ kind' = kind
           /\ ready => ready'
           /\ call.op # "init" => UNCHANGED config
           /\ call.op = "init" => stored' = stored
           /\ call.op = "init" /\ pc' = "free" /\ status' = "OK" => ready'
<1>1. CASE InitStep
  <2>1. InitFrame
    BY <1>1, InitShape DEF SdInv
  <2>2. call.op = "init" /\ pc # "free"
    BY <2>1 DEF InitFrame, SdInv, PlaceOK, InitLabels
  <2> QED
    BY <1>1, <2>1, <2>2, InitKeepsReady DEF InitFrame
<1>2. CASE TransferStep
  BY <1>2, TransferKeepsConfig DEF config, ReadLabels, WriteLabels, TrimLabels
<1> QED
  BY <1>1, <1>2 DEF SdStep

\* The first block is the first block in any unit, and no other is.
LEMMA TargetOfFirst ==
    ASSUME SdInv
    PROVE  Target(0) = 0 /\ Target(Data) \in Int /\ Target(Data) > 0
<1>1. (0 * Unit) \div Unit = 0 /\ (2 * Unit) \div Unit = 2
  BY Times, CardAssumption
<1>2. 0 * Unit = 0 /\ 2 * Unit \in Int /\ 2 * Unit > 0
  BY CardAssumption
<1>3. card_type = "V2HC" => kind = "V2HC"
  BY DEF SdInv, WhereOK
<1>4. Data = 2
  BY DEF Data
<1>5. CASE card_type = "V2HC"
  BY <1>3, <1>4, <1>5 DEF Target, BlockAt, Address
<1>6. CASE card_type # "V2HC" /\ kind = "V2HC"
  BY <1>2, <1>4, <1>6 DEF Target, BlockAt, Address
<1>7. CASE card_type # "V2HC" /\ kind # "V2HC"
  BY <1>1, <1>4, <1>7 DEF Target, BlockAt, Address
<1> QED
  BY <1>5, <1>6, <1>7

\* The read of the boot block.
LEMMA BootReadKeeps ==
    ASSUME SdInv, SdStep, MountInv, UNCHANGED storage, fs = "mount_read"
    PROVE  BootOK'
<1> USE DEF storage
<1>1. call = Call("read", Boot, 1, Erased)
  BY DEF MountInv, CallOK
<1>2. call.op = "read" /\ call.first = 0 /\ call.count = 1 /\ left =< 1
  BY <1>1 DEF Call, Boot, SdInv, PlaceOK
<1>3. call' = call /\ pc # "free"
  BY StepKeeps
<1>4. pc \in {"check", "read_cmd", "read_data"}
  BY <1>2, <1>3 DEF SdInv, PlaceOK, InitLabels, ReadLabels, WriteLabels, TrimLabels
<1>5. stored' = stored
  BY <1>4, StoredKept
<1>6. stored \in [Blocks -> Values] /\ 0 \in Blocks /\ left \in Nat
  BY CardAssumption, StorageAssumption DEF SdInv, CardTypeOK, DriverTypeOK, Blocks
<1>7. SUFFICES /\ pc' = "read_data" /\ left' > 0 => pointer' = Boot /\ buffer' = <<>>
               /\ buffer' # <<>> => buffer'[1] = stored'[Boot]
  BY DEF BootOK, Boot
<1>8. CASE Check
  BY <1>4, <1>5, <1>8 DEF Check, progress, SdInv, PlaceOK, Go, Return
<1>9. CASE ReadCommand
  <2>1. Or("CMD17", Target(0), "read_data") /\ pc = "read_cmd" /\ buffer = <<>>
    BY <1>2, <1>9 DEF ReadCommand, SdInv, PlaceOK
  <2>2. PICK a \in Answers("CMD17", Target(0)) :
          /\ Command("CMD17", Target(0), a) /\ Silent /\ UNCHANGED config
          /\ IF StatusOf(a) = "OK" THEN Go("read_data") ELSE Return(StatusOf(a))
    BY <2>1 DEF Or
  <2>3. StatusOf(a) = "OK" => pointer' = 0
    BY <2>2, CommandFacts, TargetOfFirst DEF SdInv, Addressed
  <2>4. pc' = "read_data" => StatusOf(a) = "OK"
    BY <2>2 DEF Return
  <2>5. buffer' = <<>>
    BY <2>1, <2>2 DEF Silent, progress
  <2> QED
    BY <2>3, <2>4, <2>5 DEF Boot
<1>10. CASE ReadBlock
  <2>1. PICK came \in BOOLEAN :
           /\ pc = "read_data" /\ left > 0
           /\ buffer' = IF came THEN Append(buffer, stored[pointer]) ELSE buffer
           /\ left' = IF came THEN left - 1 ELSE 0
    BY <1>10 DEF ReadBlock
  <2>2. pointer = 0 /\ buffer = <<>>
    BY <2>1 DEF MountInv, BootOK, Boot
  <2>3. left' = 0
    BY <1>2, <1>6, <2>1
  <2>4. stored[0] \in Values
    BY <1>6
  <2>5. Append(<<>>, stored[0])[1] = stored[0]
    BY <2>4
  <2> QED
    BY <1>5, <2>1, <2>2, <2>3, <2>5 DEF Boot
<1>11. CASE ReadEnd
  BY <1>5, <1>11 DEF ReadEnd, progress, Return, Go, MountInv, BootOK
<1>12. Check \/ ReadCommand \/ ReadBlock \/ ReadEnd
  BY <1>4, InitShape DEF SdStep, TransferStep, StopTransmission, PreErase, WriteCommand, WriteBlock,
     WriteEnd, EraseFrom, EraseTo, Erase, SdInv, InitFrame, InitLabels
<1> QED
  BY <1>8, <1>9, <1>10, <1>11, <1>12

\* The write of a row.
LEMMA RowWriteKeeps ==
    ASSUME SdInv, SdStep, MountInv, UNCHANGED storage, fs = "transferred"
    PROVE  BootOK'
<1> USE DEF storage
<1>1. SUFFICES ASSUME pc' = "write_data", left' > 0
               PROVE  pointer' > 0
  BY DEF BootOK
<1>2. SdInv'
  BY DeviceKeeps DEF DeviceStep
<1>3. call' = call
  BY StepKeeps
<1>4. call.op = "program"
  BY <1>1, <1>2, <1>3 DEF SdInv, PlaceOK, WriteLabels
<1>5. call = Call("program", Data, 1, Row)
  BY <1>4 DEF MountInv, CallOK, Call
<1>6. call.first = Data /\ call.count = 1
  BY <1>5 DEF Call
<1>7. pc \in {"check"} \cup WriteLabels
  BY <1>4, StepKeeps DEF SdInv, PlaceOK, InitLabels, ReadLabels, TrimLabels
<1>8. CASE WriteCommand
  <2>1. Or("CMD24", Target(Data), "write_data")
    BY <1>6, <1>8 DEF WriteCommand
  <2>2. PICK a \in Answers("CMD24", Target(Data)) :
          /\ Command("CMD24", Target(Data), a)
          /\ IF StatusOf(a) = "OK" THEN Go("write_data") ELSE Return(StatusOf(a))
    BY <2>1 DEF Or
  <2>3. StatusOf(a) = "OK"
    BY <1>1, <2>2 DEF Return
  <2>4. pointer' = Target(Data)
    BY <2>2, <2>3, CommandFacts DEF SdInv, Addressed
  <2> QED
    BY <2>4, TargetOfFirst
<1>9. CASE WriteBlock
  <2>1. PICK accepted \in BOOLEAN :
           /\ pc = "write_data" /\ left > 0
           /\ pointer' = IF accepted THEN pointer + 1 ELSE pointer
    BY <1>9 DEF WriteBlock
  <2>2. pointer > 0 /\ pointer \in Nat
    BY <2>1 DEF MountInv, BootOK, SdInv, CardTypeOK
  <2> QED
    BY <2>1, <2>2
<1>10. CASE Check \/ PreErase \/ WriteEnd
  BY <1>1, <1>4, <1>10 DEF Check, PreErase, WriteEnd, Go, Return
<1>11. Check \/ WriteCommand \/ WriteBlock \/ PreErase \/ WriteEnd
  BY <1>7, InitShape DEF SdStep, TransferStep, ReadCommand, ReadBlock, ReadEnd, StopTransmission, EraseFrom,
     EraseTo, Erase, SdInv, InitFrame, InitLabels, WriteLabels
<1> QED
  BY <1>8, <1>9, <1>10, <1>11

\* A step of the device, with fs_init waiting for it.
LEMMA DeviceKeepsMount ==
    ASSUME SdInv, SdStep, MountInv, UNCHANGED storage
    PROVE  MountInv'
<1> USE DEF storage, volume
<1>1. /\ call' = call /\ pc # "free" /\ (ready => ready') /\ (call.op # "init" => UNCHANGED config)
      /\ call.op = "init" => stored' = stored
      /\ call.op = "init" /\ pc' = "free" /\ status' = "OK" => ready'
  BY StepKeeps
<1>2. StorageTypeOK'
  BY DEF MountInv, StorageTypeOK
<1>3. CallOK'
  <2>1. fs = "format_volume" => call.op # "init"
    BY DEF MountInv, CallOK, Call
  <2> QED
    BY <1>1, <2>1 DEF MountInv, CallOK, config
<1>4. BootOK'
  BY BootReadKeeps, RowWriteKeeps DEF BootOK
<1>5. MountOK'
  <2>1. sd_card_mounted => fs = "transferred"
    BY <1>1 DEF MountInv, MountOK, CallOK
  <2>2. fs = "transferred" => stored'[Boot] = stored[Boot]
    <3>1. SUFFICES ASSUME fs = "transferred", stored' # stored
                   PROVE  stored'[Boot] = stored[Boot]
      OBVIOUS
    <3>2. call.op \in {"program", "read"}
      BY <3>1 DEF MountInv, CallOK, Call
    <3>3. pc = "write_data" /\ left > 0 /\ stored' = [stored EXCEPT ![pointer] = call.data]
      BY <3>1, <3>2, StoredKept DEF SdInv, PlaceOK, TrimLabels
    <3>4. pointer > 0 /\ pointer \in Nat
      BY <3>1, <3>3 DEF MountInv, BootOK, SdInv, CardTypeOK
    <3>5. stored \in [Blocks -> Values] /\ Boot \in Blocks /\ Boot # pointer
      BY <3>4, CardAssumption, StorageAssumption DEF SdInv, CardTypeOK, Boot, Blocks
    <3> QED
      BY <3>3, <3>5
  <2>3. MountedIsUsable /\ fs = "transferred" => MountedIsUsable'
    BY <1>1, <2>2 DEF MountedIsUsable
  <2>4. fs = "mount_init" => call.op = "init"
    BY DEF MountInv, CallOK
  <2> QED
    BY <1>1, <2>1, <2>3, <2>4 DEF MountInv, MountOK
<1> QED
  BY <1>2, <1>3, <1>4, <1>5 DEF MountInv

-----------------------------------------------------------------------------
(* The steps of fs_init between two calls of the device.                   *)

LEMMA FirstIs ==
    ASSUME NEW S \in SUBSET Nat, S # {}
    PROVE  First(S) \in S
<1>1. PICK i \in S : \A j \in S : <<j, i>> \notin OpToRel(<, Nat)
  BY NatLessThanWellFounded, WFMin
<1>2. \A j \in S : i =< j
  <2> SUFFICES ASSUME NEW j \in S, ~(i =< j) PROVE FALSE
    OBVIOUS
  <2>1. i \in Nat /\ j \in Nat /\ j < i
    OBVIOUS
  <2>2. <<j, i>> \in OpToRel(<, Nat)
    BY <2>1 DEF OpToRel
  <2> QED
    BY <1>1, <2>2
<1> QED
  BY <1>2 DEF First

LEMMA FreeIs ==
    ASSUME Free # {}
    PROVE  First(Free) \in VolumeIds /\ slots[First(Free)] = 0
<1>1. Volumes \in Nat /\ Free \in SUBSET Nat
  BY StorageAssumption DEF Free, VolumeIds
<1>2. First(Free) \in Free
  BY <1>1, FirstIs
<1> QED
  BY <1>2 DEF Free

\* A call that has been made.
LEMMA DeviceIs ==
    ASSUME NEW op, NEW first, NEW count, NEW data, NEW next, Device(op, first, count, data, next)
    PROVE  /\ fs' = next /\ pc = "free" /\ pc' = IF op = "init" THEN "go_idle" ELSE "check"
           /\ call' = Call(op, first, count, data) /\ call'.op = op
           /\ buffer' = <<>> /\ status' = "OK" /\ damaged' = FALSE
           /\ UNCHANGED <<card, config, faults>>
<1>1. PICK c \in Callers : Begin(c, Call(op, first, count, data)) /\ fs' = next
  BY DEF Device
<1> QED
  BY <1>1 DEF Begin, Call

LEMMA TransferIs ==
    ASSUME NEW op \in {"read", "program", "trim"}, NEW first, NEW count, NEW data, NEW next,
           Device(op, first, count, data, next)
    PROVE  /\ fs' = next /\ pc = "free" /\ pc' = "check" /\ status' = "OK" /\ damaged' = FALSE
           /\ UNCHANGED <<stored, ready, faults, card, config>>
  BY DeviceIs DEF card, config

\* What a step that leaves the card as it is, and mounts nothing, has to preserve.
LEMMA MovesOn ==
    ASSUME MountInv, pc = "free", pc' \in {"free", "go_idle", "check"}, ~sd_card_mounted,
           UNCHANGED <<stored, ready, inits, mounts, sd_card_mounted>>,
           StorageTypeOK', CallOK',
           fs' \in ReadyLabels => ready,
           fs' = "mount_init" => pc' # "free",
           fs' \in {"mount_disk", "mount_read"} => id' \in VolumeIds /\ slots'[id'] = inits,
           fs' = "mount_read" => buffer' = <<>>
    PROVE  MountInv'
<1>1. MountOK'
  BY DEF MountInv, MountOK
<1>2. BootOK'
  BY DEF BootOK
<1> QED
  BY <1>1, <1>2 DEF MountInv

\* The label that a call of the device is looked at under tells which call it was.
LEMMA CallsFit ==
    ASSUME \/ pc' = "free" /\ fs' \in {"up", "create", "mount", "volume", "format", "format_first"}
           \/ \E label \in {"mount", "mount_init", "mount_disk", "format_init", "mkfs_disk"} :
                 Device("init", 0, 0, Erased, label)
           \/ Device("read", Boot, 1, Erased, "mount_read")
           \/ Device("program", 0, 1, Erased, "format_second")
           \/ Device("program", 1, 1, Erased, "format_trim")
           \/ Device("trim", 0, total_sectors, Erased, "format_volume")
           \/ Device("program", Boot, 1, Fat, "mkfs_boot")
           \/ Device("program", 1, 2, Erased, "mkfs_tables")
           \/ Device("program", Data, 1, Row, "transferred")
           \/ Device("read", Data - 1, 2, Erased, "transferred")
    PROVE  CallOK'
<1>1. CASE pc' = "free" /\ fs' \in {"up", "create", "mount", "volume", "format", "format_first"}
  BY <1>1 DEF CallOK
<1>2. ASSUME NEW label \in {"mount", "mount_init", "mount_disk", "format_init", "mkfs_disk"},
             Device("init", 0, 0, Erased, label)
      PROVE  CallOK'
  <2>1. fs' = label /\ call'.op = "init"
    BY <1>2, DeviceIs
  <2> QED
    BY <2>1 DEF CallOK
<1>3. CASE Device("read", Boot, 1, Erased, "mount_read")
  <2>1. fs' = "mount_read" /\ call' = Call("read", Boot, 1, Erased)
    BY <1>3, DeviceIs
  <2> QED
    BY <2>1 DEF CallOK
<1>4. CASE Device("program", 0, 1, Erased, "format_second")
  <2>1. fs' = "format_second" /\ call' = Call("program", 0, 1, Erased)
    BY <1>4, DeviceIs
  <2> QED
    BY <2>1 DEF CallOK
<1>5. CASE Device("program", 1, 1, Erased, "format_trim")
  <2>1. fs' = "format_trim" /\ call' = Call("program", 1, 1, Erased)
    BY <1>5, DeviceIs
  <2> QED
    BY <2>1 DEF CallOK
<1>6. CASE Device("trim", 0, total_sectors, Erased, "format_volume")
  <2>1. /\ fs' = "format_volume" /\ call' = Call("trim", 0, total_sectors, Erased)
        /\ total_sectors' = total_sectors
    BY <1>6, DeviceIs DEF config
  <2> QED
    BY <2>1 DEF CallOK
<1>7. CASE Device("program", Boot, 1, Fat, "mkfs_boot")
  <2>1. fs' = "mkfs_boot" /\ call' = Call("program", Boot, 1, Fat)
    BY <1>7, DeviceIs
  <2> QED
    BY <2>1 DEF CallOK
<1>8. CASE Device("program", 1, 2, Erased, "mkfs_tables")
  <2>1. fs' = "mkfs_tables" /\ call' = Call("program", 1, 2, Erased)
    BY <1>8, DeviceIs
  <2> QED
    BY <2>1 DEF CallOK
<1>9. CASE Device("program", Data, 1, Row, "transferred")
  <2>1. fs' = "transferred" /\ call' = Call("program", Data, 1, Row)
    BY <1>9, DeviceIs
  <2> QED
    BY <2>1 DEF CallOK
<1>10. CASE Device("read", Data - 1, 2, Erased, "transferred")
  <2>1. fs' = "transferred" /\ call' = Call("read", Data - 1, 2, Erased)
    BY <1>10, DeviceIs
  <2> QED
    BY <2>1 DEF CallOK
<1> QED
  BY <1>1, <1>2, <1>3, <1>4, <1>5, <1>6, <1>7, <1>8, <1>9, <1>10

LEMMA SlotTypes ==
    ASSUME StorageTypeOK
    PROVE  /\ \A i \in VolumeIds : [slots EXCEPT ![i] = inits] \in [VolumeIds -> Nat]
                                   /\ [slots EXCEPT ![i] = inits][i] = inits
           /\ Unmounted \in [VolumeIds -> Nat]
           /\ VolumeIds \subseteq 0 .. Volumes /\ Volumes \in Nat /\ Volumes \notin VolumeIds
<1>1. slots \in [VolumeIds -> Nat] /\ inits \in Nat
  BY DEF StorageTypeOK
<1>2. ASSUME NEW i, NEW n \in Nat
      PROVE  [slots EXCEPT ![i] = n] \in [VolumeIds -> Nat]
  BY <1>1, <1>2
<1>3. \A i \in VolumeIds : [slots EXCEPT ![i] = inits][i] = inits
  BY <1>1
<1>4. VolumeIds \subseteq 0 .. Volumes /\ Volumes \in Nat /\ Volumes \notin VolumeIds
  BY StorageAssumption DEF VolumeIds
<1>5. 0 \in Nat
  OBVIOUS
<1> QED
  BY <1>1, <1>2, <1>3, <1>4, <1>5 DEF Unmounted

LEMMA NotMounted ==
    ASSUME MountInv, fs \notin {"up", "transferred"}
    PROVE  ~sd_card_mounted
  BY DEF MountInv, MountOK

\* Every step of fs_init before the card is mounted.
LEMMA FsKeepsMount ==
    ASSUME SdInv, MountInv,
           \/ CreateDevice \/ FsMount \/ FsMountInit \/ MountVolume \/ MountDisk
           \/ FsFormat \/ FsFormatInit \/ FormatFirst \/ FormatSecond \/ FormatTrim \/ FormatVolume
           \/ MkfsDisk \/ MkfsBoot \/ MkfsTables
    PROVE  MountInv'
<1> USE DEF At, Boots, volume, Quiet, sdvars, card, config, progress
<1>0. /\ StorageTypeOK /\ CallOK /\ MountOK /\ BootOK /\ inits \in Nat
  BY DEF MountInv, StorageTypeOK
<1>1. CASE CreateDevice
  <2>1. ~sd_card_mounted /\ pc = "free" /\ pc' \in {"free", "go_idle", "check"}
    BY <1>1, NotMounted, DeviceIs DEF CreateDevice
  <2>2. UNCHANGED <<stored, ready, inits, mounts, sd_card_mounted>>
    BY <1>1, DeviceIs DEF CreateDevice
  <2>3. /\ fs' = "mount" /\ attempt' \in {attempt, 2}
        /\ UNCHANGED <<slots, id>>
    BY <1>0, <1>1, DeviceIs DEF CreateDevice
  <2>4. StorageTypeOK'
    BY <1>0, <2>2, <2>3, SlotTypes DEF StorageTypeOK, CreateLabels, ReadyLabels, FormatLabels, MkfsLabels
  <2>5. CallOK'
    BY <1>1, CallsFit DEF CreateDevice
  <2> QED
    BY <1>0, <2>1, <2>2, <2>3, <2>4, <2>5, MovesOn DEF MountOK, ReadyLabels
<1>2. CASE FsMount
  <2>1. ~sd_card_mounted /\ pc = "free" /\ pc' \in {"free", "go_idle", "check"}
    BY <1>2, NotMounted, DeviceIs DEF FsMount
  <2>2. UNCHANGED <<stored, ready, inits, mounts, sd_card_mounted>>
    BY <1>2, DeviceIs DEF FsMount
  <2>3. /\ fs' \in {"volume", "mount_init"} /\ attempt' \in {attempt, 2}
        /\ fs' = "volume" => ready
        /\ fs' = "mount_init" => pc' # "free"
        /\ UNCHANGED <<slots, id>>
    BY <1>0, <1>2, DeviceIs DEF FsMount
  <2>4. StorageTypeOK'
    BY <1>0, <2>2, <2>3, SlotTypes DEF StorageTypeOK, CreateLabels, ReadyLabels, FormatLabels, MkfsLabels
  <2>5. CallOK'
    BY <1>2, CallsFit DEF FsMount
  <2> QED
    BY <1>0, <2>1, <2>2, <2>3, <2>4, <2>5, MovesOn DEF MountOK, ReadyLabels
<1>3. CASE FsMountInit
  <2>1. ~sd_card_mounted /\ pc = "free" /\ pc' \in {"free", "go_idle", "check"}
    BY <1>3, NotMounted, DeviceIs DEF FsMountInit, MountFails
  <2>2. UNCHANGED <<stored, ready, inits, mounts, sd_card_mounted>>
    BY <1>3, DeviceIs DEF FsMountInit, MountFails
  <2>3. /\ fs' \in {"volume", "format", "up"} /\ attempt' \in {attempt, 2}
        /\ fs' = "volume" => status = "OK" /\ fs = "mount_init"
        /\ UNCHANGED <<slots, id>>
    BY <1>0, <1>3, DeviceIs DEF FsMountInit, MountFails
  <2>4. StorageTypeOK'
    BY <1>0, <2>2, <2>3, SlotTypes DEF StorageTypeOK, CreateLabels, ReadyLabels, FormatLabels, MkfsLabels
  <2>5. CallOK'
    BY <1>3, CallsFit DEF FsMountInit, MountFails
  <2> QED
    BY <1>0, <2>1, <2>2, <2>3, <2>4, <2>5, MovesOn DEF MountOK, ReadyLabels
<1>4. CASE MountVolume
  <2>1. ~sd_card_mounted /\ pc = "free" /\ pc' \in {"free", "go_idle", "check"}
    BY <1>4, NotMounted, DeviceIs DEF MountVolume, MountFails, TakeVolume
  <2>2. UNCHANGED <<stored, ready, inits, mounts, sd_card_mounted>>
    BY <1>4, DeviceIs DEF MountVolume, MountFails, TakeVolume
  <2>3. /\ fs' \in {"mount_disk", "format", "up"} /\ attempt' \in {attempt, 2}
        /\ fs = "volume" /\ (fs' = "mount_disk" => slots'[id'] = inits /\ id' \in VolumeIds)
        /\ slots' \in [VolumeIds -> Nat] /\ id' \in 0 .. Volumes
    BY <1>0, <1>4, DeviceIs, FreeIs, SlotTypes DEF MountVolume, MountFails, TakeVolume, StorageTypeOK
  <2>4. StorageTypeOK'
    BY <1>0, <2>2, <2>3, SlotTypes DEF StorageTypeOK, CreateLabels, ReadyLabels, FormatLabels, MkfsLabels
  <2>5. CallOK'
    BY <1>4, CallsFit DEF MountVolume, MountFails, TakeVolume
  <2> QED
    BY <1>0, <2>1, <2>2, <2>3, <2>4, <2>5, MovesOn DEF MountOK, ReadyLabels
<1>5. CASE MountDisk
  <2>1. ~sd_card_mounted /\ pc = "free" /\ pc' \in {"free", "go_idle", "check"}
    BY <1>5, NotMounted, DeviceIs DEF MountDisk, MountFails
  <2>2. UNCHANGED <<stored, ready, inits, mounts, sd_card_mounted>>
    BY <1>5, DeviceIs DEF MountDisk, MountFails
  <2>3. /\ fs' \in {"mount_read", "format", "up"} /\ attempt' \in {attempt, 2}
        /\ fs = "mount_disk" /\ (fs' = "mount_read" => buffer' = <<>> /\ UNCHANGED <<slots, id>>)
        /\ UNCHANGED <<slots, id>>
    BY <1>0, <1>5, DeviceIs DEF MountDisk, MountFails
  <2>4. StorageTypeOK'
    BY <1>0, <2>2, <2>3, SlotTypes DEF StorageTypeOK, CreateLabels, ReadyLabels, FormatLabels, MkfsLabels
  <2>5. CallOK'
    BY <1>5, CallsFit DEF MountDisk, MountFails
  <2> QED
    BY <1>0, <2>1, <2>2, <2>3, <2>4, <2>5, MovesOn DEF MountOK, ReadyLabels
<1>6. CASE FsFormat
  <2>1. ~sd_card_mounted /\ pc = "free" /\ pc' \in {"free", "go_idle", "check"}
    BY <1>6, NotMounted, DeviceIs DEF FsFormat
  <2>2. UNCHANGED <<stored, ready, inits, mounts, sd_card_mounted>>
    BY <1>6, DeviceIs DEF FsFormat
  <2>3. /\ fs' \in {"format_first", "format_init"} /\ attempt' \in {attempt, 2}
        /\ UNCHANGED <<slots, id>>
    BY <1>0, <1>6, DeviceIs DEF FsFormat
  <2>4. StorageTypeOK'
    BY <1>0, <2>2, <2>3, SlotTypes DEF StorageTypeOK, CreateLabels, ReadyLabels, FormatLabels, MkfsLabels
  <2>5. CallOK'
    BY <1>6, CallsFit DEF FsFormat
  <2> QED
    BY <1>0, <2>1, <2>2, <2>3, <2>4, <2>5, MovesOn DEF MountOK, ReadyLabels
<1>7. CASE FsFormatInit
  <2>1. ~sd_card_mounted /\ pc = "free" /\ pc' \in {"free", "go_idle", "check"}
    BY <1>7, NotMounted, DeviceIs DEF FsFormatInit
  <2>2. UNCHANGED <<stored, ready, inits, mounts, sd_card_mounted>>
    BY <1>7, DeviceIs DEF FsFormatInit
  <2>3. /\ fs' \in {"format_first", "up"} /\ attempt' \in {attempt, 2}
        /\ UNCHANGED <<slots, id>>
    BY <1>0, <1>7, DeviceIs DEF FsFormatInit
  <2>4. StorageTypeOK'
    BY <1>0, <2>2, <2>3, SlotTypes DEF StorageTypeOK, CreateLabels, ReadyLabels, FormatLabels, MkfsLabels
  <2>5. CallOK'
    BY <1>7, CallsFit DEF FsFormatInit
  <2> QED
    BY <1>0, <2>1, <2>2, <2>3, <2>4, <2>5, MovesOn DEF MountOK, ReadyLabels
<1>8. CASE FormatFirst
  <2>1. ~sd_card_mounted /\ pc = "free" /\ pc' \in {"free", "go_idle", "check"}
    BY <1>8, NotMounted, DeviceIs DEF FormatFirst
  <2>2. UNCHANGED <<stored, ready, inits, mounts, sd_card_mounted>>
    BY <1>8, DeviceIs DEF FormatFirst
  <2>3. /\ fs' = "format_second" /\ attempt' \in {attempt, 2}
        /\ UNCHANGED <<slots, id>>
    BY <1>0, <1>8, DeviceIs DEF FormatFirst
  <2>4. StorageTypeOK'
    BY <1>0, <2>2, <2>3, SlotTypes DEF StorageTypeOK, CreateLabels, ReadyLabels, FormatLabels, MkfsLabels
  <2>5. CallOK'
    BY <1>8, CallsFit DEF FormatFirst
  <2> QED
    BY <1>0, <2>1, <2>2, <2>3, <2>4, <2>5, MovesOn DEF MountOK, ReadyLabels
<1>9. CASE FormatSecond
  <2>1. ~sd_card_mounted /\ pc = "free" /\ pc' \in {"free", "go_idle", "check"}
    BY <1>9, NotMounted, DeviceIs DEF FormatSecond, OrFormatReturns, FormatReturns
  <2>2. UNCHANGED <<stored, ready, inits, mounts, sd_card_mounted>>
    BY <1>9, DeviceIs DEF FormatSecond, OrFormatReturns, FormatReturns
  <2>3. /\ fs' \in {"format_trim", "mount"} /\ attempt' \in {attempt, 2}
        /\ UNCHANGED <<slots, id>>
    BY <1>0, <1>9, DeviceIs DEF FormatSecond, OrFormatReturns, FormatReturns
  <2>4. StorageTypeOK'
    BY <1>0, <2>2, <2>3, SlotTypes DEF StorageTypeOK, CreateLabels, ReadyLabels, FormatLabels, MkfsLabels
  <2>5. CallOK'
    BY <1>9, CallsFit DEF FormatSecond, OrFormatReturns, FormatReturns
  <2> QED
    BY <1>0, <2>1, <2>2, <2>3, <2>4, <2>5, MovesOn DEF MountOK, ReadyLabels
<1>10. CASE FormatTrim
  <2>1. ~sd_card_mounted /\ pc = "free" /\ pc' \in {"free", "go_idle", "check"}
    BY <1>10, NotMounted, DeviceIs DEF FormatTrim, OrFormatReturns, FormatReturns
  <2>2. UNCHANGED <<stored, ready, inits, mounts, sd_card_mounted>>
    BY <1>10, DeviceIs DEF FormatTrim, OrFormatReturns, FormatReturns
  <2>3. /\ fs' \in {"format_volume", "mount"} /\ attempt' \in {attempt, 2}
        /\ UNCHANGED <<slots, id>>
    BY <1>0, <1>10, DeviceIs DEF FormatTrim, OrFormatReturns, FormatReturns
  <2>4. StorageTypeOK'
    BY <1>0, <2>2, <2>3, SlotTypes DEF StorageTypeOK, CreateLabels, ReadyLabels, FormatLabels, MkfsLabels
  <2>5. CallOK'
    BY <1>10, CallsFit DEF FormatTrim, OrFormatReturns, FormatReturns
  <2> QED
    BY <1>0, <2>1, <2>2, <2>3, <2>4, <2>5, MovesOn DEF MountOK, ReadyLabels
<1>11. CASE FormatVolume
  <2>1. ~sd_card_mounted /\ pc = "free" /\ pc' \in {"free", "go_idle", "check"}
    BY <1>11, NotMounted, DeviceIs DEF FormatVolume, FormatReturns, TakeVolume
  <2>2. UNCHANGED <<stored, ready, inits, mounts, sd_card_mounted>>
    BY <1>11, DeviceIs DEF FormatVolume, FormatReturns, TakeVolume
  <2>3. /\ fs' \in {"mkfs_disk", "mount"} /\ attempt' \in {attempt, 2}
        /\ slots' \in [VolumeIds -> Nat] /\ id' \in 0 .. Volumes
    BY <1>0, <1>11, DeviceIs, FreeIs, SlotTypes DEF FormatVolume, FormatReturns, TakeVolume, StorageTypeOK
  <2>4. StorageTypeOK'
    BY <1>0, <2>2, <2>3, SlotTypes DEF StorageTypeOK, CreateLabels, ReadyLabels, FormatLabels, MkfsLabels
  <2>5. CallOK'
    BY <1>11, CallsFit DEF FormatVolume, FormatReturns, TakeVolume
  <2> QED
    BY <1>0, <2>1, <2>2, <2>3, <2>4, <2>5, MovesOn DEF MountOK, ReadyLabels
<1>12. CASE MkfsDisk
  <2>1. ~sd_card_mounted /\ pc = "free" /\ pc' \in {"free", "go_idle", "check"}
    BY <1>12, NotMounted, DeviceIs DEF MkfsDisk, FormatReturns
  <2>2. UNCHANGED <<stored, ready, inits, mounts, sd_card_mounted>>
    BY <1>12, DeviceIs DEF MkfsDisk, FormatReturns
  <2>3. /\ fs' \in {"mkfs_boot", "mount"} /\ attempt' \in {attempt, 2}
        /\ slots' \in {slots, Unmounted} /\ id' = id
    BY <1>0, <1>12, DeviceIs DEF MkfsDisk, FormatReturns
  <2>4. StorageTypeOK'
    BY <1>0, <2>2, <2>3, SlotTypes DEF StorageTypeOK, CreateLabels, ReadyLabels, FormatLabels, MkfsLabels
  <2>5. CallOK'
    BY <1>12, CallsFit DEF MkfsDisk, FormatReturns
  <2> QED
    BY <1>0, <2>1, <2>2, <2>3, <2>4, <2>5, MovesOn DEF MountOK, ReadyLabels
<1>13. CASE MkfsBoot
  <2>1. ~sd_card_mounted /\ pc = "free" /\ pc' \in {"free", "go_idle", "check"}
    BY <1>13, NotMounted, DeviceIs DEF MkfsBoot, FormatReturns
  <2>2. UNCHANGED <<stored, ready, inits, mounts, sd_card_mounted>>
    BY <1>13, DeviceIs DEF MkfsBoot, FormatReturns
  <2>3. /\ fs' \in {"mkfs_tables", "mount"} /\ attempt' \in {attempt, 2}
        /\ slots' \in {slots, Unmounted} /\ id' = id
    BY <1>0, <1>13, DeviceIs DEF MkfsBoot, FormatReturns
  <2>4. StorageTypeOK'
    BY <1>0, <2>2, <2>3, SlotTypes DEF StorageTypeOK, CreateLabels, ReadyLabels, FormatLabels, MkfsLabels
  <2>5. CallOK'
    BY <1>13, CallsFit DEF MkfsBoot, FormatReturns
  <2> QED
    BY <1>0, <2>1, <2>2, <2>3, <2>4, <2>5, MovesOn DEF MountOK, ReadyLabels
<1>14. CASE MkfsTables
  <2>1. ~sd_card_mounted /\ pc = "free" /\ pc' \in {"free", "go_idle", "check"}
    BY <1>14, NotMounted, DeviceIs DEF MkfsTables, FormatReturns
  <2>2. UNCHANGED <<stored, ready, inits, mounts, sd_card_mounted>>
    BY <1>14, DeviceIs DEF MkfsTables, FormatReturns
  <2>3. /\ fs' = "mount" /\ attempt' \in {attempt, 2}
        /\ slots' \in {slots, Unmounted} /\ id' = id
    BY <1>0, <1>14, DeviceIs DEF MkfsTables, FormatReturns
  <2>4. StorageTypeOK'
    BY <1>0, <2>2, <2>3, SlotTypes DEF StorageTypeOK, CreateLabels, ReadyLabels, FormatLabels, MkfsLabels
  <2>5. CallOK'
    BY <1>14, CallsFit DEF MkfsTables, FormatReturns
  <2> QED
    BY <1>0, <2>1, <2>2, <2>3, <2>4, <2>5, MovesOn DEF MountOK, ReadyLabels
<1> QED
  BY <1>1, <1>2, <1>3, <1>4, <1>5, <1>6, <1>7, <1>8, <1>9, <1>10, <1>11, <1>12, <1>13, <1>14

\* The mount, and what is done with the mounted card.
LEMMA MountKeepsMount == ASSUME SdInv, MountInv, MountRead PROVE MountInv'
<1> USE DEF At, volume, Quiet, sdvars, card, config, progress
<1>0. /\ StorageTypeOK /\ CallOK /\ MountOK /\ BootOK /\ inits \in Nat /\ mounts \in Nat
  BY DEF MountInv, StorageTypeOK
<1>1. /\ fs = "mount_read" /\ pc = "free" /\ UNCHANGED <<pc, stored, ready, inits, id>>
      /\ ~sd_card_mounted /\ mounts = 0 /\ ready /\ id \in VolumeIds /\ slots[id] = inits
  BY <1>0, NotMounted DEF MountRead, MountFails, MountOK, ReadyLabels
<1>2. CASE IsFat /\ HasPlace
  <2>1. /\ mounts' = 1 /\ sd_card_mounted' = TRUE /\ fs' = "up" /\ UNCHANGED <<attempt, slots, id>>
    BY <1>1, <1>2 DEF MountRead
  <2>2. StorageTypeOK'
    BY <1>0, <1>1, <2>1 DEF StorageTypeOK
  <2>3. CallOK'
    BY <1>1, <2>1, CallsFit
  <2>4. stored[Boot] = Fat
    <3>1. buffer # <<>> /\ buffer[1] = Fat
      BY <1>2 DEF IsFat
    <3> QED
      BY <1>0, <1>1, <3>1 DEF BootOK
  <2>5. MountOK'
    BY <1>1, <2>1, <2>4 DEF MountOK, MountedIsUsable, ReadyLabels
  <2>6. BootOK'
    BY <2>1 DEF BootOK
  <2> QED
    BY <2>2, <2>3, <2>5, <2>6 DEF MountInv
<1>3. CASE ~(IsFat /\ HasPlace)
  <2>1. /\ fs' \in {"format", "up"} /\ UNCHANGED <<attempt, slots, id, mounts, sd_card_mounted>>
    BY <1>1, <1>3 DEF MountRead, MountFails
  <2>2. StorageTypeOK'
    BY <1>0, <1>1, <2>1 DEF StorageTypeOK, FormatLabels
  <2>3. CallOK'
    BY <1>1, <2>1, CallsFit
  <2> QED
    BY <1>1, <2>1, <2>2, <2>3, MovesOn DEF ReadyLabels
<1> QED
  BY <1>2, <1>3

LEMMA RowCalls ==
    ASSUME WriteRow \/ ReadRows
    PROVE  /\ UNCHANGED <<stored, ready, faults>> /\ fs' = "transferred" /\ pc = "free" /\ pc' = "check"
           /\ status' = "OK" /\ ~damaged' /\ sd_card_mounted /\ fs = "up"
           /\ UNCHANGED <<card, config, inits, attempt, slots, id, mounts, sd_card_mounted>>
<1>2. CASE WriteRow
  <2>1. Device("program", Data, 1, Row, "transferred")
    BY <1>2 DEF WriteRow
  <2> QED
    BY <1>2, <2>1, TransferIs DEF WriteRow, Boots, volume
<1>3. CASE ReadRows
  <2>1. Device("read", Data - 1, 2, Erased, "transferred")
    BY <1>3 DEF ReadRows
  <2> QED
    BY <1>3, <2>1, TransferIs DEF ReadRows, Boots, volume
<1> QED
  BY <1>2, <1>3

LEMMA UseKeepsMount ==
    ASSUME SdInv, MountInv, WriteRow \/ ReadRows \/ Transferred
    PROVE  MountInv'
<1>0. /\ StorageTypeOK /\ CallOK /\ MountOK /\ BootOK
  BY DEF MountInv
<1>1. /\ UNCHANGED <<stored, ready, inits, attempt, slots, id, mounts, sd_card_mounted>>
      /\ fs' \in {"up", "transferred"} /\ pc' \in {"free", "check"}
      /\ sd_card_mounted \/ fs = "transferred"
  BY RowCalls DEF Transferred, At, Boots, volume, Quiet, sdvars, card, config
<1>2. StorageTypeOK'
  BY <1>0, <1>1 DEF StorageTypeOK
<1>3. CallOK'
  BY CallsFit DEF WriteRow, ReadRows, Transferred, At, Quiet, sdvars
<1>4. MountOK'
  BY <1>0, <1>1 DEF MountOK, MountedIsUsable, ReadyLabels
<1>5. BootOK'
  BY <1>1 DEF BootOK
<1> QED
  BY <1>2, <1>3, <1>4, <1>5 DEF MountInv

\* fs_init is called, the card resets, or nothing happens.
LEMMA OthersKeepMount ==
    ASSUME SdInv, MountInv, FsInit \/ (CardResets /\ UNCHANGED storage) \/ UNCHANGED allvars
    PROVE  MountInv'
<1> USE DEF volume, storage, sdvars, card, config, progress, allvars
<1>0. /\ StorageTypeOK /\ CallOK /\ MountOK /\ BootOK
  BY DEF MountInv
<1>1. CASE FsInit
  <2>1. /\ inits' = inits + 1 /\ sd_card_mounted' = FALSE /\ attempt' = 1 /\ id' = Volumes
        /\ fs' = "create" /\ pc' = "free" /\ UNCHANGED <<slots, mounts>> /\ ~sd_card_mounted
    BY <1>1 DEF FsInit
  <2>2. StorageTypeOK'
    <3>1. Volumes \in 0 .. Volumes /\ inits + 1 \in Nat
      BY <1>0, StorageAssumption DEF StorageTypeOK
    <3> QED
      BY <1>0, <2>1, <3>1 DEF StorageTypeOK, CreateLabels
  <2>3. CallOK'
    BY <2>1, CallsFit
  <2>4. MountOK' /\ BootOK'
    BY <1>0, <2>1 DEF MountOK, BootOK, ReadyLabels
  <2> QED
    BY <2>2, <2>3, <2>4 DEF MountInv
<1>2. CASE (CardResets /\ UNCHANGED storage) \/ UNCHANGED allvars
  <2>1. /\ UNCHANGED <<fs, attempt, slots, id, mounts, sd_card_mounted, inits, pc, call, total_sectors, ready,
                       status, stored, left, buffer>>
        /\ pc = "free" \/ pointer' = pointer
    BY <1>2 DEF CardResets
  <2>2. StorageTypeOK' /\ CallOK'
    BY <1>0, <2>1 DEF StorageTypeOK, CallOK
  <2>3. MountOK'
    BY <1>0, <2>1 DEF MountOK, MountedIsUsable
  <2>4. BootOK'
    BY <1>0, <2>1 DEF BootOK
  <2> QED
    BY <2>2, <2>3, <2>4 DEF MountInv
<1> QED
  BY <1>1, <1>2

LEMMA MountStarts == Init => MountInv
<1> SUFFICES ASSUME Init PROVE MountInv
  OBVIOUS
<1>1. fs = "up" /\ attempt = 1 /\ slots = [i \in VolumeIds |-> 0] /\ id = Volumes
      /\ mounts = 0 /\ sd_card_mounted = FALSE /\ inits = 0 /\ pc = "free"
  BY DEF Init, SdInit
<1>2. StorageTypeOK
  <2>1. Volumes \in 0 .. Volumes /\ slots \in [VolumeIds -> Nat]
    BY <1>1, StorageAssumption
  <2> QED
    BY <1>1, <2>1 DEF StorageTypeOK
<1>3. CallOK /\ MountOK /\ BootOK
  BY <1>1 DEF CallOK, MountOK, BootOK, ReadyLabels
<1> QED
  BY <1>2, <1>3 DEF MountInv

LEMMA NextMount == SdInv /\ MountInv /\ [Next]_allvars => MountInv'
<1> SUFFICES ASSUME SdInv, MountInv, [Next]_allvars
             PROVE  MountInv'
  OBVIOUS
<1>1. CASE StorageStep
  BY <1>1, FsKeepsMount, MountKeepsMount, UseKeepsMount, DeviceKeepsMount DEF StorageStep
<1>2. CASE WriteRow \/ ReadRows
  BY <1>2, UseKeepsMount
<1> QED
  BY <1>1, <1>2, OthersKeepMount DEF Next

LEMMA AlwaysMount == Spec => []MountInv
<1> QED
  BY MountStarts, NextMount, AlwaysSdInv, PTL DEF Spec

\* However often fs_init was called and whatever failed in it: a card that is said to
\* be mounted has a boot sector, a device that is initialised, a volume that is this
\* device's, and the only mount point.
THEOREM MountedUsable == Spec => []MountedIsUsable
<1>1. MountInv => MountedIsUsable
  BY DEF MountInv, MountOK, MountedIsUsable
<1> QED
  BY <1>1, AlwaysMount, PTL

-----------------------------------------------------------------------------
(* A card that works.                                                      *)

\* A device whose init has been OK.
Inited ==
    /\ phase = "ready" /\ card_type = kind /\ is_initialized /\ total_sectors = Size /\ ready

\* How far an init is.
InitOK ==
    /\ pc \in {"cmd8", "ocr", "acmd41"} => phase = "idle" /\ mode = "command"
    /\ pc \in {"ocr", "acmd41"} => card_type = IF kind = "V1" THEN "UNKNOWN" ELSE "V2"
    /\ pc \in {"ccs", "crc_off", "csd", "csd_data", "blocklen"} => phase = "ready"
    /\ pc \in {"ccs", "crc_off", "csd", "blocklen"} => mode = "command"
    /\ pc = "ccs" => card_type = "V2" /\ kind # "V1"
    /\ pc \in {"crc_off", "csd", "csd_data", "blocklen"} => card_type = kind
    /\ pc \in {"csd", "csd_data", "blocklen"} => is_initialized

\* No call fails, and the card waits for commands.
WorksOK ==
    /\ status = "OK" /\ ~damaged
    /\ pc \notin InitLabels /\ fs # "create" /\ inits > 0 => Inited
    /\ pc \in {"check", "read_cmd", "pre_erase", "write_cmd"} \cup TrimLabels => mode = "command"

\* What the boot block and the data are while fs_init is on its way.
ContentOK ==
    /\ attempt = 2 /\ fs \in CreateLabels \cup ReadyLabels => stored[Boot] = Fat
    /\ fs \in FormatLabels => stored[Boot] # Fat
    /\ fs \in MkfsLabels => stored[Data] = Erased
    /\ fs = "mkfs_tables" => stored[Boot] = Fat

\* At most one of the volumes is taken.
OneTaken(ids) == \A i, j \in ids : slots[i] # 0 /\ slots[j] # 0 => i = j

VolumesOK ==
    /\ inits = 0 => fs = "up" /\ ~sd_card_mounted
    /\ fs \in {"up", "transferred"} /\ inits > 0 => sd_card_mounted
    /\ inits = 0 \/ (attempt = 1 /\ fs \in CreateLabels) => \A i \in VolumeIds : slots[i] = 0
    /\ fs \in CreateLabels \cup FormatLabels \/ (attempt = 1 /\ fs \in ReadyLabels) => OneTaken(VolumeIds)
    /\ fs \in MkfsLabels => id \in VolumeIds /\ OneTaken(VolumeIds \ {id})

\* The card has a file system, or can be given one.
Formattable == WholeSectors \/ stored[Boot] = Fat

WorkInv == faults = 0 /\ Formattable => InitOK /\ WorksOK /\ ContentOK /\ VolumesOK

\* On a card that is no whole number of erase sectors format gets no further than the trim.
TrimOK ==
    /\ fs = "format_trim" /\ pc # "check" /\ (pc = "free" => status = "OK") => total_sectors = Size
    /\ ~WholeSectors =>
        /\ fs \notin MkfsLabels
        /\ fs = "format_volume" =>
            total_sectors = Size /\ (pc = "check" \/ (pc = "free" /\ status # "OK"))

LEMMA TrimStarts == Init => TrimOK
  BY DEF Init, TrimOK, MkfsLabels

\* The trim of the whole card is refused.
LEMMA DeviceTrims ==
    ASSUME SdInv, MountInv, TrimOK, SdStep, UNCHANGED storage
    PROVE  TrimOK'
<1>1. /\ call' = call /\ pc # "free" /\ kind' = kind /\ fs' = fs /\ (call.op # "init" => UNCHANGED config)
      /\ CallOK /\ total_sectors \in {0, Size} /\ Size \in Nat
  BY StepKeeps, CardAssumption DEF storage, MountInv, SdInv, DriverTypeOK
<1>2. call.op \in {"program", "trim"} => TransferStep
  BY InitShape DEF SdStep, SdInv, PlaceOK, InitFrame
<1>3. ASSUME fs = "format_trim"
      PROVE  pc' # "check" /\ (pc' = "free" => status' = "OK") => total_sectors' = Size
  <2>1. call = Call("program", 1, 1, Erased) /\ call.op = "program" /\ call.first = 1 /\ call.count = 1
    BY <1>1, <1>3 DEF CallOK, Call
  <2>2. total_sectors' = total_sectors
    BY <1>1, <2>1 DEF config
  <2>3. CASE pc # "check"
    BY <1>1, <1>3, <2>2, <2>3 DEF TrimOK
  <2>4. CASE pc = "check"
    <3>1. Check
      BY <1>2, <2>1, <2>4 DEF TransferStep, ReadCommand, ReadBlock, ReadEnd, StopTransmission, PreErase,
         WriteCommand, WriteBlock, WriteEnd, EraseFrom, EraseTo, Erase
    <3>2. ~Valid => pc' = "free" /\ status' # "OK"
      BY <3>1 DEF Check, Return
    <3>3. Valid => total_sectors = Size
      BY <1>1, <2>1 DEF Valid
    <3> QED
      BY <2>2, <3>2, <3>3
  <2> QED
    BY <2>3, <2>4
<1>4. ASSUME ~WholeSectors, fs = "format_volume"
      PROVE  total_sectors' = Size /\ pc' = "free" /\ status' # "OK"
  <2>1. /\ call = Call("trim", 0, total_sectors, Erased) /\ call.op = "trim" /\ call.count = total_sectors
        /\ total_sectors = Size /\ pc = "check"
    BY <1>1, <1>4 DEF CallOK, Call, TrimOK
  <2>2. Check
    BY <1>2, <2>1 DEF TransferStep, ReadCommand, ReadBlock, ReadEnd, StopTransmission, PreErase,
       WriteCommand, WriteBlock, WriteEnd, EraseFrom, EraseTo, Erase
  <2>3. ~Valid
    BY <1>4, <2>1 DEF Valid, WholeSectors
  <2> QED
    BY <1>1, <2>1, <2>2, <2>3 DEF Check, Return, config
<1> QED
  BY <1>1, <1>3, <1>4 DEF TrimOK, WholeSectors

LEMMA NextTrims ==
    ASSUME SdInv, MountInv, TrimOK, [Next]_allvars
    PROVE  TrimOK'
<1>0. kind' = kind
  <2>1. DeviceStep
    BY StepsAreDevice
  <2> QED
    BY <2>1, StepKeeps DEF DeviceStep, Called, Begin, CardResets, NewDevice, card, sdvars
<1> USE DEF MkfsLabels
<1>1. CASE SdStep /\ UNCHANGED storage
  BY <1>1, DeviceTrims
<1>2. CASE (CardResets /\ UNCHANGED storage) \/ UNCHANGED allvars
  BY <1>2 DEF CardResets, TrimOK, WholeSectors, storage, config, allvars, sdvars, card
<1>3. ASSUME ~(SdStep /\ UNCHANGED storage), ~(CardResets /\ UNCHANGED storage), ~UNCHANGED allvars
      PROVE  /\ fs' = "format_trim" => pc' = "check"
             /\ fs' = "format_volume" =>
                 total_sectors' = total_sectors /\ pc' = "check" /\ total_sectors = Size
             /\ fs' \in MkfsLabels =>
                 fs \in MkfsLabels \/ (fs = "format_volume" /\ pc = "free" /\ status = "OK")
  <2> USE DEF MountFails, FormatReturns, OrFormatReturns, At, Quiet, Boots
  <2>1. ASSUME NEW op \in {"init", "read", "program", "trim"}, NEW first, NEW count, NEW data, NEW next,
               Device(op, first, count, data, next)
        PROVE  /\ fs' = next /\ (op # "init" => pc' = "check") /\ total_sectors' = total_sectors
    BY <2>1, DeviceIs DEF config
  <2>2. CASE FsInit \/ WriteRow \/ ReadRows \/ Transferred
    BY <2>1, <2>2 DEF FsInit, WriteRow, ReadRows, Transferred
  <2>3. CASE CreateDevice \/ FsMount \/ FsMountInit
    BY <2>1, <2>3 DEF CreateDevice, FsMount, FsMountInit
  <2>4. CASE MountVolume \/ MountDisk \/ MountRead
    BY <2>1, <2>4 DEF MountVolume, MountDisk, MountRead
  <2>5. CASE FsFormat \/ FsFormatInit \/ FormatFirst \/ FormatSecond
    BY <2>1, <2>5 DEF FsFormat, FsFormatInit, FormatFirst, FormatSecond
  <2>6. CASE FormatTrim
    BY <2>1, <2>6 DEF FormatTrim, TrimOK
  <2>7. CASE FormatVolume \/ MkfsDisk \/ MkfsBoot \/ MkfsTables
    BY <2>1, <2>7 DEF FormatVolume, MkfsDisk, MkfsBoot, MkfsTables
  <2> QED
    BY <1>3, <2>2, <2>3, <2>4, <2>5, <2>6, <2>7 DEF Next, StorageStep
<1>4. CASE ~(SdStep /\ UNCHANGED storage) /\ ~(CardResets /\ UNCHANGED storage) /\ ~UNCHANGED allvars
  BY <1>0, <1>3, <1>4 DEF TrimOK, WholeSectors
<1> QED
  BY <1>1, <1>2, <1>4

\* A card that is no whole number of erase sectors gets no file system.
LEMMA StaysUnformatted ==
    ASSUME SdInv, MountInv, TrimOK, [Next]_allvars, Formattable'
    PROVE  Formattable
<1>1. DeviceStep
  BY StepsAreDevice
<1>2. kind' = kind /\ (~SdStep => stored' = stored)
  BY <1>1, StepKeeps DEF DeviceStep, Called, Begin, CardResets, NewDevice, card, sdvars
<1>3. ASSUME SdStep, ~WholeSectors, stored'[Boot] = Fat, stored[Boot] # Fat PROVE FALSE
  <2>1. Erased # Fat /\ Row # Fat /\ Boot \in Blocks /\ stored \in [Blocks -> Values]
    BY CardAssumption, StorageAssumption DEF Blocks, Boot, SdInv, CardTypeOK
  <2>2. pc = "write_data" /\ call.data = Fat
    BY <1>3, <2>1, StoredKept
  <2>3. call.op = "program"
    BY <2>2 DEF SdInv, PlaceOK, WriteLabels
  <2>4. fs \notin MkfsLabels /\ CallOK /\ StorageTypeOK /\ pc # "free"
    BY <1>3, <2>2 DEF TrimOK, MountInv
  <2> QED
    BY <2>1, <2>2, <2>3, <2>4 DEF CallOK, Call, StorageTypeOK, CreateLabels, ReadyLabels, FormatLabels,
       MkfsLabels
<1> QED
  BY <1>2, <1>3 DEF Formattable, WholeSectors

-----------------------------------------------------------------------------
(* The device with a card that works.                                      *)

\* A command that is no failure of the card is answered properly.
LEMMA Properly ==
    ASSUME NEW cmd, NEW block, NEW a, NEW good \in BOOLEAN, Exchange(cmd, block, a, good),
           faults' = faults, faults \in Nat
    PROVE  /\ a \in Proper(cmd, block) /\ good = TRUE /\ kind' = kind
           /\ a \in {"ok", "idle"} =>
                /\ phase' = IF cmd = "CMD0" THEN "idle"
                            ELSE IF cmd = "ACMD41" /\ a = "ok" THEN "ready" ELSE phase
                /\ cmd \notin DataCommands => mode' = "command"
           /\ a \notin {"ok", "idle"} => UNCHANGED <<phase, mode>>
<1>1. a \in Proper(cmd, block) /\ good
  BY DEF Exchange
<1> QED
  BY <1>1 DEF Exchange, DataCommands

LEMMA CommandProperly ==
    ASSUME NEW cmd, NEW block, NEW a, Command(cmd, block, a), faults' = faults, faults \in Nat
    PROVE  /\ a \in Proper(cmd, block) /\ kind' = kind
           /\ a \in {"ok", "idle"} =>
                /\ phase' = IF cmd = "CMD0" THEN "idle"
                            ELSE IF cmd = "ACMD41" /\ a = "ok" THEN "ready" ELSE phase
                /\ cmd \notin DataCommands => mode' = "command"
           /\ a \notin {"ok", "idle"} => UNCHANGED <<phase, mode>>
<1>1. Exchange(cmd, block, a, TRUE) /\ TRUE \in BOOLEAN
  BY DEF Command
<1> QED
  BY <1>1, Properly

\* The answer of a card that is ready for the command.
LEMMA ReadyAnswers ==
    ASSUME NEW cmd, NEW block, NEW a \in Proper(cmd, block), phase = "ready",
           mode = "command" \/ cmd = "CMD12", cmd \in Addressed => block \in Blocks,
           cmd \notin {"CMD0", "CMD8"}
    PROVE  a = "ok" /\ StatusOf(a) = "OK"
BY DEF Proper, Understood, StatusOf

\* Where an init with a card that works is after a step.
Works ==
    /\ status = "OK" /\ ~damaged
    /\ pc \notin InitLabels => Inited
    /\ pc \in {"check", "read_cmd", "pre_erase", "write_cmd"} \cup TrimLabels => mode = "command"

LEMMA InitWorks ==
    ASSUME SdInv, InitOK, status = "OK", ~damaged, InitStep, faults' = faults
    PROVE  InitOK' /\ Works'
<1> USE DEF Silent, progress, Go, Return, InitCardReturns, InitLabels, TrimLabels
<1>0. /\ faults \in Nat /\ kind \in {"V1", "V2", "V2HC"}
  BY CardAssumption DEF SdInv, CardTypeOK
<1>1. CASE GoIdle
  <2>1. PICK a \in Answers("CMD0", 0) :
           /\ pc = "go_idle" /\ Command("CMD0", 0, a) /\ Silent /\ UNCHANGED card_type
           /\ IF a = "idle" THEN Go("cmd8") /\ UNCHANGED <<is_initialized, total_sectors, ready>>
                            ELSE InitCardReturns("NO_DEVICE")
    BY <1>1 DEF GoIdle
  <2>2. a = "idle"
    BY <1>0, <2>1, CommandProperly DEF Proper
  <2>3. phase' = "idle" /\ mode' = "command"
    BY <1>0, <2>1, <2>2, CommandProperly DEF DataCommands
  <2> QED
    BY <2>1, <2>2, <2>3 DEF InitOK, Works
<1>2. CASE SendIfCond
  <2>1. PICK a \in Answers("CMD8", 0), echoed \in BOOLEAN :
           LET s == StatusOf(a)
               wrong == s = "OK" /\ ~echoed IN
           /\ pc = "cmd8" /\ Silent /\ Exchange("CMD8", 0, a, echoed)
           /\ card_type' = IF s = "UNSUPPORTED" \/ wrong THEN "UNKNOWN"
                           ELSE IF s = "NO_DEVICE" THEN card_type ELSE "V2"
           /\ IF wrong THEN InitCardReturns("UNUSABLE")
              ELSE IF s \in {"OK", "UNSUPPORTED"}
                THEN Go("ocr") /\ UNCHANGED <<is_initialized, total_sectors, ready>>
                ELSE InitCardReturns(s)
    BY <1>2 DEF SendIfCond
  <2>2. phase = "idle" /\ mode = "command"
    BY <2>1 DEF InitOK
  <2>10. Exchange("CMD8", 0, a, echoed) /\ echoed \in BOOLEAN
    BY <2>1
  <2>3. /\ a \in Proper("CMD8", 0) /\ echoed = TRUE /\ kind' = kind
        /\ a \in {"ok", "idle"} => phase' = phase /\ mode' = "command"
        /\ a \notin {"ok", "idle"} => phase' = phase /\ mode' = mode
    <3>1. "CMD8" \notin DataCommands
      BY DEF DataCommands
    <3>2. faults' = faults /\ faults \in Nat
      BY <1>0
    <3>3. /\ a \in Proper("CMD8", 0) /\ echoed = TRUE /\ kind' = kind
          /\ a \in {"ok", "idle"} =>
                /\ phase' = IF "CMD8" = "CMD0" THEN "idle"
                            ELSE IF "CMD8" = "ACMD41" /\ a = "ok" THEN "ready" ELSE phase
                /\ "CMD8" \notin DataCommands => mode' = "command"
          /\ a \notin {"ok", "idle"} => UNCHANGED <<phase, mode>>
      BY <2>10, <3>2, Properly
    <3> QED
      BY <3>1, <3>3
  <2>4. a = IF kind = "V1" THEN "illegal" ELSE "idle"
    BY <2>2, <2>3 DEF Proper, Understood, Addressed
  <2>5. StatusOf(a) = IF kind = "V1" THEN "UNSUPPORTED" ELSE "OK"
    BY <2>4 DEF StatusOf
  <2>6. /\ pc' = "ocr" /\ status' = status /\ damaged' = damaged
        /\ card_type' = IF kind = "V1" THEN "UNKNOWN" ELSE "V2"
    BY <2>1, <2>3, <2>5
  <2> QED
    BY <2>2, <2>3, <2>4, <2>6 DEF InitOK, Works
<1>3. CASE ReadOcr
  <2>1. PICK a \in Answers("CMD58", 0), volts \in BOOLEAN :
           LET s == StatusOf(a) IN
           /\ pc = "ocr" /\ Silent /\ Exchange("CMD58", 0, a, volts)
           /\ card_type' = IF s = "OK" /\ ~volts THEN "UNKNOWN" ELSE card_type
           /\ IF s = "OK" /\ volts THEN Go("acmd41") /\ UNCHANGED <<is_initialized, total_sectors, ready>>
              ELSE InitCardReturns(IF s = "OK" THEN "UNUSABLE" ELSE s)
    BY <1>3 DEF ReadOcr
  <2>2. phase = "idle" /\ mode = "command" /\ card_type = IF kind = "V1" THEN "UNKNOWN" ELSE "V2"
    BY <2>1 DEF InitOK
  <2>10. Exchange("CMD58", 0, a, volts) /\ volts \in BOOLEAN
    BY <2>1
  <2>3. /\ a \in Proper("CMD58", 0) /\ volts = TRUE /\ kind' = kind
        /\ a \in {"ok", "idle"} => phase' = phase /\ mode' = "command"
    BY <1>0, <2>10, Properly DEF DataCommands
  <2>4. a = "idle"
    BY <2>2, <2>3 DEF Proper, Understood, Addressed
  <2>5. StatusOf(a) = "OK"
    BY <2>4 DEF StatusOf
  <2>6. pc' = "acmd41" /\ status' = status /\ damaged' = damaged /\ card_type' = card_type
    BY <2>1, <2>3, <2>5
  <2> QED
    BY <2>2, <2>3, <2>4, <2>6 DEF InitOK, Works
<1>4. CASE SendOpCond
  <2>1. PICK a \in Answers("ACMD41", 0) :
          /\ pc = "acmd41" /\ Command("ACMD41", 0, a)
          /\ UNCHANGED <<call, left, buffer, before, damaged>>
          /\ IF a = "ok"
               THEN /\ card_type' = IF card_type = "V2" THEN "V2" ELSE "V1"
                    /\ Go(IF card_type = "V2" THEN "ccs" ELSE "crc_off")
                    /\ UNCHANGED <<polls, is_initialized, total_sectors, ready>>
               ELSE IF polls < MaxPolls
               THEN polls' = polls + 1 /\ Go("acmd41") /\ UNCHANGED config
               ELSE /\ card_type' = "UNKNOWN" /\ UNCHANGED polls
                    /\ InitCardReturns(StatusOf(a))
    BY <1>4 DEF SendOpCond
  <2>2. phase = "idle" /\ mode = "command" /\ card_type = IF kind = "V1" THEN "UNKNOWN" ELSE "V2"
    BY <2>1 DEF InitOK
  <2>3. /\ a \in Proper("ACMD41", 0) /\ kind' = kind
        /\ a \in {"ok", "idle"} => phase' = (IF a = "ok" THEN "ready" ELSE phase) /\ mode' = "command"
    BY <1>0, <2>1, CommandProperly DEF DataCommands
  <2>4. a = "ok" \/ (a = "idle" /\ polls < MaxPolls)
    BY <2>2, <2>3 DEF Proper, Understood, Addressed
  <2>5. CASE a = "ok"
    BY <1>0, <2>1, <2>2, <2>3, <2>5 DEF InitOK, Works
  <2>6. CASE a = "idle" /\ polls < MaxPolls
    BY <2>1, <2>2, <2>3, <2>6 DEF InitOK, Works, config
  <2> QED
    BY <2>4, <2>5, <2>6
<1>5. CASE ReadCcs
  <2>1. PICK a \in Answers("CMD58", 0) :
          /\ pc = "ccs" /\ Command("CMD58", 0, a) /\ Silent
          /\ card_type' = IF StatusOf(a) = "OK" /\ kind = "V2HC" THEN "V2HC" ELSE card_type
          /\ Go("crc_off") /\ UNCHANGED <<is_initialized, total_sectors, ready>>
    BY <1>5 DEF ReadCcs
  <2>2. phase = "ready" /\ mode = "command" /\ card_type = "V2" /\ kind # "V1"
    BY <2>1 DEF InitOK
  <2>3. a = "ok" /\ StatusOf(a) = "OK"
    BY <1>0, <2>1, <2>2, CommandProperly, ReadyAnswers DEF Addressed
  <2>4. phase' = "ready" /\ mode' = "command" /\ kind' = kind /\ card_type' = kind
    BY <1>0, <2>1, <2>2, <2>3, CommandProperly DEF DataCommands
  <2> QED
    BY <2>1, <2>4 DEF InitOK, Works
<1>6. CASE CrcOff
  <2>1. PICK a \in Answers("CMD59", 0) :
          /\ pc = "crc_off" /\ Command("CMD59", 0, a) /\ Silent
          /\ UNCHANGED card_type
          /\ InitCardReturns(StatusOf(a))
    BY <1>6 DEF CrcOff
  <2>2. phase = "ready" /\ mode = "command" /\ card_type = kind
    BY <2>1 DEF InitOK
  <2>3. a = "ok" /\ StatusOf(a) = "OK"
    BY <1>0, <2>1, <2>2, CommandProperly, ReadyAnswers DEF Addressed
  <2>4. phase' = "ready" /\ mode' = "command" /\ kind' = kind /\ card_type' = kind
    BY <1>0, <2>1, <2>2, <2>3, CommandProperly DEF DataCommands
  <2> QED
    BY <2>1, <2>3, <2>4 DEF InitOK, Works
<1>7. CASE SendCsd
  <2>1. PICK a \in Answers("CMD9", 0) :
          /\ pc = "csd" /\ Command("CMD9", 0, a) /\ Silent
          /\ UNCHANGED <<card_type, is_initialized, ready>>
          /\ IF StatusOf(a) = "OK" THEN Go("csd_data") /\ UNCHANGED total_sectors
                                   ELSE Return("DEVICE_ERROR") /\ total_sectors' = 0
    BY <1>7 DEF SendCsd
  <2>2. phase = "ready" /\ mode = "command" /\ card_type = kind /\ is_initialized
    BY <2>1 DEF InitOK
  <2>3. a = "ok" /\ StatusOf(a) = "OK"
    BY <1>0, <2>1, <2>2, CommandProperly, ReadyAnswers DEF Addressed
  <2>4. phase' = "ready" /\ kind' = kind
    BY <1>0, <2>1, <2>2, <2>3, CommandProperly
  <2> QED
    BY <2>1, <2>2, <2>3, <2>4 DEF InitOK, Works
<1>8. CASE ReadCsd
  <2>1. PICK came \in BOOLEAN :
          /\ pc = "csd_data" /\ Silent
          /\ faults' = IF came THEN faults ELSE faults + 1
          /\ mode' = "command" /\ selected' = FALSE
          /\ total_sectors' = IF came THEN Size ELSE 0
          /\ AfterCsd(came)
          /\ UNCHANGED <<kind, phase, pointer, range, stored, card_type, is_initialized, ready>>
    BY <1>8 DEF ReadCsd
  <2>2. came
    BY <1>0, <2>1
  <2>3. pc' = "blocklen" /\ status' = status
    BY <2>1, <2>2 DEF AfterCsd
  <2> QED
    BY <2>1, <2>3 DEF InitOK, Works
<1>9. CASE SetBlockLen
  <2>1. PICK a \in Answers("CMD16", 0) :
          /\ pc = "blocklen" /\ Command("CMD16", 0, a) /\ Silent
          /\ IF StatusOf(a) = "OK" THEN ready' = TRUE /\ Return("OK")
                                   ELSE UNCHANGED ready /\ Return("DEVICE_ERROR")
          /\ UNCHANGED <<card_type, is_initialized, total_sectors>>
    BY <1>9 DEF SetBlockLen
  <2>2. phase = "ready" /\ mode = "command" /\ card_type = kind /\ is_initialized /\ total_sectors = Size
    BY <2>1 DEF InitOK, SdInv, LineOK
  <2>3. a = "ok" /\ StatusOf(a) = "OK"
    BY <1>0, <2>1, <2>2, CommandProperly, ReadyAnswers DEF Addressed
  <2>4. phase' = "ready" /\ kind' = kind
    BY <1>0, <2>1, <2>2, <2>3, CommandProperly
  <2> QED
    BY <2>1, <2>2, <2>3, <2>4 DEF InitOK, Works, Inited
<1> QED
  BY <1>1, <1>2, <1>3, <1>4, <1>5, <1>6, <1>7, <1>8, <1>9 DEF InitStep

\* A command of a transfer goes through.
LEMMA OrWorks ==
    ASSUME NEW cmd, NEW block, NEW next, Or(cmd, block, next), faults' = faults, faults \in Nat,
           Inited, mode = "command", cmd \notin {"CMD0", "CMD8", "ACMD41"}, cmd \in Addressed => block \in Blocks
    PROVE  /\ pc' = next /\ status' = status /\ damaged' = damaged /\ Inited'
           /\ cmd \notin DataCommands => mode' = "command"
<1>1. PICK a \in Answers(cmd, block) :
        /\ Command(cmd, block, a) /\ Silent /\ UNCHANGED config
        /\ IF StatusOf(a) = "OK" THEN Go(next) ELSE Return(StatusOf(a))
  BY DEF Or
<1>2. /\ a \in Proper(cmd, block) /\ kind' = kind
      /\ a \in {"ok", "idle"} =>
           /\ phase' = IF cmd = "CMD0" THEN "idle"
                       ELSE IF cmd = "ACMD41" /\ a = "ok" THEN "ready" ELSE phase
           /\ cmd \notin DataCommands => mode' = "command"
  BY <1>1, CommandProperly
<1>3. a = "ok" /\ StatusOf(a) = "OK"
  BY <1>2, ReadyAnswers DEF Inited
<1> QED
  BY <1>1, <1>2, <1>3 DEF Go, Silent, progress, config, Inited

\* A command whose answer ends the call, or is not looked at.
LEMMA LastWorks ==
    ASSUME NEW cmd, NEW block, NEW a, Command(cmd, block, a), Silent, UNCHANGED config,
           faults' = faults, faults \in Nat, Inited,
           mode = "command" \/ cmd = "CMD12", cmd \notin {"CMD0", "CMD8", "ACMD41"} \cup DataCommands,
           cmd \notin Addressed
    PROVE  StatusOf(a) = "OK" /\ mode' = "command" /\ damaged' = damaged /\ Inited'
<1>1. /\ a \in Proper(cmd, block) /\ kind' = kind
      /\ a \in {"ok", "idle"} =>
           /\ phase' = IF cmd = "CMD0" THEN "idle"
                       ELSE IF cmd = "ACMD41" /\ a = "ok" THEN "ready" ELSE phase
           /\ cmd \notin DataCommands => mode' = "command"
  BY CommandProperly
<1>2. a = "ok" /\ StatusOf(a) = "OK"
  BY <1>1, ReadyAnswers DEF Inited
<1> QED
  BY <1>1, <1>2 DEF Silent, progress, config, Inited

LEMMA TransferWorks ==
    ASSUME SdInv, Works, TransferStep, faults' = faults,
           call.count > 0, call.first + call.count =< Size,
           call.op = "trim" => WholeSectors /\ call = Call("trim", 0, Size, Erased)
    PROVE  Works' /\ pc' \notin InitLabels
<1> USE DEF Go, Return, InitLabels, TrimLabels
<1>0. /\ faults \in Nat /\ Inited /\ status = "OK" /\ ~damaged /\ call.op \in {"read", "program", "trim"}
      /\ pc \in {"check", "read_cmd", "pre_erase", "write_cmd"} \cup TrimLabels => mode = "command"
  <2>1. pc \in {"check"} \cup ReadLabels \cup WriteLabels \cup TrimLabels /\ call.op \in {"read", "program", "trim"}
    BY TransferKeepsConfig
  <2> QED
    BY <2>1, CardAssumption DEF SdInv, CardTypeOK, Works, ReadLabels, WriteLabels
<1>1. UnitMatches /\ card_type = kind /\ total_sectors = Size /\ is_initialized
  BY <1>0 DEF Inited, UnitMatches
<1>2. /\ call.first \in Nat /\ call.count \in Nat /\ LastBlock \in Int /\ Size \in Nat
      /\ call.first \in Blocks /\ LastBlock \in Blocks
  BY CallFacts, CardAssumption DEF SdInv, Blocks, LastBlock
<1>3. Target(call.first) \in Blocks /\ Target(LastBlock) \in Blocks
  BY <1>1, <1>2, TargetIs
<1>4. CASE Check
  <2>1. Valid /\ pc = "check" /\ mode = "command"
    <3>1. call.op = "trim" => call.first % EraseSize[kind] = 0 /\ call.count % EraseSize[kind] = 0
      <4>1. kind \in Kinds
        BY DEF SdInv, CardTypeOK
      <4>2. 0 % EraseSize[kind] = 0
        BY <4>1, CardAssumption
      <4> QED
        BY <4>2 DEF WholeSectors, Call
    <3> QED
      BY <1>0, <1>1, <1>2, <1>4, <3>1 DEF Valid, Check
  <2>2. /\ UNCHANGED <<card, config, progress, status>>
        /\ pc' = CASE call.op = "read" -> "read_cmd"
                   [] call.op = "program" -> IF call.count = 1 THEN "write_cmd" ELSE "pre_erase"
                   [] call.op = "trim" -> "erase_from"
    BY <1>1, <1>4, <2>1 DEF Check
  <2>3. pc' \in {"read_cmd", "write_cmd", "pre_erase", "erase_from"}
    BY <1>0, <2>2
  <2> QED
    BY <1>0, <2>1, <2>2, <2>3 DEF Works, Inited, card, config, progress
<1>5. CASE ReadCommand
  <2> DEFINE cmd == IF call.count > 1 THEN "CMD18" ELSE "CMD17"
  <2>1. Or(cmd, Target(call.first), "read_data") /\ pc = "read_cmd"
    BY <1>5 DEF ReadCommand
  <2>2. cmd \notin {"CMD0", "CMD8", "ACMD41"}
    OBVIOUS
  <2> HIDE DEF cmd
  <2>3. pc' = "read_data" /\ status' = status /\ damaged' = damaged /\ Inited'
    BY <1>0, <1>3, <2>1, <2>2, OrWorks
  <2> QED
    BY <1>0, <2>3 DEF Works
<1>6. CASE WriteCommand
  <2> DEFINE cmd == IF call.count > 1 THEN "CMD25" ELSE "CMD24"
  <2>1. Or(cmd, Target(call.first), "write_data") /\ pc = "write_cmd"
    BY <1>6 DEF WriteCommand
  <2>2. cmd \notin {"CMD0", "CMD8", "ACMD41"}
    OBVIOUS
  <2> HIDE DEF cmd
  <2>3. pc' = "write_data" /\ status' = status /\ damaged' = damaged /\ Inited'
    BY <1>0, <1>3, <2>1, <2>2, OrWorks
  <2> QED
    BY <1>0, <2>3 DEF Works
<1>7. CASE EraseFrom \/ EraseTo
  <2>1. PICK cmd \in {"CMD32", "CMD33"}, block \in Blocks, next \in {"erase_to", "erase"} : Or(cmd, block, next)
    BY <1>3, <1>7 DEF EraseFrom, EraseTo
  <2>2. mode = "command"
    BY <1>0, <1>7 DEF EraseFrom, EraseTo
  <2>3. pc' = next /\ status' = status /\ damaged' = damaged /\ Inited' /\ mode' = "command"
    BY <1>0, <2>1, <2>2, OrWorks DEF DataCommands
  <2> QED
    BY <1>0, <2>1, <2>3 DEF Works
<1>8. CASE ReadBlock
  <2>1. PICK came \in BOOLEAN :
          /\ pc = "read_data" /\ left > 0
          /\ faults' = IF came \/ pointer \notin Blocks THEN faults ELSE faults + 1
          /\ damaged' = ~came
          /\ status' = IF came THEN "OK" ELSE "NO_RESPONSE"
          /\ UNCHANGED <<kind, phase, config, pc>>
    BY <1>8 DEF ReadBlock
  <2>2. pointer = call.first + (call.count - left) /\ left \in Nat /\ left =< call.count
    BY <1>1, <2>1 DEF SdInv, WhereOK, DriverTypeOK, PlaceOK
  <2>3. pointer \in Blocks
    BY <1>2, <2>1, <2>2 DEF Blocks
  <2>4. came
    BY <1>0, <2>1, <2>3
  <2> QED
    BY <1>0, <2>1, <2>4 DEF Works, Inited, config
<1>9. CASE WriteBlock
  <2>1. PICK accepted \in BOOLEAN :
          /\ pc = "write_data" /\ left > 0
          /\ faults' = IF accepted \/ pointer \notin Blocks THEN faults ELSE faults + 1
          /\ damaged' = ~accepted
          /\ status' = IF accepted \/ call.count > 1 THEN status ELSE "WRITE"
          /\ UNCHANGED <<kind, phase, config, pc>>
    BY <1>9 DEF WriteBlock, WriteStatus
  <2>2. pointer = call.first + (call.count - left) /\ left \in Nat /\ left =< call.count
    BY <1>1, <2>1 DEF SdInv, WhereOK, DriverTypeOK, PlaceOK
  <2>3. pointer \in Blocks
    BY <1>2, <2>1, <2>2 DEF Blocks
  <2>4. accepted
    BY <1>0, <2>1, <2>3
  <2> QED
    BY <1>0, <2>1, <2>4 DEF Works, Inited, config
<1>10. CASE ReadEnd \/ WriteEnd
  <2>1. status' = status /\ damaged' = damaged /\ pc' \in {"stop", "free"} /\ UNCHANGED <<kind, phase, config>>
    BY <1>10 DEF ReadEnd, WriteEnd, progress
  <2> QED
    BY <1>0, <2>1 DEF Works, Inited, config
<1>11. CASE StopTransmission
  <2>1. PICK a : Command("CMD12", 0, a) /\ Silent /\ UNCHANGED config /\ Return(StatusOf(a))
    BY <1>11 DEF StopTransmission
  <2>2. StatusOf(a) = "OK" /\ damaged' = damaged /\ Inited'
    BY <1>0, <2>1, LastWorks DEF DataCommands, Addressed
  <2> QED
    BY <1>0, <2>1, <2>2 DEF Works
<1>12. CASE PreErase
  <2>1. PICK a : Command("ACMD23", 0, a) /\ Silent /\ UNCHANGED config /\ Go("write_cmd") /\ pc = "pre_erase"
    BY <1>12 DEF PreErase
  <2>2. mode' = "command" /\ damaged' = damaged /\ Inited'
    BY <1>0, <2>1, LastWorks DEF DataCommands, Addressed
  <2> QED
    BY <1>0, <2>1, <2>2 DEF Works
<1>13. CASE Erase
  <2>1. PICK a : Command("CMD38", 0, a) /\ Silent /\ UNCHANGED config /\ Return(StatusOf(a)) /\ pc = "erase"
    BY <1>13 DEF Erase
  <2>2. StatusOf(a) = "OK" /\ damaged' = damaged /\ Inited'
    BY <1>0, <2>1, LastWorks DEF DataCommands, Addressed
  <2> QED
    BY <1>0, <2>1, <2>2 DEF Works
<1> QED
  BY <1>4, <1>5, <1>6, <1>7, <1>8, <1>9, <1>10, <1>11, <1>12, <1>13 DEF TransferStep

\* Where blocks change when the unit of addresses is the card's, and to what.
LEMMA StoredIn ==
    ASSUME SdInv, SdStep, UnitMatches, NEW b \in Blocks
    PROVE  \/ stored'[b] = stored[b]
           \/ call.op = "program" /\ b \in Extent /\ stored'[b] = call.data
           \/ call.op = "trim" /\ b \in Extent /\ stored'[b] = Erased
<1>1. stored \in [Blocks -> Values]
  BY DEF SdInv, CardTypeOK
<1>2. call.first \in Nat /\ call.count \in Nat /\ left \in Nat /\ left =< call.count
  BY CallFacts DEF SdInv, DriverTypeOK, PlaceOK
<1>3. ASSUME pc = "write_data", left > 0, stored' = [stored EXCEPT ![pointer] = call.data], pointer \in Blocks
      PROVE  stored'[b] = stored[b] \/ (call.op = "program" /\ b \in Extent /\ stored'[b] = call.data)
  <2>1. call.op = "program" /\ pointer = call.first + (call.count - left)
    BY <1>3 DEF SdInv, PlaceOK, WhereOK, WriteLabels
  <2>2. pointer \in Extent
    BY <1>2, <1>3, <2>1 DEF Extent
  <2> QED
    BY <1>1, <1>3, <2>1, <2>2
<1>4. ASSUME pc = "erase",
             stored' = [x \in Blocks |-> IF x \in range[1] .. range[2] THEN Erased ELSE stored[x]]
      PROVE  stored'[b] = stored[b] \/ (call.op = "trim" /\ b \in Extent /\ stored'[b] = Erased)
  <2>1. call.op = "trim" /\ range = <<call.first, LastBlock>>
    BY <1>4 DEF SdInv, PlaceOK, WhereOK, TrimLabels
  <2>2. range[1] = call.first /\ range[2] = LastBlock
    BY <2>1
  <2>3. b \in range[1] .. range[2] => b \in Extent
    BY <2>2 DEF Extent, LastBlock
  <2> QED
    BY <1>4, <2>1, <2>3
<1> QED
  BY <1>3, <1>4, StoredKept

\* A step of the device without a failure of the card.
LEMMA FaultsStep ==
    ASSUME SdInv, SdStep, faults' = 0
    PROVE  faults = 0 /\ faults' = faults
<1>1. faults \in Nat
  BY CardAssumption DEF SdInv, CardTypeOK
<1>2. ASSUME NEW cmd, NEW block, NEW a, NEW good, Exchange(cmd, block, a, good)
      PROVE  faults' \in {faults, faults + 1}
  BY <1>2 DEF Exchange
<1>3. faults' \in {faults, faults + 1}
  <2>1. CASE InitStep
    BY <1>2, <2>1 DEF InitStep, GoIdle, SendIfCond, ReadOcr, SendOpCond, ReadCcs, CrcOff, SendCsd, ReadCsd,
       SetBlockLen, Command
  <2>2. CASE TransferStep
    BY <1>2, <2>2 DEF TransferStep, Check, ReadCommand, ReadBlock, ReadEnd, StopTransmission, PreErase,
       WriteCommand, WriteBlock, WriteEnd, EraseFrom, EraseTo, Erase, Or, Command
  <2> QED
    BY <2>1, <2>2 DEF SdStep
<1> QED
  BY <1>1, <1>3

\* A call that fs_init waits for, with a card that works.
LEMMA DeviceKeepsWork ==
    ASSUME SdInv, MountInv, WorkInv, Formattable, SdStep, UNCHANGED storage, faults' = 0
    PROVE  InitOK' /\ WorksOK' /\ ContentOK' /\ VolumesOK'
<1> USE DEF storage, volume
<1>0. faults = 0 /\ faults' = faults /\ InitOK /\ WorksOK /\ ContentOK /\ VolumesOK /\ CallOK /\ SdInv
  BY FaultsStep DEF WorkInv, MountInv
<1>1. call' = call /\ pc # "free" /\ (call.op = "init" => stored' = stored)
  BY StepKeeps
<1>2. /\ fs \notin {"up", "create", "volume", "format", "format_first"}
      /\ fs \in {"mount", "mount_init", "mount_disk", "format_init", "mkfs_disk"} => call.op = "init"
  BY <1>0, <1>1 DEF CallOK
<1>3. Works
  <2>1. inits # 0 /\ inits \in Nat
    BY <1>0, <1>2 DEF VolumesOK, MountInv, StorageTypeOK
  <2> QED
    BY <1>0, <1>2, <2>1 DEF WorksOK, Works
<1>4. stored \in [Blocks -> Values] /\ Boot \in Blocks /\ Data \in Blocks /\ Boot # Data /\ Size >= 3 /\ Size \in Nat
  BY CardAssumption, StorageAssumption DEF SdInv, CardTypeOK, Blocks, Boot, Data
<1>5. CASE InitStep
  <2>1. InitOK' /\ Works'
    BY <1>0, <1>3, <1>5, InitWorks DEF Works
  <2>2. WorksOK'
    BY <2>1 DEF Works, WorksOK
  <2>3. stored' = stored
    BY <1>5, InitShape DEF SdInv, InitFrame
  <2> QED
    BY <1>0, <2>1, <2>2, <2>3 DEF ContentOK, VolumesOK, OneTaken
<1>6. CASE TransferStep
  <2>0. call.op \in {"read", "program", "trim"}
    BY <1>6, TransferKeepsConfig
  <2>1. Inited /\ UnitMatches /\ total_sectors = Size
    <3>1. pc \notin InitLabels
      BY <2>0 DEF SdInv, PlaceOK
    <3> QED
      BY <1>3, <3>1 DEF Works, Inited, UnitMatches
  <2>2. /\ fs \in {"mount_read", "format_second", "format_trim", "format_volume", "mkfs_boot", "mkfs_tables", "transferred"}
        /\ call.count > 0 /\ call.first + call.count =< Size
    BY <1>0, <1>2, <1>4, <2>0, <2>1 DEF CallOK, Call, Boot, Data, MountInv, StorageTypeOK, CreateLabels,
       ReadyLabels, FormatLabels, MkfsLabels
  <2>3. Works' /\ pc' \notin InitLabels
    <3>1. ASSUME call.op = "trim" PROVE WholeSectors /\ call = Call("trim", 0, Size, Erased)
      <4>1. fs = "format_volume"
        BY <1>0, <2>2, <3>1 DEF CallOK, Call
      <4> QED
        BY <1>0, <2>1, <4>1 DEF CallOK, ContentOK, FormatLabels, Formattable
    <3> QED
      BY <1>0, <1>3, <1>6, <2>2, <3>1, TransferWorks
  <2>4. InitOK' /\ WorksOK'
    BY <2>3 DEF InitOK, Works, WorksOK, InitLabels
  <2>5. VolumesOK'
    BY <1>0 DEF VolumesOK, OneTaken
  <2>6. ContentOK'
    <3>1. /\ \/ stored'[Boot] = stored[Boot]
             \/ call.op = "program" /\ Boot \in Extent /\ stored'[Boot] = call.data
             \/ call.op = "trim" /\ Boot \in Extent /\ stored'[Boot] = Erased
          /\ \/ stored'[Data] = stored[Data]
             \/ call.op = "program" /\ Data \in Extent /\ stored'[Data] = call.data
             \/ call.op = "trim" /\ Data \in Extent /\ stored'[Data] = Erased
      BY <1>4, <2>1, StoredIn
    <3>2. CASE fs = "mount_read"
      <4>1. call.op = "read"
        BY <1>0, <3>2 DEF CallOK, Call
      <4> QED
        BY <1>0, <3>1, <3>2, <4>1 DEF ContentOK, CreateLabels, ReadyLabels, FormatLabels, MkfsLabels
    <3>3. CASE fs \in {"format_second", "format_trim", "format_volume"}
      <4>1. call.data = Erased /\ Erased # Fat
        BY <1>0, <3>3, StorageAssumption DEF CallOK, Call
      <4> QED
        BY <1>0, <3>1, <3>3, <4>1 DEF ContentOK, CreateLabels, ReadyLabels, FormatLabels, MkfsLabels
    <3>4. CASE fs = "mkfs_boot"
      <4>1. call.op = "program" /\ Data \notin Extent
        BY <1>0, <3>4 DEF CallOK, Call, Extent, Boot, Data
      <4> QED
        BY <1>0, <3>1, <3>4, <4>1 DEF ContentOK, CreateLabels, ReadyLabels, FormatLabels, MkfsLabels
    <3>5. CASE fs = "mkfs_tables"
      <4>1. call.op = "program" /\ call.data = Erased /\ Boot \notin Extent
        BY <1>0, <3>5 DEF CallOK, Call, Extent, Boot, Data
      <4> QED
        BY <1>0, <3>1, <3>5, <4>1 DEF ContentOK, CreateLabels, ReadyLabels, FormatLabels, MkfsLabels
    <3>6. CASE fs = "transferred"
      BY <1>0, <3>6 DEF ContentOK, CreateLabels, ReadyLabels, FormatLabels, MkfsLabels
    <3> QED
      BY <2>2, <3>2, <3>3, <3>4, <3>5, <3>6
  <2> QED
    BY <2>4, <2>5, <2>6
<1> QED
  BY <1>5, <1>6 DEF SdStep

-----------------------------------------------------------------------------
(* fs_init with a card that works.                                         *)

\* A step between two calls of an initialised device, or the call of init of a new one.
LEMMA BetweenWorks ==
    ASSUME SdInv, WorksOK, pc = "free", inits > 0, UNCHANGED <<card, config, inits>>,
           pc' \in {"free", "go_idle", "check"}, status' = "OK", ~damaged', fs' # "create",
           fs = "create" => pc' = "go_idle"
    PROVE  InitOK' /\ WorksOK'
<1>1. mode = "command"
  BY DEF SdInv, LineOK, WorksOK
<1>2. fs # "create" => Inited
  BY DEF WorksOK, InitLabels
<1> QED
  BY <1>1, <1>2 DEF InitOK, WorksOK, Inited, InitLabels, TrimLabels, card, config

\* With two volumes or more, and one taken at most, there is a free one.
LEMMA OneIsFree ==
    ASSUME OneTaken(VolumeIds), Volumes >= 2
    PROVE  Free # {}
<1>1. 0 \in VolumeIds /\ 1 \in VolumeIds
  BY StorageAssumption DEF VolumeIds
<1>2. slots[0] = 0 \/ slots[1] = 0
  BY <1>1 DEF OneTaken
<1> QED
  BY <1>1, <1>2 DEF Free

\* The volumes after one is taken, and after it is freed.
LEMMA TakenVolume ==
    ASSUME StorageTypeOK, Free # {}, TakeVolume
    PROVE  /\ id' \in VolumeIds
           /\ \A i \in VolumeIds \ {id'} : slots'[i] = slots[i]
<1>1. slots \in [VolumeIds -> Nat] /\ id' = First(Free) /\ slots' = [slots EXCEPT ![First(Free)] = inits]
  BY DEF StorageTypeOK, TakeVolume
<1>2. First(Free) \in VolumeIds
  BY FreeIs
<1> QED
  BY <1>1, <1>2

LEMMA FreedVolume ==
    ASSUME StorageTypeOK, id \in VolumeIds, slots' = Unmounted, OneTaken(VolumeIds \ {id})
    PROVE  OneTaken(VolumeIds)'
<1>1. slots \in [VolumeIds -> Nat]
  BY DEF StorageTypeOK
<1>2. slots'[id] = 0 /\ \A i \in VolumeIds \ {id} : slots'[i] = slots[i]
  BY <1>1 DEF Unmounted
<1> QED
  BY <1>2 DEF OneTaken

\* What fs_init has with a card that works, when it is at a label after "create".
LEMMA AtWork ==
    ASSUME SdInv, MountInv, InitOK, WorksOK, VolumesOK, pc = "free", fs \notin {"up", "create"}
    PROVE  /\ status = "OK" /\ ~damaged /\ inits > 0 /\ inits \in Nat /\ Inited /\ UnitMatches /\ ready
           /\ (fs # "transferred" => ~sd_card_mounted /\ mounts = 0)
<1>1. inits \in Nat /\ inits # 0
  BY DEF MountInv, StorageTypeOK, VolumesOK
<1>2. Inited
  BY <1>1 DEF WorksOK, InitLabels
<1> QED
  BY <1>1, <1>2, NotMounted DEF WorksOK, Inited, UnitMatches, MountInv, MountOK

\* The steps of fs_mount.
LEMMA MountWorks ==
    ASSUME SdInv, MountInv, InitOK, WorksOK, ContentOK, VolumesOK, Volumes >= 2, faults = 0,
           CreateDevice \/ FsMount \/ FsMountInit \/ MountVolume \/ MountDisk \/ MountRead
    PROVE  InitOK' /\ WorksOK' /\ ContentOK' /\ VolumesOK'
<1> USE DEF At, Boots, volume, Quiet, sdvars
<1> USE DEF CreateLabels, ReadyLabels, FormatLabels, MkfsLabels
<1>0. StorageTypeOK /\ inits \in Nat /\ (inits = 0 => fs = "up")
  BY DEF MountInv, StorageTypeOK, VolumesOK
<1>1. CASE CreateDevice
  <2>1. /\ fs = "create" /\ fs' = "mount" /\ pc = "free" /\ pc' = "go_idle" /\ status' = "OK" /\ damaged' = FALSE
        /\ UNCHANGED <<card, config, inits, attempt, slots, id, sd_card_mounted>>
    BY <1>1, DeviceIs DEF CreateDevice
  <2>2. InitOK' /\ WorksOK'
    BY <1>0, <2>1, BetweenWorks
  <2>3. stored' = stored
    BY <2>1 DEF card
  <2> QED
    BY <1>0, <2>1, <2>2, <2>3 DEF ContentOK, VolumesOK, OneTaken
<1>2. CASE FsMount
  <2>0. fs = "mount" /\ pc = "free"
    BY <1>2 DEF FsMount
  <2>1. ready /\ status = "OK" /\ ~damaged /\ inits > 0
    BY <2>0, AtWork
  <2>2. /\ fs' = "volume" /\ pc' = "free" /\ status' = "OK" /\ ~damaged'
        /\ UNCHANGED <<card, config, inits, attempt, slots, id, sd_card_mounted>>
    BY <1>2, <2>0, <2>1 DEF FsMount, progress
  <2>3. InitOK' /\ WorksOK'
    BY <2>0, <2>1, <2>2, BetweenWorks
  <2>4. stored' = stored
    BY <2>2 DEF card
  <2> QED
    BY <2>0, <2>1, <2>2, <2>3, <2>4 DEF ContentOK, VolumesOK, OneTaken
<1>3. CASE FsMountInit
  <2>0. fs = "mount_init" /\ pc = "free"
    BY <1>3 DEF FsMountInit
  <2>1. status = "OK" /\ ~damaged /\ inits > 0
    BY <2>0, AtWork
  <2>2. /\ fs' = "volume" /\ pc' = "free" /\ status' = "OK" /\ ~damaged'
        /\ UNCHANGED <<card, config, inits, attempt, slots, id, sd_card_mounted>>
    BY <1>3, <2>0, <2>1 DEF FsMountInit, progress
  <2>3. InitOK' /\ WorksOK'
    BY <2>0, <2>1, <2>2, BetweenWorks
  <2>4. stored' = stored
    BY <2>2 DEF card
  <2> QED
    BY <2>0, <2>1, <2>2, <2>3, <2>4 DEF ContentOK, VolumesOK, OneTaken
<1>4. CASE MountVolume
  <2>0. fs = "volume" /\ pc = "free"
    BY <1>4 DEF MountVolume
  <2>1. inits > 0 /\ OneTaken(VolumeIds) /\ Free # {}
    BY <2>0, AtWork, OneIsFree DEF VolumesOK
  <2>2. TakeVolume /\ Device("init", 0, 0, Erased, "mount_disk")
    BY <1>4, <2>1 DEF MountVolume
  <2>3. /\ fs' = "mount_disk" /\ pc' = "go_idle" /\ status' = "OK" /\ damaged' = FALSE
        /\ UNCHANGED <<card, config, inits, attempt, sd_card_mounted>>
    BY <1>4, <2>2, DeviceIs DEF MountVolume, TakeVolume
  <2>4. InitOK' /\ WorksOK'
    BY <2>0, <2>1, <2>3, BetweenWorks
  <2>5. stored' = stored
    BY <2>3 DEF card
  <2>6. id' \in VolumeIds /\ \A i \in VolumeIds \ {id'} : slots'[i] = slots[i]
    BY <1>0, <2>1, <2>2, TakenVolume
  <2>7. attempt = 1 => OneTaken(VolumeIds)'
    BY <2>0, <2>6 DEF VolumesOK, OneTaken
  <2>8. VolumesOK'
    BY <2>1, <2>3, <2>7 DEF VolumesOK
  <2> QED
    BY <2>0, <2>3, <2>4, <2>5, <2>8 DEF ContentOK
<1>5. CASE MountDisk
  <2>0. fs = "mount_disk" /\ pc = "free"
    BY <1>5 DEF MountDisk
  <2>1. status = "OK" /\ ~damaged /\ inits > 0
    BY <2>0, AtWork
  <2>2. Device("read", Boot, 1, Erased, "mount_read") /\ Boots /\ UNCHANGED inits
    BY <1>5, <2>1 DEF MountDisk, NotInitialised
  <2>3. /\ fs' = "mount_read" /\ pc' = "check" /\ status' = "OK" /\ damaged' = FALSE
        /\ UNCHANGED <<card, config, inits, attempt, slots, id, sd_card_mounted>>
    BY <2>2, TransferIs
  <2>4. InitOK' /\ WorksOK'
    BY <2>0, <2>1, <2>3, BetweenWorks
  <2>5. stored' = stored
    BY <2>3 DEF card
  <2> QED
    BY <2>0, <2>1, <2>3, <2>4, <2>5 DEF ContentOK, VolumesOK, OneTaken
<1>6. CASE MountRead
  <2>0. fs = "mount_read" /\ pc = "free" /\ attempt \in {1, 2}
    BY <1>0, <1>6 DEF MountRead, StorageTypeOK
  <2>1. status = "OK" /\ ~damaged /\ inits > 0 /\ mounts = 0 /\ UnitMatches
    BY <2>0, AtWork
  <2>2. HasPlace
    BY <2>1, StorageAssumption DEF HasPlace
  <2>3. IsFat <=> stored[Boot] = Fat
    <3>1. call.op = "read" /\ call.first = Boot /\ call.count = 1
      BY <2>0 DEF MountInv, CallOK, Call
    <3>2. Len(buffer) = 1 /\ buffer[1] = stored[(Boot + 1) - 1]
      BY <2>0, <2>1, <3>1 DEF SdInv, OkIsDone
    <3>3. buffer = <<stored[Boot]>>
      <4>1. buffer \in Seq(Values) /\ stored[Boot] \in Values
        BY CardAssumption DEF SdInv, DriverTypeOK, CardTypeOK, Blocks, Boot
      <4>2. buffer[1] = stored[Boot]
        BY <3>2 DEF Boot
      <4> QED
        BY <3>2, <4>1, <4>2
    <3> QED
      BY <2>1, <3>3 DEF IsFat
  <2>4. UNCHANGED <<attempt, slots, id, inits, sdvars>>
    BY <1>6 DEF MountRead, MountFails
  <2>5. /\ IsFat => fs' = "up" /\ sd_card_mounted' = TRUE
        /\ ~IsFat => fs' = (IF attempt = 1 THEN "format" ELSE "up") /\ sd_card_mounted' = sd_card_mounted
    BY <1>6, <2>2 DEF MountRead, MountFails
  <2>6. attempt = 2 => IsFat
    BY <2>0, <2>3 DEF ContentOK
  <2>7. pc' = "free" /\ status' = "OK" /\ ~damaged' /\ UNCHANGED <<card, config, stored>>
    BY <2>0, <2>1, <2>4 DEF progress, card
  <2>8. fs' \in {"up", "format"} /\ (fs' = "format" => ~IsFat /\ attempt = 1)
    BY <2>0, <2>5, <2>6
  <2>9. InitOK' /\ WorksOK'
    BY <2>0, <2>1, <2>4, <2>7, <2>8, BetweenWorks
  <2>10. ContentOK'
    BY <2>3, <2>7, <2>8 DEF ContentOK
  <2>11. VolumesOK'
    BY <1>0, <2>0, <2>1, <2>4, <2>5, <2>6, <2>8 DEF VolumesOK, OneTaken
  <2> QED
    BY <2>9, <2>10, <2>11
<1> QED
  BY <1>1, <1>2, <1>3, <1>4, <1>5, <1>6

\* The steps of fs_format.
LEMMA FormatWorks ==
    ASSUME SdInv, MountInv, InitOK, WorksOK, ContentOK, VolumesOK, Volumes >= 2, faults = 0,
           FsFormat \/ FsFormatInit \/ FormatFirst \/ FormatSecond \/ FormatTrim \/ FormatVolume
    PROVE  InitOK' /\ WorksOK' /\ ContentOK' /\ VolumesOK'
<1> USE DEF At, Boots, volume, Quiet, sdvars
<1> USE DEF CreateLabels, ReadyLabels, FormatLabels, MkfsLabels
<1>0. StorageTypeOK /\ inits \in Nat /\ (inits = 0 => fs = "up")
  BY DEF MountInv, StorageTypeOK, VolumesOK
\* From one label of the format to the next one, with or without a call.
<1>1. ASSUME fs \in FormatLabels, fs' \in FormatLabels, pc = "free", pc' \in {"free", "check"},
             status' = "OK", ~damaged', UNCHANGED <<card, config, inits, attempt, slots, id, sd_card_mounted>>
      PROVE  InitOK' /\ WorksOK' /\ ContentOK' /\ VolumesOK'
  <2>1. inits > 0
    BY <1>1, AtWork
  <2>2. InitOK' /\ WorksOK'
    BY <1>1, <2>1, BetweenWorks
  <2>3. stored' = stored
    BY <1>1 DEF card
  <2> QED
    BY <1>1, <2>2, <2>3 DEF ContentOK, VolumesOK, OneTaken
<1>2. CASE FsFormat \/ FsFormatInit
  <2>0. fs \in {"format", "format_init"} /\ pc = "free"
    BY <1>2 DEF FsFormat, FsFormatInit
  <2>1. ready /\ status = "OK" /\ ~damaged
    BY <2>0, AtWork
  <2>2. /\ fs' = "format_first" /\ pc' = "free" /\ status' = "OK" /\ ~damaged'
        /\ UNCHANGED <<card, config, inits, attempt, slots, id, sd_card_mounted>>
    BY <1>2, <2>0, <2>1 DEF FsFormat, FsFormatInit, progress
  <2> QED
    BY <1>1, <2>0, <2>2
<1>3. CASE FormatFirst \/ FormatSecond \/ FormatTrim
  <2>0. fs \in {"format_first", "format_second", "format_trim"} /\ pc = "free"
    BY <1>3 DEF FormatFirst, FormatSecond, FormatTrim
  <2>1. status = "OK"
    BY <2>0, AtWork
  <2>2. \/ Device("program", 0, 1, Erased, "format_second")
        \/ Device("program", 1, 1, Erased, "format_trim")
        \/ Device("trim", 0, total_sectors, Erased, "format_volume")
    BY <1>3, <2>1 DEF FormatFirst, FormatSecond, FormatTrim, OrFormatReturns
  <2>3. UNCHANGED <<inits, attempt, slots, id, sd_card_mounted>>
    BY <1>3, <2>1 DEF FormatFirst, FormatSecond, FormatTrim, OrFormatReturns
  <2>4. /\ fs' \in FormatLabels /\ pc' = "check" /\ status' = "OK" /\ damaged' = FALSE
        /\ UNCHANGED <<card, config>>
    BY <2>2, TransferIs
  <2> QED
    BY <1>1, <2>0, <2>3, <2>4
<1>4. CASE FormatVolume
  <2>0. fs = "format_volume" /\ pc = "free"
    BY <1>4 DEF FormatVolume
  <2>1. inits > 0 /\ OneTaken(VolumeIds) /\ Free # {} /\ status = "OK" /\ ~damaged /\ UnitMatches /\ Inited
    BY <2>0, AtWork, OneIsFree DEF VolumesOK
  <2>2. TakeVolume /\ Device("init", 0, 0, Erased, "mkfs_disk")
    BY <1>4, <2>1 DEF FormatVolume
  <2>3. /\ fs' = "mkfs_disk" /\ pc' = "go_idle" /\ status' = "OK" /\ damaged' = FALSE
        /\ UNCHANGED <<card, config, inits, attempt, sd_card_mounted>>
    BY <1>4, <2>2, DeviceIs DEF FormatVolume, TakeVolume
  <2>4. InitOK' /\ WorksOK'
    BY <2>0, <2>1, <2>3, BetweenWorks
  <2>5. stored' = stored
    BY <2>3 DEF card
  <2>6. id' \in VolumeIds /\ \A i \in VolumeIds \ {id'} : slots'[i] = slots[i]
    BY <1>0, <2>1, <2>2, TakenVolume
  <2>7. VolumesOK'
    BY <2>1, <2>3, <2>6 DEF VolumesOK, OneTaken
  <2>8. stored[Data] = Erased
    <3>1. call.op = "trim" /\ call.first = 0 /\ call.count = Size
      BY <2>0, <2>1 DEF MountInv, CallOK, Call, Inited
    <3>2. Data \in Extent
      BY <3>1, StorageAssumption, CardAssumption DEF Extent, Data
    <3> QED
      BY <2>0, <2>1, <3>1, <3>2 DEF SdInv, OkIsDone
  <2> QED
    BY <2>3, <2>4, <2>5, <2>7, <2>8 DEF ContentOK
<1> QED
  BY <1>2, <1>3, <1>4

LEMMA MkfsWorks ==
    ASSUME SdInv, MountInv, InitOK, WorksOK, ContentOK, VolumesOK, faults = 0,
           MkfsDisk \/ MkfsBoot \/ MkfsTables
    PROVE  InitOK' /\ WorksOK' /\ ContentOK' /\ VolumesOK'
<1> USE DEF At, Boots, volume, Quiet, sdvars
<1> USE DEF CreateLabels, ReadyLabels, FormatLabels, MkfsLabels
<1>0. /\ StorageTypeOK /\ fs \in MkfsLabels /\ pc = "free" /\ Erased # Fat
  BY StorageAssumption DEF MountInv, MkfsDisk, MkfsBoot, MkfsTables
<1>1. status = "OK" /\ ~damaged /\ inits > 0 /\ UnitMatches /\ stored[Data] = Erased
  BY <1>0, AtWork DEF ContentOK
<1>2. CASE MkfsDisk
  <2>1. Device("program", Boot, 1, Fat, "mkfs_boot") /\ Boots /\ UNCHANGED inits /\ fs = "mkfs_disk"
    BY <1>1, <1>2 DEF MkfsDisk, NotInitialised
  <2>2. /\ fs' = "mkfs_boot" /\ pc' = "check" /\ status' = "OK" /\ damaged' = FALSE
        /\ UNCHANGED <<card, config, inits, attempt, slots, id, sd_card_mounted>>
    BY <2>1, TransferIs
  <2>3. InitOK' /\ WorksOK'
    BY <1>0, <1>1, <2>2, BetweenWorks
  <2>4. stored' = stored
    BY <2>2 DEF card
  <2> QED
    BY <1>1, <2>1, <2>2, <2>3, <2>4 DEF ContentOK, VolumesOK, OneTaken
<1>3. CASE MkfsBoot
  <2>1. Device("program", 1, 2, Erased, "mkfs_tables") /\ Boots /\ UNCHANGED inits /\ fs = "mkfs_boot"
    BY <1>1, <1>3 DEF MkfsBoot
  <2>2. /\ fs' = "mkfs_tables" /\ pc' = "check" /\ status' = "OK" /\ damaged' = FALSE
        /\ UNCHANGED <<card, config, inits, attempt, slots, id, sd_card_mounted>>
    BY <2>1, TransferIs
  <2>3. InitOK' /\ WorksOK'
    BY <1>0, <1>1, <2>2, BetweenWorks
  <2>4. stored' = stored
    BY <2>2 DEF card
  <2>5. stored[Boot] = Fat
    <3>1. call.op = "program" /\ call.first = Boot /\ call.count = 1 /\ call.data = Fat
      BY <2>1 DEF MountInv, CallOK, Call
    <3>2. Boot \in Extent
      BY <3>1 DEF Extent, Boot
    <3> QED
      BY <1>0, <1>1, <3>1, <3>2 DEF SdInv, OkIsDone
  <2> QED
    BY <1>1, <2>1, <2>2, <2>3, <2>4, <2>5 DEF ContentOK, VolumesOK, OneTaken
<1>4. CASE MkfsTables
  <2>1. /\ fs = "mkfs_tables" /\ fs' = "mount" /\ attempt' = 2 /\ slots' = Unmounted
        /\ UNCHANGED <<id, sd_card_mounted, inits, card, config, pc, status, damaged>>
    BY <1>4 DEF MkfsTables, FormatReturns, progress
  <2>2. InitOK' /\ WorksOK'
    BY <1>0, <1>1, <2>1, BetweenWorks
  <2>3. stored' = stored /\ stored[Boot] = Fat
    BY <2>1 DEF card, ContentOK
  <2>4. OneTaken(VolumeIds)'
    BY <1>0, <2>1, FreedVolume DEF VolumesOK
  <2> QED
    BY <1>1, <2>1, <2>2, <2>3, <2>4 DEF ContentOK, VolumesOK
<1> QED
  BY <1>2, <1>3, <1>4

LEMMA WorkStarts == Init => WorkInv
<1> SUFFICES ASSUME Init PROVE WorkInv
  OBVIOUS
<1>1. /\ fs = "up" /\ slots = [i \in VolumeIds |-> 0] /\ sd_card_mounted = FALSE /\ inits = 0 /\ pc = "free"
      /\ status = "OK" /\ damaged = FALSE
  BY DEF Init, SdInit
<1>2. InitOK /\ WorksOK
  BY <1>1 DEF InitOK, WorksOK, TrimLabels
<1>3. ContentOK /\ VolumesOK
  BY <1>1 DEF ContentOK, VolumesOK, OneTaken, CreateLabels, ReadyLabels, FormatLabels, MkfsLabels
<1> QED
  BY <1>2, <1>3 DEF WorkInv

\* fs_init is called once, rows are written and read.
LEMMA UseWorks ==
    ASSUME SdInv, MountInv, InitOK, WorksOK, ContentOK, VolumesOK,
           FsInit \/ WriteRow \/ ReadRows \/ Transferred
    PROVE  InitOK' /\ WorksOK' /\ ContentOK' /\ VolumesOK'
<1> USE DEF CreateLabels, ReadyLabels, FormatLabels, MkfsLabels
<1>0. status = "OK" /\ ~damaged /\ inits \in Nat
  BY DEF WorksOK, MountInv, StorageTypeOK
<1>1. CASE FsInit
  <2>1. /\ fs = "up" /\ ~sd_card_mounted /\ inits' = inits + 1 /\ sd_card_mounted' = FALSE /\ attempt' = 1
        /\ fs' = "create" /\ pc' = "free" /\ status' = "OK" /\ ~damaged' /\ slots' = slots /\ stored' = stored
    BY <1>0, <1>1 DEF FsInit, progress, card
  <2>2. inits = 0
    BY <1>0, <2>1 DEF VolumesOK
  <2>3. \A i \in VolumeIds : slots'[i] = 0
    BY <2>1, <2>2 DEF VolumesOK
  <2>4. InitOK' /\ WorksOK'
    BY <2>1 DEF InitOK, WorksOK, TrimLabels
  <2>5. ContentOK' /\ VolumesOK'
    BY <2>1, <2>2, <2>3 DEF ContentOK, VolumesOK, OneTaken
  <2> QED
    BY <2>4, <2>5
<1>2. CASE WriteRow \/ ReadRows
  <2>1. /\ fs' = "transferred" /\ pc = "free" /\ pc' = "check" /\ status' = "OK" /\ ~damaged'
        /\ sd_card_mounted /\ fs = "up"
        /\ UNCHANGED <<card, config, inits, attempt, slots, id, sd_card_mounted>>
    BY <1>2, RowCalls
  <2>2. inits > 0
    BY <1>0, <2>1 DEF VolumesOK
  <2>3. InitOK' /\ WorksOK'
    BY <2>1, <2>2, BetweenWorks
  <2> QED
    BY <2>1, <2>2, <2>3 DEF ContentOK, VolumesOK, OneTaken
<1>3. CASE Transferred
  <2>1. /\ fs = "transferred" /\ fs' = "up" /\ pc = "free" /\ pc' = "free" /\ status' = "OK" /\ ~damaged'
        /\ UNCHANGED <<card, config, inits, attempt, slots, id, sd_card_mounted>>
    BY <1>0, <1>3 DEF Transferred, At, Boots, volume, Quiet, sdvars, progress
  <2>2. inits > 0
    BY <2>1, AtWork
  <2>3. InitOK' /\ WorksOK'
    BY <2>1, <2>2, BetweenWorks
  <2> QED
    BY <2>1, <2>2, <2>3 DEF ContentOK, VolumesOK, OneTaken
<1> QED
  BY <1>1, <1>2, <1>3

\* No step of fs_init makes the card fail.
LEMMA FsFaults ==
    ASSUME [Next]_allvars
    PROVE  SdStep \/ CardResets \/ faults' = faults
<1>1. ASSUME NEW op, NEW first, NEW count, NEW data, NEW next, Device(op, first, count, data, next)
      PROVE  faults' = faults
  BY <1>1, DeviceIs
<1> USE DEF Quiet, sdvars, MountFails, FormatReturns, OrFormatReturns
<1>2. CASE FsInit \/ WriteRow \/ ReadRows
  BY <1>1, <1>2 DEF FsInit, WriteRow, ReadRows
<1>3. CASE CreateDevice \/ FsMount \/ FsMountInit \/ MountVolume \/ MountDisk \/ MountRead
  BY <1>1, <1>3 DEF CreateDevice, FsMount, FsMountInit, MountVolume, MountDisk, MountRead
<1>4. CASE FsFormat \/ FsFormatInit \/ FormatFirst \/ FormatSecond \/ FormatTrim \/ FormatVolume
  BY <1>1, <1>4 DEF FsFormat, FsFormatInit, FormatFirst, FormatSecond, FormatTrim, FormatVolume
<1>5. CASE MkfsDisk \/ MkfsBoot \/ MkfsTables \/ Transferred
  BY <1>1, <1>5 DEF MkfsDisk, MkfsBoot, MkfsTables, Transferred
<1>6. CASE UNCHANGED allvars
  BY <1>6 DEF allvars
<1> QED
  BY <1>2, <1>3, <1>4, <1>5, <1>6 DEF Next, StorageStep

LEMMA NextWork ==
    ASSUME SdInv, MountInv, TrimOK, WorkInv, Volumes >= 2, [Next]_allvars
    PROVE  WorkInv'
<1>0. faults \in Nat
  BY CardAssumption DEF SdInv, CardTypeOK
<1>1. SUFFICES ASSUME faults' = 0, Formattable PROVE InitOK' /\ WorksOK' /\ ContentOK' /\ VolumesOK'
  BY StaysUnformatted DEF WorkInv
<1>2. CASE SdStep /\ UNCHANGED storage
  BY <1>1, <1>2, DeviceKeepsWork
<1>3. CASE CardResets
  BY <1>0, <1>1, <1>3 DEF CardResets
<1>4. ASSUME faults' = faults, ~(SdStep /\ UNCHANGED storage), ~CardResets
      PROVE  InitOK' /\ WorksOK' /\ ContentOK' /\ VolumesOK'
  <2>1. faults = 0 /\ InitOK /\ WorksOK /\ ContentOK /\ VolumesOK
    BY <1>1, <1>4 DEF WorkInv
  <2>2. CASE UNCHANGED allvars
    <3>1. InitOK' /\ WorksOK'
      BY <2>1, <2>2 DEF allvars, sdvars, card, config, progress, storage, InitOK, WorksOK, Inited
    <3>2. ContentOK' /\ VolumesOK'
      BY <2>1, <2>2 DEF allvars, sdvars, card, storage, volume, ContentOK, VolumesOK, OneTaken
    <3> QED
      BY <3>1, <3>2
  <2> QED
    BY <1>4, <2>1, <2>2, MountWorks, FormatWorks, MkfsWorks, UseWorks DEF Next, StorageStep
<1>5. SdStep => (SdStep /\ UNCHANGED storage) \/ faults' = faults
  BY <1>1, FaultsStep
<1> QED
  BY <1>2, <1>3, <1>4, <1>5, FsFaults

LEMMA AlwaysWork == ASSUME Volumes >= 2 PROVE Spec => []WorkInv
<1>1. SdInv /\ MountInv /\ TrimOK /\ WorkInv /\ [Next]_allvars => WorkInv' /\ TrimOK'
  BY NextWork, NextTrims
<1> QED
  BY <1>1, WorkStarts, TrimStarts, AlwaysSdInv, AlwaysMount, PTL DEF Spec

\* With two volumes or more - one that could not be mounted stays taken - and a card
\* that works, fs_init mounts the card if it has a file system or can be given one; and whatever
\* fails, a card said to be mounted is usable.
THEOREM MountTells == ASSUME Volumes >= 2 PROVE Spec => []MountIsTrue
<1>1. SdInv /\ MountInv /\ WorkInv => MountIsTrue
  BY DEF MountInv, MountOK, WorkInv, Formattable, VolumesOK, MountIsTrue, WorkingCardMounts, MountedIsUsable
<1> QED
  BY <1>1, AlwaysSdInv, AlwaysMount, AlwaysWork, PTL

\* With a card that works, no step of a boot or of the use of the mounted card takes
\* the boot sector or the rows from a card that has a boot sector.
THEOREM CardKept == ASSUME Volumes >= 2 PROVE Spec => WorkingCardKept
<1> DEFINE Kept == faults = 0 /\ stored[Boot] = Fat =>
                       stored'[Boot] = Fat /\ (stored[Data] = Row => stored'[Data] = Row)
<1>1. SdInv /\ MountInv /\ WorkInv /\ [Next]_allvars => [Kept]_allvars
  <2> SUFFICES ASSUME SdInv, MountInv, WorkInv, [Next]_allvars, faults = 0, stored[Boot] = Fat
               PROVE  stored'[Boot] = Fat /\ (stored[Data] = Row => stored'[Data] = Row)
    OBVIOUS
  <2>0. InitOK /\ WorksOK /\ ContentOK /\ VolumesOK /\ CallOK
    BY DEF WorkInv, Formattable, MountInv
  <2>1. CASE stored' = stored
    BY <2>1
  <2>2. CASE SdStep /\ call.op \in {"program", "trim"}
    <3>1. /\ pc # "free" /\ pc \notin InitLabels /\ inits \in Nat /\ inits # 0
          /\ fs \notin {"up", "create"}
      <4>1. pc # "free"
        BY <2>2, StepKeeps
      <4>2. pc \notin InitLabels
        BY <2>2 DEF SdInv, PlaceOK
      <4>3. fs \notin {"up", "create"}
        BY <2>0, <4>1 DEF CallOK
      <4> QED
        BY <2>0, <4>1, <4>2, <4>3 DEF VolumesOK, MountInv, StorageTypeOK
    <3>2. UnitMatches
      BY <2>0, <3>1 DEF WorksOK, Inited, UnitMatches
    <3>3. Boot \in Blocks /\ Data \in Blocks /\ Erased # Row /\ Erased # Fat /\ Fat # Row
      BY CardAssumption, StorageAssumption DEF Blocks, Boot, Data
    <3>4. fs \in {"mkfs_boot", "mkfs_tables", "transferred"}
      <4>1. fs \notin FormatLabels
        BY <2>0 DEF ContentOK
      <4> QED
        BY <2>0, <2>2, <3>1, <4>1 DEF CallOK, Call, MountInv, StorageTypeOK, CreateLabels, ReadyLabels,
           FormatLabels, MkfsLabels
    <3>5. /\ \/ stored'[Boot] = stored[Boot]
             \/ call.op = "program" /\ Boot \in Extent /\ stored'[Boot] = call.data
             \/ call.op = "trim" /\ Boot \in Extent /\ stored'[Boot] = Erased
          /\ \/ stored'[Data] = stored[Data]
             \/ call.op = "program" /\ Data \in Extent /\ stored'[Data] = call.data
             \/ call.op = "trim" /\ Data \in Extent /\ stored'[Data] = Erased
      BY <2>2, <3>2, <3>3, StoredIn
    <3>6. CASE fs = "mkfs_boot"
      <4>1. call.op = "program" /\ call.data = Fat /\ Data \notin Extent
        BY <2>0, <3>6 DEF CallOK, Call, Extent, Boot, Data
      <4> QED
        BY <3>5, <4>1
    <3>7. CASE fs = "mkfs_tables"
      <4>1. call.op = "program" /\ Boot \notin Extent /\ stored[Data] = Erased
        BY <2>0, <3>7 DEF CallOK, Call, Extent, Boot, Data, ContentOK, MkfsLabels
      <4> QED
        BY <3>3, <3>5, <4>1
    <3>8. CASE fs = "transferred"
      <4>1. call = Call("program", Data, 1, Row)
        BY <2>0, <2>2, <3>8 DEF CallOK, Call
      <4>2. call.op = "program" /\ call.data = Row /\ Boot \notin Extent
        BY <4>1 DEF Call, Extent, Boot, Data
      <4> QED
        BY <3>5, <4>2
    <3> QED
      BY <3>4, <3>6, <3>7, <3>8
  <2>3. SdStep /\ call.op \notin {"program", "trim"} => stored' = stored
    BY StoredKept DEF SdInv, PlaceOK, WriteLabels, TrimLabels
  <2>4. ~SdStep => stored' = stored
    <3>1. DeviceStep
      BY StepsAreDevice
    <3> QED
      BY <3>1 DEF DeviceStep, Called, Begin, CardResets, NewDevice, card, sdvars
  <2> QED
    BY <2>1, <2>2, <2>3, <2>4
<1>2. [][Kept]_allvars => WorkingCardKept
  BY PTL DEF WorkingCardKept
<1> QED
  BY <1>1, <1>2, AlwaysSdInv, AlwaysMount, AlwaysWork, PTL DEF Spec
=============================================================================
