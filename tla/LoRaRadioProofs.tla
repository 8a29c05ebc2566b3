--------------------------- MODULE LoRaRadioProofs ---------------------------
(***************************************************************************)
(* Proofs about the LoRa radio and its driver, for every size of the FIFO   *)
(* above the longest packet, every set of packets, boot messages and        *)
(* replies, and any number of packets and timeouts.                         *)
(***************************************************************************)
EXTENDS LoRaRadio, TLAPS

-----------------------------------------------------------------------------
(* The inductive invariant.                                                *)

Addresses == 0 .. FifoSize - 1
Lengths == 0 .. MaxPktLength
Bytes == [number : Nat, at : Nat]
Messages == {m \in [to : {Remote}, from : {Local}, size : Nat] : m.size >= 2}
Modes == {"sleep", "standby", "rx_continuous", "rx_single", "tx"}

\* Where core 0 is between finding a packet and the end of its execution.
Pipeline == {"length", "address", "idle", "receive", "process"}
Places == {"boot", "begin", "transmit", "wait", "poll", "clear", "mode", "arm"} \cup Pipeline

Chips ==
    [mode : Modes, irq : SUBSET Flags, fifo : [Addresses -> Bytes], pointer : Addresses,
     payload : Lengths, bytes : Lengths, current : Addresses, into : Addresses]

TypesOK ==
    /\ answers \in {"radio", "low", "high"} /\ wired \in BOOLEAN
    /\ chip \in Chips /\ air \in [number : Nat, got : Lengths]
    /\ pc \in Places /\ outgoing \in Seq(Nat)
    /\ irqFlags \in SUBSET Flags /\ packetLength \in Lengths /\ packetIndex \in Lengths
    /\ buffer \in Seq(Bytes) /\ history \in Seq(Packets \cup Messages)
    /\ taken \in Seq([bytes : Seq(Bytes), torn : BOOLEAN])
    /\ onAir \in Seq(Seq(Bytes)) /\ overtaken \in BOOLEAN /\ timeouts \in Nat

\* A byte is of a packet or message that has begun, or was there from the start.
Known(b) == b.number \in 0 .. Len(history) /\ (b.number = 0 => b.at = 0)

BytesOK ==
    /\ \A a \in Addresses : Known(chip.fifo[a])
    /\ \A k \in 1 .. Len(buffer) : Known(buffer[k])

\* The FIFO holds a message of the satellite from its base on.
Loaded ==
    LET n == chip.fifo[0].number
    IN  /\ n \in 1 .. Len(history) /\ history[n].from = Local
        /\ chip.payload = Cut(n)
        /\ \A k \in 1 .. chip.payload : chip.fifo[k - 1] = Byte(n, k)

SendOK ==
    /\ pc = "transmit" /\ answers = "radio" => chip.mode = "standby" /\ Loaded
    /\ chip.mode = "tx" => pc = "wait" /\ Loaded
    /\ chip.mode = "tx" \/ (pc = "transmit" /\ answers = "radio") =>
        air = Nothing /\ "TX_DONE" \notin chip.irq
    /\ pc = "wait" /\ answers = "radio" => chip.mode \in {"standby", "tx"}

\* What was sent are messages of the satellite.
OnAirOK ==
    \A i \in 1 .. Len(onAir) :
        LET n == onAir[i][1].number
        IN  /\ n \in 1 .. Len(history) /\ history[n].from = Local
            /\ onAir[i] = [k \in 1 .. Cut(n) |-> Byte(n, k)]

\* Without a radio, or with DIO0 wired, the polling finds nothing.
DeafOK ==
    /\ answers # "radio" \/ wired =>
        /\ taken = <<>> /\ pc \notin Pipeline /\ "RX_DONE" \notin chip.irq /\ ~PacketFound
        /\ answers = "radio" => "RX_DONE" \notin irqFlags
    /\ answers # "radio" => chip.mode = "sleep" /\ air = Nothing

ModeOK ==
    /\ air # Nothing => Receiving
    /\ pc = "boot" => chip.mode = "sleep" /\ chip.irq = {} /\ taken = <<>>
    /\ chip.mode = "rx_continuous" => pc = "begin" /\ outgoing # <<>> /\ taken = <<>>
    /\ pc \in {"receive", "process"} => chip.mode = "standby" /\ air = Nothing
    /\ pc \in {"length", "address", "idle"} => "RX_DONE" \in irqFlags
    /\ pc \in {"length", "address", "idle", "receive"} => packetIndex = 0

\* All that was executed began before n, or was torn by n.
Before(n) ==
    \A i \in 1 .. Len(taken) :
        LET m == taken[i].bytes[1].number
        IN  m < n \/ (taken[i].torn /\ m = n)

\* What has come of the packet on the air is in the FIFO, from an address on that is the
\* base when the radio was armed for one packet.
Arriving(s) ==
    /\ chip.mode = "rx_single" => s = 0
    /\ chip.into = (s + air.got) % FifoSize
    /\ \A k \in 1 .. air.got : chip.fifo[(s + k - 1) % FifoSize] = Byte(air.number, k)

AirOK ==
    /\ air # Nothing =>
        /\ air.number \in 1 .. Len(history) /\ history[air.number] \in Packets
        /\ air.got =< history[air.number].size
        /\ \A i \in 1 .. Len(taken) : taken[i].bytes[1].number < air.number
        /\ \E s \in Addresses : Arriving(s)
    /\ air = Nothing /\ chip.mode = "rx_single" => chip.into = 0

\* The packet whose first byte is where the announced one was put; is all of it there?
Begun == chip.fifo[chip.current].number
Whole ==
    /\ Begun \in 1 .. Len(history) /\ chip.bytes = history[Begun].size /\ chip.bytes > 0
    /\ \A k \in 1 .. chip.bytes : chip.fifo[(chip.current + k - 1) % FifoSize] = Byte(Begun, k)

\* What was executed is older than that packet, or was torn by it.
Ordered == Before(Begun)

AnnouncedOK ==
    /\ Announced \/ pc = "receive" => Ordered
    /\ Announced /\ ~overtaken /\ answers = "radio" => Whole /\ (air = Nothing \/ air.got = 0)
    /\ Announced /\ chip.mode = "rx_single" => chip.current = 0

\* What core 0 has read is what is announced, unless that was overtaken; and a packet
\* that is announced meanwhile is a whole one at the base.
ReadOK ==
    /\ pc \in {"mode", "arm"} /\ "RX_DONE" \in chip.irq => chip.current = 0
    /\ pc = "clear" /\ "RX_DONE" \in chip.irq \ irqFlags => chip.current = 0
    /\ pc \in {"address", "idle", "receive"} /\ ~overtaken => packetLength = chip.bytes
    /\ pc \in {"idle", "receive"} => chip.pointer = chip.current
    /\ pc = "receive" /\ ~overtaken => Whole
    /\ pc \in Pipeline /\ "RX_DONE" \in chip.irq =>
        overtaken /\ chip.mode = "standby" /\ air = Nothing /\ chip.current = 0 /\ Whole

BufferOK ==
    pc = "process" =>
        /\ buffer # <<>> => Before(buffer[1].number)
        /\ buffer # <<>> /\ "RX_DONE" \in chip.irq => buffer[1] = chip.fifo[chip.current]
        /\ ~overtaken =>
            LET n == buffer[1].number
            IN  /\ n \in 1 .. Len(history)
                /\ buffer = [k \in 1 .. history[n].size |-> Byte(n, k)]

TakenOK ==
    /\ ExecutedWasSent
    /\ \A i \in 1 .. Len(taken) :
        /\ taken[i].bytes[1].number \in 1 .. Len(history)
        /\ taken[i].bytes[2].number \in 1 .. Len(history)

IInv == /\ TypesOK /\ BytesOK /\ SendOK /\ OnAirOK /\ DeafOK /\ ModeOK
        /\ AirOK /\ AnnouncedOK /\ ReadOK /\ BufferOK /\ TakenOK

-----------------------------------------------------------------------------
(* Addresses.                                                              *)

LEMMA Sizes ==
    /\ FifoSize \in Nat \ {0} /\ MaxPktLength \in Nat
    /\ 2 < MaxPktLength /\ MaxPktLength < FifoSize /\ 0 \in Addresses
  BY RadioAssumption DEF Addresses

LEMMA AddressOf ==
    ASSUME NEW n \in Int
    PROVE  n % FifoSize \in Addresses
  BY Sizes DEF Addresses

LEMMA ShortAddress ==
    ASSUME NEW a \in Addresses
    PROVE  a % FifoSize = a
  BY Sizes DEF Addresses

\* An address that has gone round at most once.
LEMMA Wrapped ==
    ASSUME NEW s \in Addresses, NEW g \in 0 .. FifoSize
    PROVE  (s + g) % FifoSize = IF s + g < FifoSize THEN s + g ELSE s + g - FifoSize
  BY Sizes DEF Addresses

LEMMA NextAddress ==
    ASSUME NEW s \in Addresses, NEW g \in Lengths
    PROVE  (((s + g) % FifoSize) + 1) % FifoSize = (s + (g + 1)) % FifoSize
<1>1. g \in 0 .. FifoSize /\ g + 1 \in 0 .. FifoSize /\ 1 \in 0 .. FifoSize
  BY Sizes DEF Lengths
<1>2. (s + g) % FifoSize \in Addresses
  BY <1>1, AddressOf DEF Addresses
<1>3. (((s + g) % FifoSize) + 1) % FifoSize
        = IF ((s + g) % FifoSize) + 1 < FifoSize THEN ((s + g) % FifoSize) + 1
          ELSE ((s + g) % FifoSize) + 1 - FifoSize
  BY <1>1, <1>2, Wrapped
<1>4. (s + g) % FifoSize = IF s + g < FifoSize THEN s + g ELSE s + g - FifoSize
  BY <1>1, Wrapped
<1>5. (s + (g + 1)) % FifoSize = IF s + (g + 1) < FifoSize THEN s + (g + 1) ELSE s + (g + 1) - FifoSize
  BY <1>1, Wrapped
<1> QED
  BY <1>1, <1>3, <1>4, <1>5, Sizes DEF Addresses

LEMMA StartAddress ==
    ASSUME NEW s \in Addresses, NEW g \in Lengths
    PROVE  (((s + g) % FifoSize) - g) % FifoSize = s
<1>1. g \in 0 .. FifoSize /\ g < FifoSize
  BY Sizes DEF Lengths
<1>2. (s + g) % FifoSize = IF s + g < FifoSize THEN s + g ELSE s + g - FifoSize
  BY <1>1, Wrapped
<1>3. CASE s + g < FifoSize
  BY <1>1, <1>2, <1>3, ShortAddress DEF Addresses
<1>4. CASE ~(s + g < FifoSize)
  <2>1. ((s + g) % FifoSize) - g = s - FifoSize
    BY <1>1, <1>2, <1>4, Sizes DEF Addresses
  <2>2. (s - FifoSize) % FifoSize = s
    BY Sizes DEF Addresses
  <2> QED
    BY <2>1, <2>2
<1> QED
  BY <1>3, <1>4

\* The next byte of a packet meets none of those before it.
LEMMA OtherAddress ==
    ASSUME NEW s \in Addresses, NEW g \in Lengths, NEW k \in 1 .. g
    PROVE  (s + k - 1) % FifoSize # (s + g) % FifoSize
<1>1. g \in 0 .. FifoSize /\ k - 1 \in 0 .. FifoSize /\ g < FifoSize /\ k - 1 < g
  BY Sizes DEF Lengths
<1>2. (s + g) % FifoSize = IF s + g < FifoSize THEN s + g ELSE s + g - FifoSize
  BY <1>1, Wrapped
<1>3. (s + (k - 1)) % FifoSize = IF s + (k - 1) < FifoSize THEN s + (k - 1) ELSE s + (k - 1) - FifoSize
  BY <1>1, Wrapped
<1>4. s + k - 1 = s + (k - 1)
  BY <1>1 DEF Addresses
<1> QED
  BY <1>1, <1>2, <1>3, <1>4, Sizes DEF Addresses

LEMMA MinOf ==
    ASSUME NEW a \in Int, NEW b \in Int
    PROVE  Min({a, b}) = IF a =< b THEN a ELSE b
<1>1. PICK m : m = IF a =< b THEN a ELSE b
  OBVIOUS
<1>2. \A x \in {a, b} : (\A y \in {a, b} : x =< y) <=> x = m
  BY <1>1
<1>3. m \in {a, b}
  BY <1>1
<1> QED
  BY <1>1, <1>2, <1>3 DEF Min

LEMMA MinOfThree ==
    ASSUME NEW a \in Int, NEW b \in Int, NEW c \in Int
    PROVE  Min({a, b, c}) \in {a, b, c} /\ Min({a, b, c}) =< a /\ Min({a, b, c}) =< b
           /\ Min({a, b, c}) =< c
<1>1. \E x \in {a, b, c} : \A y \in {a, b, c} : x =< y
  OBVIOUS
<1> QED
  BY <1>1 DEF Min

-----------------------------------------------------------------------------
(* The registers.                                                          *)

LEMMA ModeSet ==
    ASSUME NEW c \in Chips, NEW m \in Modes
    PROVE  /\ ToMode(c, m) \in Chips
           /\ ToMode(c, m).mode = m /\ ToMode(c, m).into = 0
           /\ ToMode(c, m).irq = c.irq /\ ToMode(c, m).fifo = c.fifo
           /\ ToMode(c, m).pointer = c.pointer /\ ToMode(c, m).payload = c.payload
           /\ ToMode(c, m).bytes = c.bytes /\ ToMode(c, m).current = c.current
  BY Sizes DEF ToMode, Chips

LEMMA Fields ==
    ASSUME NEW c \in Chips
    PROVE  /\ c.mode \in Modes /\ c.irq \in SUBSET Flags /\ c.fifo \in [Addresses -> Bytes]
           /\ c.pointer \in Addresses /\ c.payload \in Lengths /\ c.bytes \in Lengths
           /\ c.current \in Addresses /\ c.into \in Addresses
  BY DEF Chips

-----------------------------------------------------------------------------
(* What a step leaves as it was.                                           *)

\* What has begun is known for good.
Grown ==
    /\ Len(history') \in Nat /\ Len(history) \in Nat /\ Len(history) =< Len(history')
    /\ \A n \in 1 .. Len(history) : history'[n] = history[n]

LEMMA SameHistory ==
    ASSUME TypesOK, history' = history
    PROVE  Grown
  BY DEF TypesOK, Grown

LEMMA LongerHistory ==
    ASSUME TypesOK, NEW h \in Packets \cup Messages, history' = Append(history, h)
    PROVE  /\ Grown /\ history' \in Seq(Packets \cup Messages)
           /\ Len(history') = Len(history) + 1 /\ history'[Len(history) + 1] = h
  BY DEF TypesOK, Grown

LEMMA Entries ==
    ASSUME TypesOK, NEW n \in 1 .. Len(history)
    PROVE  /\ history[n] \in Packets \cup Messages
           /\ history[n] \in Packets => history[n].size \in 1 .. MaxPktLength /\ history[n].from # Local
           /\ history[n].from = Local => history[n] \in Messages
           /\ history[n] \in Messages => history[n].to = Remote /\ history[n].from = Local
                                         /\ history[n].size \in Nat /\ history[n].size >= 2
<1>1. history[n] \in Packets \cup Messages
  BY DEF TypesOK
<1>2. history[n] \in Packets => history[n].size \in 1 .. MaxPktLength /\ history[n].from # Local
  BY RadioAssumption
<1>3. history[n] \in Messages => history[n].to = Remote /\ history[n].from = Local
                                 /\ history[n].size \in Nat /\ history[n].size >= 2
  BY DEF Messages
<1> QED
  BY <1>1, <1>2, <1>3

LEMMA CutOf ==
    ASSUME TypesOK, NEW n \in 1 .. Len(history)
    PROVE  /\ Cut(n) \in 1 .. MaxPktLength /\ Cut(n) =< history[n].size
           /\ history[n] \in Messages => Cut(n) >= 2
<1>1. history[n].size \in Nat /\ history[n].size >= 1 /\ (history[n] \in Messages => history[n].size >= 2)
  BY Entries, Sizes
<1>2. Cut(n) = IF history[n].size =< MaxPktLength THEN history[n].size ELSE MaxPktLength
  BY <1>1, MinOf, Sizes DEF Cut
<1> QED
  BY <1>1, <1>2, Sizes

LEMMA OnAirStays ==
    ASSUME OnAirOK, Grown, onAir' = onAir
    PROVE  OnAirOK'
<1>1. ASSUME NEW i \in 1 .. Len(onAir), NEW n, n = onAir[i][1].number
      PROVE  /\ n \in 1 .. Len(history') /\ history'[n].from = Local
             /\ onAir[i] = [k \in 1 .. Min({history'[n].size, MaxPktLength}) |-> Byte(n, k)]
  <2>1. n \in 1 .. Len(history) /\ history[n].from = Local /\ onAir[i] = [k \in 1 .. Cut(n) |-> Byte(n, k)]
    BY <1>1 DEF OnAirOK
  <2>2. n \in 1 .. Len(history') /\ history'[n] = history[n]
    BY <2>1 DEF Grown
  <2> QED
    BY <2>1, <2>2 DEF Cut
<1> QED
  BY <1>1 DEF OnAirOK, Cut

LEMMA TakenStays ==
    ASSUME TypesOK, TakenOK, Grown, taken' = taken
    PROVE  TakenOK'
<1>1. \A i \in 1 .. Len(taken) :
        LET n == taken[i].bytes[1].number
            m == taken[i].bytes[2].number
        IN  n \in 1 .. Len(history') /\ m \in 1 .. Len(history')
            /\ history'[n] = history[n] /\ history'[m] = history[m]
  BY DEF TakenOK, Grown
<1>2. DOMAIN taken = 1 .. Len(taken)
  BY DEF TypesOK
<1>3. Range(taken) = {taken[i] : i \in 1 .. Len(taken)}
  BY <1>2 DEF Range
<1>4. ASSUME NEW i \in 1 .. Len(taken)
      PROVE  LET n == taken[i].bytes[1].number
             IN  /\ history'[n].to = Local /\ history'[n].from # Local
                 /\ history'[taken[i].bytes[2].number].from = Remote
                 /\ ~taken[i].torn => taken[i].bytes = [k \in 1 .. history'[n].size |-> Byte(n, k)]
  <2>1. PICK n : n = taken[i].bytes[1].number
    OBVIOUS
  <2>2. /\ history[n].to = Local /\ history[n].from # Local
        /\ history[taken[i].bytes[2].number].from = Remote
        /\ ~taken[i].torn => taken[i].bytes = [k \in 1 .. history[n].size |-> Byte(n, k)]
    <3>1. PICK t : t = taken[i] /\ t \in Range(taken)
      BY <1>3
    <3>2. /\ history[t.bytes[1].number].to = Local /\ history[t.bytes[1].number].from # Local
          /\ history[t.bytes[2].number].from = Remote
          /\ ~t.torn => t.bytes = [k \in 1 .. history[t.bytes[1].number].size |-> Byte(t.bytes[1].number, k)]
      BY <3>1 DEF TakenOK, ExecutedWasSent
    <3> QED
      BY <2>1, <3>1, <3>2
  <2>3. history'[n] = history[n] /\ history'[taken[i].bytes[2].number] = history[taken[i].bytes[2].number]
    BY <1>1, <2>1
  <2> QED
    BY <2>1, <2>2, <2>3
<1>5. ExecutedWasSent'
  <2>1. \A i, j \in DOMAIN taken :
          i < j => \/ taken[i].bytes[1].number < taken[j].bytes[1].number
                   \/ taken[i].torn /\ taken[i].bytes[1].number = taken[j].bytes[1].number
    BY DEF TakenOK, ExecutedWasSent
  <2> QED
    BY <1>3, <1>4, <2>1 DEF ExecutedWasSent
<1> QED
  BY <1>1, <1>5 DEF TakenOK

LEMMA KnownStays ==
    ASSUME Grown, NEW b, Known(b)
    PROVE  b.number \in 0 .. Len(history') /\ (b.number = 0 => b.at = 0)
  BY DEF Known, Grown

LEMMA BytesStay ==
    ASSUME BytesOK, Grown, chip'.fifo = chip.fifo, buffer' = buffer
    PROVE  BytesOK'
  BY KnownStays DEF BytesOK, Known

\* A step that moves neither a byte of the FIFO nor the places that tell where a packet is.
Still ==
    /\ Grown /\ UNCHANGED taken
    /\ chip'.fifo = chip.fifo /\ chip'.bytes = chip.bytes
    /\ chip'.current = chip.current /\ chip'.payload = chip.payload

LEMMA StillKeeps ==
    ASSUME IInv, Still
    PROVE  /\ TakenOK' /\ (onAir' = onAir => OnAirOK')
           /\ Loaded => Loaded'
           /\ Whole => Whole'
           /\ Ordered => Ordered'
<1>1. TypesOK /\ Grown /\ taken' = taken /\ OnAirOK /\ TakenOK
  BY DEF IInv, Still
<1>2. TakenOK' /\ (onAir' = onAir => OnAirOK')
  BY <1>1, OnAirStays, TakenStays
<1>3. ASSUME Loaded PROVE Loaded'
  <2>1. PICK n : n = chip.fifo[0].number
    OBVIOUS
  <2>2. n \in 1 .. Len(history) /\ history[n].from = Local /\ chip.payload = Cut(n)
        /\ \A k \in 1 .. chip.payload : chip.fifo[k - 1] = Byte(n, k)
    BY <1>3, <2>1 DEF Loaded
  <2>3. n \in 1 .. Len(history') /\ history'[n] = history[n]
    BY <1>1, <2>2 DEF Grown
  <2>4. Min({history'[n].size, MaxPktLength}) = Cut(n)
    BY <2>3 DEF Cut
  <2> QED
    BY <2>1, <2>2, <2>3, <2>4 DEF Loaded, Still, Cut
<1>4. ASSUME Whole PROVE Whole'
  <2>1. PICK n : n = Begun
    OBVIOUS
  <2>2. n \in 1 .. Len(history) /\ chip.bytes = history[n].size /\ chip.bytes > 0
        /\ \A k \in 1 .. chip.bytes : chip.fifo[(chip.current + k - 1) % FifoSize] = Byte(n, k)
    BY <1>4, <2>1 DEF Whole
  <2>3. n \in 1 .. Len(history') /\ history'[n] = history[n] /\ Begun' = n
    BY <1>1, <2>1, <2>2 DEF Grown, Still, Begun
  <2> QED
    BY <2>2, <2>3 DEF Whole, Still
<1>5. ASSUME Ordered PROVE Ordered'
  <2>1. Begun' = Begun
    BY DEF Still, Begun
  <2> QED
    BY <1>1, <1>5, <2>1 DEF Ordered, Before
<1> QED
  BY <1>2, <1>3, <1>4, <1>5

\* Also the packet on the air, or there is none.
LEMMA AirStays ==
    ASSUME IInv, Still, air' = air, chip'.into = chip.into,
           chip'.mode = "rx_single" => chip.mode = "rx_single"
    PROVE  AirOK'
<1>1. ASSUME air # Nothing
      PROVE  /\ air.number \in 1 .. Len(history') /\ history'[air.number] \in Packets
             /\ air.got =< history'[air.number].size
             /\ \A i \in 1 .. Len(taken') : taken'[i].bytes[1].number < air.number
  BY <1>1 DEF IInv, AirOK, Still, Grown
<1>2. ASSUME NEW s \in Addresses, Arriving(s) PROVE Arriving(s)'
  BY <1>2 DEF Arriving, Still
<1> QED
  BY <1>1, <1>2 DEF IInv, AirOK

LEMMA NoAir ==
    ASSUME air' = Nothing, chip'.mode = "rx_single" => chip'.into = 0
    PROVE  AirOK'
  BY DEF AirOK, Nothing

-----------------------------------------------------------------------------
(* Steps of core 0 that leave FIFO and history alone.                      *)

LEMMA InitInv == ASSUME Init PROVE IInv
<1>1. /\ chip.mode = "sleep" /\ chip.irq = {} /\ chip.fifo = [a \in Addresses |-> Byte(0, 0)]
      /\ chip \in Chips
  <2>1. Byte(0, 0) \in Bytes /\ 1 \in Lengths /\ 0 \in Lengths /\ 0 \in Addresses
    BY Sizes DEF Byte, Bytes, Lengths, Addresses
  <2>2. [a \in Addresses |-> Byte(0, 0)] \in [Addresses -> Bytes]
    BY <2>1
  <2> QED
    BY <2>1, <2>2 DEF Init, Chips, Modes, Flags, Addresses
<1>2. air = Nothing /\ Nothing \in [number : Nat, got : Lengths]
  BY Sizes DEF Init, Nothing, Lengths
<1>3. TypesOK
  <2>1. /\ answers \in {"radio", "low", "high"} /\ wired \in BOOLEAN /\ pc = "boot" /\ irqFlags = {}
        /\ outgoing = <<>> /\ buffer = <<>> /\ history = <<>> /\ taken = <<>> /\ onAir = <<>>
        /\ packetLength = 0 /\ packetIndex = 0 /\ overtaken = FALSE /\ timeouts = 0
    BY DEF Init
  <2>2. 0 \in Lengths
    BY Sizes DEF Lengths
  <2>3. pc \in Places /\ overtaken \in BOOLEAN /\ irqFlags \in SUBSET Flags
    BY <2>1 DEF Places
  <2>4. /\ outgoing \in Seq(Nat) /\ buffer \in Seq(Bytes) /\ onAir \in Seq(Seq(Bytes))
        /\ history \in Seq(Packets \cup Messages)
        /\ taken \in Seq([bytes : Seq(Bytes), torn : BOOLEAN])
    BY <2>1
  <2> QED
    BY <1>1, <1>2, <2>1, <2>2, <2>3, <2>4 DEF TypesOK
<1>4. BytesOK
  <2>1. buffer = <<>>
    BY DEF Init
  <2>2. history = <<>>
    BY DEF Init
  <2>3. \A a \in Addresses : chip.fifo[a].number = 0 /\ chip.fifo[a].at = 0
    BY <1>1 DEF Byte
  <2> QED
    BY <2>1, <2>2, <2>3 DEF BytesOK, Known
<1>5. SendOK /\ OnAirOK /\ DeafOK /\ ModeOK /\ AirOK /\ AnnouncedOK /\ ReadOK /\ BufferOK
  BY <1>1, <1>2 DEF Init, SendOK, OnAirOK, DeafOK, ModeOK, AirOK, AnnouncedOK, ReadOK, BufferOK,
     Announced, PacketFound, Pipeline
<1>6. TakenOK
  BY DEF Init, TakenOK, ExecutedWasSent, Range
<1> QED
  BY <1>3, <1>4, <1>5, <1>6 DEF IInv

LEMMA StutterKeeps == ASSUME IInv, UNCHANGED vars PROVE IInv'
<1>1. /\ UNCHANGED <<answers, wired, chip, air, pc, outgoing, irqFlags, packetLength, packetIndex, buffer>>
      /\ UNCHANGED <<history, taken, onAir, overtaken, timeouts>>
  BY DEF vars, driver, ghosts
<1>2. TypesOK' /\ BytesOK' /\ DeafOK' /\ ModeOK' /\ AirOK'
  <2>1. TypesOK' /\ BytesOK'
    BY <1>1 DEF IInv, TypesOK, BytesOK, Known
  <2>2. DeafOK' /\ ModeOK'
    BY <1>1 DEF IInv, DeafOK, PacketFound, ModeOK, Receiving
  <2>3. AirOK'
    BY <1>1 DEF IInv, AirOK, Arriving
  <2> QED
    BY <2>1, <2>2, <2>3
<1>3. /\ Loaded' = Loaded /\ Whole' = Whole /\ Ordered' = Ordered /\ Announced' = Announced
  BY <1>1 DEF Loaded, Cut, Whole, Begun, Ordered, Before, Announced
<1>4. SendOK' /\ AnnouncedOK' /\ ReadOK'
  BY <1>1, <1>3 DEF IInv, SendOK, AnnouncedOK, ReadOK
<1>5. BufferOK' /\ TakenOK'
  BY <1>1 DEF IInv, BufferOK, Before, TakenOK, ExecutedWasSent
<1>6. OnAirOK'
  BY <1>1, SameHistory, OnAirStays DEF IInv
<1> QED
  BY <1>2, <1>4, <1>5, <1>6 DEF IInv

LEMMA InitializeKeeps == ASSUME IInv, InitializeRadio PROVE IInv'
<1>1. /\ pc = "boot" /\ pc' = "begin" /\ outgoing' = BootSizes
      /\ UNCHANGED <<answers, wired, air, irqFlags, packetLength, packetIndex, buffer>>
      /\ UNCHANGED <<history, taken, onAir, overtaken, timeouts>>
  BY DEF InitializeRadio, driver, ghosts
<1>2. TypesOK /\ chip \in Chips
  BY DEF IInv, TypesOK
<1>3. /\ chip' \in Chips /\ chip'.irq = chip.irq /\ chip'.fifo = chip.fifo
      /\ chip'.bytes = chip.bytes /\ chip'.payload = chip.payload
      /\ answers = "radio" => chip'.mode = "rx_continuous"
      /\ answers # "radio" => chip' = chip
  <2>1. PICK c : c = ToMode(chip, "standby")
    OBVIOUS
  <2>2. /\ c \in Chips /\ c.irq = chip.irq /\ c.fifo = chip.fifo /\ c.bytes = chip.bytes
        /\ c.payload = chip.payload
    BY <1>2, <2>1, ModeSet DEF Modes
  <2>3. PICK d : d = [c EXCEPT !.pointer = 0, !.current = 0]
    OBVIOUS
  <2>4. /\ d \in Chips /\ d.irq = chip.irq /\ d.fifo = chip.fifo /\ d.bytes = chip.bytes
        /\ d.payload = chip.payload
    BY <2>2, <2>3, Sizes DEF Chips
  <2>5. chip' = IF answers = "radio" THEN ToMode(d, "rx_continuous") ELSE chip
    BY <2>1, <2>3 DEF InitializeRadio, Begin, ReceiveContinuously
  <2>6. /\ ToMode(d, "rx_continuous") \in Chips /\ ToMode(d, "rx_continuous").mode = "rx_continuous"
        /\ ToMode(d, "rx_continuous").irq = d.irq /\ ToMode(d, "rx_continuous").fifo = d.fifo
        /\ ToMode(d, "rx_continuous").bytes = d.bytes /\ ToMode(d, "rx_continuous").payload = d.payload
    BY <2>4, ModeSet DEF Modes
  <2> QED
    BY <1>2, <2>4, <2>5, <2>6
<1>4. TypesOK'
  BY <1>1, <1>2, <1>3, RadioAssumption DEF TypesOK, Places
<1>5. chip.mode = "sleep" /\ chip.irq = {} /\ air = Nothing /\ taken = <<>>
  BY <1>1 DEF IInv, ModeOK, Receiving
<1>6. BytesOK' /\ OnAirOK' /\ TakenOK'
  BY <1>1, <1>2, <1>3, SameHistory, BytesStay, OnAirStays, TakenStays DEF IInv
<1>7. SendOK' /\ DeafOK' /\ ModeOK'
  BY <1>1, <1>3, <1>5, RadioAssumption DEF IInv, SendOK, DeafOK, ModeOK, PacketFound, Pipeline, Receiving
<1>8. AirOK'
  BY <1>1, <1>3, <1>5 DEF AirOK, Nothing
<1>9. AnnouncedOK' /\ ReadOK' /\ BufferOK'
  BY <1>1, <1>3, <1>5 DEF IInv, AnnouncedOK, ReadOK, BufferOK, Announced, Pipeline, Ordered, Before, DeafOK
<1> QED
  BY <1>4, <1>6, <1>7, <1>8, <1>9 DEF IInv

\* What every step leaves to show that moves no byte, no packet and no entry.
LEMMA Quiet ==
    ASSUME IInv, UNCHANGED <<history, taken>>,
           chip'.fifo = chip.fifo, chip'.bytes = chip.bytes,
           chip'.current = chip.current, chip'.payload = chip.payload
    PROVE  /\ Still /\ TakenOK' /\ (onAir' = onAir => OnAirOK')
           /\ Loaded => Loaded'
           /\ Whole => Whole'
           /\ Ordered => Ordered'
<1>1. Still
  BY SameHistory DEF IInv, Still
<1> QED
  BY <1>1, StillKeeps

LEMMA EndPacketKeeps == ASSUME IInv, EndPacket PROVE IInv'
<1>1. /\ pc = "transmit" /\ pc' = "wait"
      /\ UNCHANGED <<answers, wired, air, outgoing, irqFlags, packetLength, packetIndex, buffer>>
      /\ UNCHANGED <<history, taken, onAir, overtaken, timeouts>>
      /\ chip' = IF answers = "radio" THEN ToMode(chip, "tx") ELSE chip
  BY DEF EndPacket, Set, driver, ghosts
<1>2. TypesOK /\ chip \in Chips
  BY DEF IInv, TypesOK
<1>3. /\ chip' \in Chips /\ chip'.irq = chip.irq /\ chip'.fifo = chip.fifo /\ chip'.bytes = chip.bytes
      /\ chip'.payload = chip.payload /\ chip'.current = chip.current
      /\ answers = "radio" => chip'.mode = "tx"
      /\ answers # "radio" => chip' = chip
  BY <1>1, <1>2, ModeSet DEF Modes
<1>4. TypesOK'
  BY <1>1, <1>2, <1>3 DEF TypesOK, Places
<1>5. /\ Still /\ OnAirOK' /\ TakenOK' /\ (Loaded => Loaded') /\ (Whole => Whole') /\ (Ordered => Ordered')
  BY <1>1, <1>3, <1>4, Quiet
<1>6. BytesOK'
  BY <1>1, <1>3, <1>5, BytesStay DEF IInv, Still
<1>7. AirOK'
  <2>1. answers = "radio" => air' = Nothing /\ chip'.mode # "rx_single"
    BY <1>1, <1>3 DEF IInv, SendOK
  <2> QED
    BY <1>1, <1>3, <1>5, <2>1, AirStays, NoAir
<1>8. SendOK' /\ DeafOK' /\ ModeOK'
  BY <1>1, <1>3, <1>5 DEF IInv, SendOK, DeafOK, ModeOK, PacketFound, Pipeline, Receiving
<1>9. AnnouncedOK' /\ ReadOK' /\ BufferOK'
  BY <1>1, <1>3, <1>5 DEF IInv, SendOK, DeafOK, AnnouncedOK, ReadOK, BufferOK, Announced, Pipeline
<1> QED
  BY <1>4, <1>5, <1>6, <1>7, <1>8, <1>9 DEF IInv

LEMMA TxDoneKeeps == ASSUME IInv, TxDone PROVE IInv'
<1>1. /\ pc = "wait" /\ pc' = "begin" /\ "TX_DONE" \in IrqFlags
      /\ UNCHANGED <<answers, wired, air, outgoing, irqFlags, packetLength, packetIndex, buffer>>
      /\ UNCHANGED <<history, taken, onAir, overtaken, timeouts>>
      /\ chip' = IF answers = "radio" THEN [chip EXCEPT !.irq = @ \ {"TX_DONE"}] ELSE chip
  BY DEF TxDone, Set, driver, ghosts
<1>2. TypesOK /\ chip \in Chips
  BY DEF IInv, TypesOK
<1>3. /\ chip' \in Chips /\ chip'.mode = chip.mode /\ chip'.fifo = chip.fifo /\ chip'.bytes = chip.bytes
      /\ chip'.payload = chip.payload /\ chip'.current = chip.current /\ chip'.into = chip.into
      /\ "RX_DONE" \in chip'.irq <=> "RX_DONE" \in chip.irq
      /\ answers # "radio" => chip' = chip
  BY <1>1, <1>2 DEF Chips
<1>4. TypesOK'
  BY <1>1, <1>2, <1>3 DEF TypesOK, Places
<1>5. /\ Still /\ OnAirOK' /\ TakenOK' /\ (Loaded => Loaded') /\ (Whole => Whole') /\ (Ordered => Ordered')
  BY <1>1, <1>3, <1>4, Quiet
<1>6. BytesOK'
  BY <1>1, <1>3, <1>5, BytesStay DEF IInv, Still
<1>7. AirOK'
  BY <1>1, <1>3, <1>5, AirStays
<1>8. chip.mode # "tx"
  BY <1>1 DEF IInv, SendOK, IrqFlags, DeafOK
<1>9. SendOK' /\ DeafOK' /\ ModeOK'
  BY <1>1, <1>3, <1>5, <1>8 DEF IInv, SendOK, DeafOK, ModeOK, PacketFound, Pipeline, Receiving
<1>10. AnnouncedOK' /\ ReadOK' /\ BufferOK'
  BY <1>1, <1>3, <1>5 DEF IInv, AnnouncedOK, ReadOK, BufferOK, Announced, Pipeline
<1> QED
  BY <1>4, <1>5, <1>6, <1>7, <1>9, <1>10 DEF IInv

\* AllSent, ReadFlags, ReadLength and ReadMode write no register.
LEMMA NoWriteKeeps ==
    ASSUME IInv, TypesOK', UNCHANGED <<answers, wired, chip, air, outgoing>>,
           UNCHANGED <<packetIndex, buffer, history, taken, onAir, overtaken, timeouts>>
    PROVE  /\ BytesOK' /\ AirOK' /\ OnAirOK' /\ TakenOK' /\ Begun' = Begun
           /\ Loaded => Loaded'
           /\ Whole => Whole'
           /\ Ordered => Ordered'
<1>1. /\ Still /\ OnAirOK' /\ TakenOK' /\ (Loaded => Loaded') /\ (Whole => Whole') /\ (Ordered => Ordered')
  BY Quiet
<1>2. BytesOK'
  BY <1>1, BytesStay DEF IInv, Still
<1>3. AirOK'
  BY <1>1, AirStays
<1> QED
  BY <1>1, <1>2, <1>3 DEF Begun

LEMMA AllSentKeeps == ASSUME IInv, AllSent PROVE IInv'
<1>1. /\ pc = "begin" /\ pc' = "poll" /\ outgoing = <<>>
      /\ UNCHANGED <<answers, wired, chip, air, outgoing, irqFlags, packetLength>>
      /\ UNCHANGED <<packetIndex, buffer, history, taken, onAir, overtaken, timeouts>>
  BY DEF AllSent, driver, ghosts
<1>2. TypesOK'
  BY <1>1 DEF IInv, TypesOK, Places
<1>3. /\ BytesOK' /\ AirOK' /\ OnAirOK' /\ TakenOK' /\ (Loaded => Loaded') /\ (Whole => Whole')
      /\ (Ordered => Ordered')
  BY <1>1, <1>2, NoWriteKeeps
<1>4. SendOK' /\ DeafOK' /\ ModeOK'
  BY <1>1, <1>3 DEF IInv, SendOK, DeafOK, ModeOK, PacketFound, Pipeline, Receiving
<1>5. AnnouncedOK' /\ ReadOK' /\ BufferOK'
  BY <1>1, <1>3 DEF IInv, AnnouncedOK, ReadOK, BufferOK, Announced, Pipeline
<1> QED
  BY <1>2, <1>3, <1>4, <1>5 DEF IInv

LEMMA ReadFlagsKeeps == ASSUME IInv, ReadFlags PROVE IInv'
<1>1. /\ pc = "poll" /\ pc' = "clear" /\ irqFlags' = IrqFlags
      /\ UNCHANGED <<answers, wired, chip, air, outgoing, packetLength>>
      /\ UNCHANGED <<packetIndex, buffer, history, taken, onAir, overtaken, timeouts>>
  BY DEF ReadFlags, ghosts
<1>2. /\ IrqFlags \in SUBSET Flags
      /\ answers = "radio" => IrqFlags = chip.irq
      /\ answers = "low" => IrqFlags = {}
      /\ answers = "high" => IrqFlags = Flags
  BY DEF IInv, TypesOK, Chips, IrqFlags
<1>3. TypesOK'
  BY <1>1, <1>2 DEF IInv, TypesOK, Places
<1>4. /\ BytesOK' /\ AirOK' /\ OnAirOK' /\ TakenOK' /\ (Loaded => Loaded') /\ (Whole => Whole')
      /\ (Ordered => Ordered')
  BY <1>1, <1>3, NoWriteKeeps
<1>5. SendOK' /\ ModeOK'
  BY <1>1, <1>4 DEF IInv, SendOK, ModeOK, Receiving
<1>6. DeafOK'
  BY <1>1, <1>2 DEF IInv, TypesOK, DeafOK, PacketFound, Pipeline, Flags
<1>7. answers # "radio" => Ordered'
  BY <1>1 DEF IInv, DeafOK, Ordered, Before
<1>8. answers # "radio" => chip.mode = "sleep" /\ "RX_DONE" \notin chip.irq
  BY DEF IInv, DeafOK
<1>9. AnnouncedOK' /\ ReadOK' /\ BufferOK'
  BY <1>1, <1>2, <1>4, <1>7, <1>8 DEF IInv, AnnouncedOK, ReadOK, BufferOK, Announced, Pipeline
<1> QED
  BY <1>3, <1>4, <1>5, <1>6, <1>9 DEF IInv

LEMMA ReadLengthKeeps == ASSUME IInv, ReadLength PROVE IInv'
<1>1. /\ pc = "length" /\ pc' = "address" /\ packetLength' = chip.bytes
      /\ UNCHANGED <<answers, wired, chip, air, outgoing, irqFlags>>
      /\ UNCHANGED <<packetIndex, buffer, history, taken, onAir, overtaken, timeouts>>
  BY DEF ReadLength, ghosts
<1>2. TypesOK'
  BY <1>1, Fields DEF IInv, TypesOK, Places, Pipeline
<1>3. /\ BytesOK' /\ AirOK' /\ OnAirOK' /\ TakenOK' /\ (Loaded => Loaded') /\ (Whole => Whole')
      /\ (Ordered => Ordered')
  BY <1>1, <1>2, NoWriteKeeps
<1>4. SendOK' /\ DeafOK' /\ ModeOK'
  BY <1>1, <1>3 DEF IInv, SendOK, DeafOK, ModeOK, PacketFound, Pipeline, Receiving
<1>5. AnnouncedOK' /\ ReadOK' /\ BufferOK'
  BY <1>1, <1>3 DEF IInv, AnnouncedOK, ReadOK, BufferOK, Announced, Pipeline
<1> QED
  BY <1>2, <1>3, <1>4, <1>5 DEF IInv

LEMMA ReadModeKeeps == ASSUME IInv, ReadMode PROVE IInv'
<1>1. /\ pc = "mode" /\ pc' \in {"poll", "arm"}
      /\ UNCHANGED <<answers, wired, chip, air, outgoing, irqFlags, packetLength>>
      /\ UNCHANGED <<packetIndex, buffer, history, taken, onAir, overtaken, timeouts>>
  BY DEF ReadMode, driver, ghosts
<1>2. TypesOK'
  BY <1>1 DEF IInv, TypesOK, Places
<1>3. /\ BytesOK' /\ AirOK' /\ OnAirOK' /\ TakenOK' /\ (Loaded => Loaded') /\ (Whole => Whole')
      /\ (Ordered => Ordered')
  BY <1>1, <1>2, NoWriteKeeps
<1>4. SendOK' /\ DeafOK' /\ ModeOK'
  BY <1>1, <1>3 DEF IInv, SendOK, DeafOK, ModeOK, PacketFound, Pipeline, Receiving
<1>5. AnnouncedOK' /\ ReadOK' /\ BufferOK'
  BY <1>1, <1>3 DEF IInv, AnnouncedOK, ReadOK, BufferOK, Announced, Pipeline
<1> QED
  BY <1>2, <1>3, <1>4, <1>5 DEF IInv

LEMMA ClearFlagsKeeps == ASSUME IInv, ClearFlags PROVE IInv'
<1>1. /\ pc = "clear" /\ pc' = IF PacketFound THEN "length" ELSE "mode"
      /\ packetIndex' = IF PacketFound THEN 0 ELSE packetIndex
      /\ chip' = IF answers = "radio" THEN [chip EXCEPT !.irq = @ \ irqFlags] ELSE chip
      /\ overtaken' = (overtaken /\ (PacketFound \/ "RX_DONE" \in chip.irq \ irqFlags))
      /\ UNCHANGED <<answers, wired, air, outgoing, irqFlags, packetLength, buffer>>
      /\ UNCHANGED <<history, taken, onAir, timeouts>>
  BY DEF ClearFlags, Set
<1>2. TypesOK /\ chip \in Chips /\ irqFlags \in SUBSET Flags
  BY DEF IInv, TypesOK
<1>3. /\ chip' \in Chips /\ chip'.mode = chip.mode /\ chip'.fifo = chip.fifo /\ chip'.bytes = chip.bytes
      /\ chip'.payload = chip.payload /\ chip'.current = chip.current /\ chip'.into = chip.into
      /\ answers = "radio" => chip'.irq = chip.irq \ irqFlags
      /\ answers # "radio" => chip' = chip
  BY <1>1, <1>2 DEF Chips
<1>4. TypesOK'
  <2>1. overtaken' \in BOOLEAN /\ pc' \in Places /\ packetIndex' \in Lengths
    BY <1>1, <1>2, Sizes DEF TypesOK, Places, Pipeline, Lengths
  <2> QED
    BY <1>1, <1>2, <1>3, <2>1 DEF TypesOK
<1>5. /\ Still /\ OnAirOK' /\ TakenOK' /\ (Loaded => Loaded') /\ (Whole => Whole') /\ (Ordered => Ordered')
  BY <1>1, <1>3, <1>4, Quiet
<1>6. BytesOK'
  BY <1>1, <1>3, <1>5, BytesStay DEF IInv, Still
<1>7. AirOK'
  BY <1>1, <1>3, <1>5, AirStays
<1>8. PacketFound' = PacketFound /\ (PacketFound => "RX_DONE" \in irqFlags)
  BY <1>1 DEF PacketFound
<1>9. answers # "radio" => ~PacketFound /\ "RX_DONE" \notin chip.irq
  BY DEF IInv, DeafOK
<1>10. SendOK' /\ DeafOK' /\ ModeOK'
  BY <1>1, <1>3, <1>5, <1>8, <1>9 DEF IInv, SendOK, DeafOK, ModeOK, Pipeline, Receiving
<1>11. AnnouncedOK' /\ BufferOK'
  BY <1>1, <1>3, <1>5, <1>8, <1>9 DEF IInv, AnnouncedOK, BufferOK, Announced, Pipeline
<1>12. ReadOK'
  BY <1>1, <1>3, <1>5, <1>8, <1>9 DEF IInv, ReadOK, Pipeline
<1> QED
  BY <1>4, <1>5, <1>6, <1>7, <1>10, <1>11, <1>12 DEF IInv

LEMMA SetAddressKeeps == ASSUME IInv, SetAddress PROVE IInv'
<1>1. /\ pc = "address" /\ pc' = "idle" /\ chip' = [chip EXCEPT !.pointer = chip.current]
      /\ UNCHANGED <<answers, wired, air, outgoing, irqFlags, packetLength, packetIndex, buffer>>
      /\ UNCHANGED <<history, taken, onAir, overtaken, timeouts>>
  BY DEF SetAddress, driver, ghosts
<1>2. TypesOK /\ chip \in Chips
  BY DEF IInv, TypesOK
<1>3. /\ chip' \in Chips /\ chip'.mode = chip.mode /\ chip'.fifo = chip.fifo /\ chip'.bytes = chip.bytes
      /\ chip'.payload = chip.payload /\ chip'.current = chip.current /\ chip'.into = chip.into
      /\ chip'.irq = chip.irq /\ chip'.pointer = chip.current
  BY <1>1, <1>2 DEF Chips
<1>4. TypesOK'
  BY <1>1, <1>2, <1>3 DEF TypesOK, Places, Pipeline
<1>5. /\ Still /\ OnAirOK' /\ TakenOK' /\ (Loaded => Loaded') /\ (Whole => Whole') /\ (Ordered => Ordered')
  BY <1>1, <1>3, <1>4, Quiet
<1>6. BytesOK'
  BY <1>1, <1>3, <1>5, BytesStay DEF IInv, Still
<1>7. AirOK'
  BY <1>1, <1>3, <1>5, AirStays
<1>8. SendOK' /\ DeafOK' /\ ModeOK'
  BY <1>1, <1>3, <1>5 DEF IInv, SendOK, DeafOK, ModeOK, PacketFound, Pipeline, Receiving
<1>9. AnnouncedOK' /\ ReadOK' /\ BufferOK'
  BY <1>1, <1>3, <1>5 DEF IInv, AnnouncedOK, ReadOK, BufferOK, Announced, Pipeline
<1> QED
  BY <1>4, <1>5, <1>6, <1>7, <1>8, <1>9 DEF IInv

LEMMA IdleKeeps == ASSUME IInv, Idle PROVE IInv'
<1>1. /\ pc = "idle" /\ pc' = (IF packetLength = 0 THEN "poll" ELSE "receive")
      /\ chip' = ToMode(chip, "standby") /\ air' = Nothing
      /\ UNCHANGED <<answers, wired, outgoing, irqFlags, packetLength, packetIndex, buffer>>
      /\ UNCHANGED <<history, taken, onAir, overtaken, timeouts>>
  BY DEF Idle, driver, ghosts
<1>2. TypesOK /\ chip \in Chips
  BY DEF IInv, TypesOK
<1>3. /\ chip' \in Chips /\ chip'.mode = "standby" /\ chip'.fifo = chip.fifo /\ chip'.bytes = chip.bytes
      /\ chip'.payload = chip.payload /\ chip'.current = chip.current
      /\ chip'.irq = chip.irq /\ chip'.pointer = chip.pointer
  BY <1>1, <1>2, ModeSet DEF Modes
<1>4. TypesOK'
  BY <1>1, <1>2, <1>3, Sizes DEF TypesOK, Places, Pipeline, Nothing, Lengths
<1>5. /\ Still /\ OnAirOK' /\ TakenOK' /\ (Loaded => Loaded') /\ (Whole => Whole') /\ (Ordered => Ordered')
  BY <1>1, <1>3, <1>4, Quiet
<1>6. BytesOK'
  BY <1>1, <1>3, <1>5, BytesStay DEF IInv, Still
<1>7. AirOK'
  BY <1>1, <1>3, NoAir
<1>8. SendOK' /\ DeafOK' /\ ModeOK'
  BY <1>1, <1>3, <1>5 DEF IInv, SendOK, DeafOK, ModeOK, PacketFound, Pipeline, Receiving
<1>9. answers = "radio" /\ "RX_DONE" \in irqFlags /\ Announced
  BY <1>1 DEF IInv, DeafOK, ModeOK, Announced, Pipeline
<1>10. AnnouncedOK' /\ ReadOK' /\ BufferOK'
  BY <1>1, <1>3, <1>5, <1>9 DEF IInv, AnnouncedOK, ReadOK, BufferOK, Announced, Pipeline
<1> QED
  BY <1>4, <1>5, <1>6, <1>7, <1>8, <1>10 DEF IInv

LEMMA ArmKeeps == ASSUME IInv, Arm PROVE IInv'
<1>1. /\ pc = "arm" /\ pc' = "poll" /\ air' = Nothing
      /\ chip' = IF answers = "radio" THEN [ToMode(chip, "rx_single") EXCEPT !.pointer = 0] ELSE chip
      /\ UNCHANGED <<answers, wired, outgoing, irqFlags, packetLength, packetIndex, buffer>>
      /\ UNCHANGED <<history, taken, onAir, overtaken, timeouts>>
  BY DEF Arm, Set, driver, ghosts
<1>2. TypesOK /\ chip \in Chips
  BY DEF IInv, TypesOK
<1>3. /\ chip' \in Chips /\ chip'.fifo = chip.fifo /\ chip'.bytes = chip.bytes
      /\ chip'.payload = chip.payload /\ chip'.current = chip.current /\ chip'.irq = chip.irq
      /\ answers = "radio" => chip'.mode = "rx_single" /\ chip'.into = 0
      /\ answers # "radio" => chip' = chip
  <2>1. PICK c : c = ToMode(chip, "rx_single")
    OBVIOUS
  <2>2. /\ c \in Chips /\ c.fifo = chip.fifo /\ c.bytes = chip.bytes /\ c.payload = chip.payload
        /\ c.current = chip.current /\ c.irq = chip.irq /\ c.mode = "rx_single" /\ c.into = 0
    BY <1>2, <2>1, ModeSet DEF Modes
  <2>3. chip' = IF answers = "radio" THEN [c EXCEPT !.pointer = 0] ELSE chip
    BY <1>1, <2>1
  <2> QED
    BY <1>2, <2>2, <2>3, Sizes DEF Chips
<1>4. TypesOK'
  BY <1>1, <1>2, <1>3, Sizes DEF TypesOK, Places, Nothing, Lengths
<1>5. /\ Still /\ OnAirOK' /\ TakenOK' /\ (Loaded => Loaded') /\ (Whole => Whole') /\ (Ordered => Ordered')
  BY <1>1, <1>3, <1>4, Quiet
<1>6. BytesOK'
  BY <1>1, <1>3, <1>5, BytesStay DEF IInv, Still
<1>7. answers # "radio" => chip'.mode = "sleep"
  BY <1>3 DEF IInv, DeafOK
<1>8. AirOK'
  BY <1>1, <1>2, <1>3, <1>7, NoAir DEF TypesOK
<1>9. SendOK' /\ DeafOK' /\ ModeOK'
  BY <1>1, <1>3, <1>5 DEF IInv, SendOK, DeafOK, ModeOK, PacketFound, Pipeline, Receiving
<1>10. AnnouncedOK' /\ ReadOK' /\ BufferOK'
  BY <1>1, <1>3, <1>5, <1>7 DEF IInv, AnnouncedOK, ReadOK, BufferOK, Announced, Pipeline
<1> QED
  BY <1>4, <1>5, <1>6, <1>8, <1>9, <1>10 DEF IInv

-----------------------------------------------------------------------------
(* Executing.                                                              *)

\* on_receive reads as much as was announced, from where that begins.
LEMMA ReadsOut ==
    ASSUME IInv, OnReceive
    PROVE  \E n \in Lengths :
             /\ n =< packetLength /\ (packetLength = chip.bytes => n = chip.bytes)
             /\ buffer' = [k \in 1 .. n |-> chip.fifo[(chip.current + k - 1) % FifoSize]]
             /\ chip' = [chip EXCEPT !.pointer = (@ + n) % FifoSize] /\ packetIndex' = n
<1>1. PICK n : n = Min({packetLength, chip.bytes - packetIndex, MaxPktLength})
  OBVIOUS
<1>2. packetIndex = 0 /\ chip.pointer = chip.current
  BY DEF IInv, ModeOK, ReadOK, OnReceive
<1>3. packetLength \in Lengths /\ chip.bytes \in Lengths
  BY Fields DEF IInv, TypesOK
<1>4. n \in {packetLength, chip.bytes, MaxPktLength} /\ n =< packetLength /\ n =< chip.bytes
  <2>1. /\ packetLength \in Int /\ chip.bytes - packetIndex \in Int /\ MaxPktLength \in Int
        /\ chip.bytes - packetIndex = chip.bytes
    BY <1>2, <1>3, Sizes DEF Lengths
  <2> QED
    BY <1>1, <2>1, MinOfThree
<1>5. n \in Lengths /\ (packetLength = chip.bytes => n = chip.bytes)
  BY <1>3, <1>4, Sizes DEF Lengths
<1>6. /\ buffer' = Fifo(chip.pointer, n) /\ packetIndex' = 0 + n
      /\ chip' = [chip EXCEPT !.pointer = (@ + n) % FifoSize]
  BY <1>1, <1>2 DEF OnReceive
<1>7. buffer' = [k \in 1 .. n |-> chip.fifo[(chip.current + k - 1) % FifoSize]]
  BY <1>2, <1>6 DEF Fifo
<1>8. packetIndex' = n
  BY <1>5, <1>6 DEF Lengths
<1> QED
  BY <1>4, <1>5, <1>6, <1>7, <1>8

LEMMA OnReceiveKeeps == ASSUME IInv, OnReceive PROVE IInv'
<1>1. /\ pc = "receive" /\ pc' = "process"
      /\ UNCHANGED <<answers, wired, air, outgoing, irqFlags, packetLength>>
      /\ UNCHANGED <<history, taken, onAir, overtaken, timeouts>>
  BY DEF OnReceive, ghosts
<1>2. PICK n \in Lengths :
        /\ n =< packetLength /\ (packetLength = chip.bytes => n = chip.bytes)
        /\ buffer' = [k \in 1 .. n |-> chip.fifo[(chip.current + k - 1) % FifoSize]]
        /\ chip' = [chip EXCEPT !.pointer = (@ + n) % FifoSize] /\ packetIndex' = n
  BY ReadsOut
<1>3. TypesOK /\ chip \in Chips /\ chip.fifo \in [Addresses -> Bytes] /\ chip.current \in Addresses
  BY Fields DEF IInv, TypesOK
<1>4. (chip.pointer + n) % FifoSize \in Addresses
  <2>1. chip.pointer + n \in Int
    BY <1>3, Fields, Sizes DEF Addresses, Lengths
  <2> QED
    BY <2>1, AddressOf
<1>5. /\ chip' \in Chips /\ chip'.mode = chip.mode /\ chip'.fifo = chip.fifo /\ chip'.bytes = chip.bytes
      /\ chip'.payload = chip.payload /\ chip'.current = chip.current /\ chip'.into = chip.into
      /\ chip'.irq = chip.irq
  BY <1>2, <1>3, <1>4 DEF Chips
<1>6. \A k \in 1 .. n : (chip.current + k - 1) % FifoSize \in Addresses
  <2>1. \A k \in 1 .. n : chip.current + k - 1 \in Int
    BY <1>3 DEF Addresses, Lengths
  <2> QED
    BY <2>1, AddressOf
<1>7. Len(buffer') = n /\ buffer' \in Seq(Bytes) /\ n \in Nat
  BY <1>2, <1>3, <1>6 DEF Lengths
<1>8. TypesOK'
  BY <1>1, <1>2, <1>3, <1>5, <1>7 DEF TypesOK, Places, Pipeline
<1>9. /\ Still /\ OnAirOK' /\ TakenOK' /\ (Loaded => Loaded') /\ (Whole => Whole') /\ (Ordered => Ordered')
  BY <1>1, <1>5, <1>8, Quiet
<1>10. BytesOK'
  <2>1. \A k \in 1 .. n : Known(buffer'[k])
    BY <1>2, <1>6 DEF IInv, BytesOK
  <2> QED
    BY <1>1, <1>5, <1>7, <2>1 DEF IInv, BytesOK, Known
<1>11. AirOK'
  BY <1>1, <1>5, <1>9, AirStays
<1>12. SendOK' /\ DeafOK' /\ ModeOK'
  BY <1>1, <1>5, <1>9 DEF IInv, SendOK, DeafOK, ModeOK, PacketFound, Pipeline, Receiving
<1>13. AnnouncedOK' /\ ReadOK'
  BY <1>1, <1>5, <1>9 DEF IInv, AnnouncedOK, ReadOK, Announced, Pipeline
<1>14. buffer' # <<>> => buffer'[1] = chip.fifo[chip.current]
  <2>1. buffer' # <<>> => 1 \in 1 .. n
    BY <1>7
  <2>2. (chip.current + 1 - 1) % FifoSize = chip.current
    <3>1. chip.current + 1 - 1 = chip.current
      BY <1>3 DEF Addresses
    <3> QED
      BY <1>3, <3>1, ShortAddress
  <2> QED
    BY <1>2, <2>1, <2>2
<1>15. BufferOK'
  <2>1. ASSUME buffer' # <<>>
        PROVE  \A i \in 1 .. Len(taken') :
                 LET m == taken'[i].bytes[1].number
                 IN  m < buffer'[1].number \/ (taken'[i].torn /\ m = buffer'[1].number)
    <3>1. buffer'[1].number = Begun
      BY <1>14, <2>1 DEF Begun
    <3>2. Before(Begun)
      BY <1>1 DEF IInv, AnnouncedOK, Ordered
    <3> QED
      BY <1>1, <3>1, <3>2 DEF Before
  <2>2. ASSUME ~overtaken
        PROVE  LET m == buffer'[1].number
               IN  m \in 1 .. Len(history') /\ buffer' = [k \in 1 .. history'[m].size |-> Byte(m, k)]
    <3>1. Whole /\ n = chip.bytes /\ n > 0
      BY <1>1, <1>2, <2>2 DEF IInv, ReadOK, Whole
    <3>2. PICK m : m = Begun
      OBVIOUS
    <3>3. /\ m \in 1 .. Len(history) /\ n = history[m].size
          /\ \A k \in 1 .. n : chip.fifo[(chip.current + k - 1) % FifoSize] = Byte(m, k)
      BY <3>1, <3>2 DEF Whole
    <3>4. buffer' = [k \in 1 .. n |-> Byte(m, k)]
      BY <1>2, <3>3
    <3>5. buffer'[1].number = m
      BY <1>7, <1>14, <3>1, <3>2 DEF Begun
    <3> QED
      BY <1>1, <3>3, <3>4, <3>5
  <2> QED
    BY <1>1, <1>5, <1>14, <2>1, <2>2 DEF BufferOK, Before
<1> QED
  BY <1>8, <1>9, <1>10, <1>11, <1>12, <1>13, <1>15 DEF IInv

\* What is accepted is headed by a packet for the satellite, and by its address of the ground.
LEMMA AcceptedBytes ==
    ASSUME IInv, Accepted
    PROVE  LET n == buffer[1].number
               m == buffer[2].number
           IN  /\ Len(buffer) > 2 /\ n \in 1 .. Len(history) /\ m \in 1 .. Len(history)
               /\ history[n].to = Local /\ history[n].from # Local /\ history[m].from = Remote
<1>1. PICK n : n = buffer[1].number
  OBVIOUS
<1>2. PICK m : m = buffer[2].number
  OBVIOUS
<1>3. Len(buffer) \in Nat /\ Len(buffer) > 2 /\ 1 \in 1 .. Len(buffer) /\ 2 \in 1 .. Len(buffer)
  BY DEF IInv, TypesOK, Accepted
<1>4. Known(buffer[1]) /\ Known(buffer[2])
  BY <1>3 DEF IInv, BytesOK
<1>5. To(buffer[1]) = Local /\ From(buffer[2]) = Remote
  BY DEF Accepted
<1>6. buffer[1].at = 1 /\ history[n].to = Local
  BY <1>1, <1>5 DEF To, Local
<1>7. buffer[2].at = 2 /\ history[m].from = Remote
  BY <1>2, <1>5 DEF From, Remote
<1>8. n \in 1 .. Len(history) /\ m \in 1 .. Len(history)
  <2>1. Len(history) \in Nat
    BY DEF IInv, TypesOK
  <2> QED
    BY <1>1, <1>2, <1>4, <1>6, <1>7, <2>1 DEF Known
<1>9. history[n].from # Local
  <2>1. TypesOK
    BY DEF IInv
  <2>2. history[n].from = Local => history[n].to = Remote
    BY <1>8, <2>1, Entries
  <2> QED
    BY <1>6, <2>2 DEF Local, Remote
<1> QED
  BY <1>1, <1>2, <1>3, <1>6, <1>7, <1>8, <1>9

LEMMA TakesOne ==
    ASSUME IInv, ProcessPacket, Accepted
    PROVE  TakenOK' /\ taken' \in Seq([bytes : Seq(Bytes), torn : BOOLEAN])
           /\ (Announced' => Ordered')
<1>1. /\ pc = "process" /\ pc' = "begin"
      /\ taken' = Append(taken, [bytes |-> buffer, torn |-> overtaken])
      /\ UNCHANGED <<chip, history>>
  BY DEF ProcessPacket
<1>2. PICK t : t = [bytes |-> buffer, torn |-> overtaken]
  OBVIOUS
<1>3. PICK n : n = buffer[1].number
  OBVIOUS
<1>4. PICK m : m = buffer[2].number
  OBVIOUS
<1>5. /\ Len(buffer) > 2 /\ n \in 1 .. Len(history) /\ m \in 1 .. Len(history)
      /\ history[n].to = Local /\ history[n].from # Local /\ history[m].from = Remote
  BY <1>3, <1>4, AcceptedBytes
<1>6. t \in [bytes : Seq(Bytes), torn : BOOLEAN] /\ t.bytes = buffer /\ t.torn = overtaken
      /\ t.bytes[1].number = n /\ t.bytes[2].number = m
  BY <1>2, <1>3, <1>4 DEF IInv, TypesOK
<1>7. /\ taken \in Seq([bytes : Seq(Bytes), torn : BOOLEAN]) /\ taken' = Append(taken, t)
      /\ Len(taken) \in Nat /\ Len(taken') = Len(taken) + 1
      /\ taken' \in Seq([bytes : Seq(Bytes), torn : BOOLEAN])
      /\ taken'[Len(taken) + 1] = t /\ \A i \in 1 .. Len(taken) : taken'[i] = taken[i]
      /\ DOMAIN taken' = 1 .. (Len(taken) + 1) /\ DOMAIN taken = 1 .. Len(taken)
  <2>1. taken \in Seq([bytes : Seq(Bytes), torn : BOOLEAN])
    BY DEF IInv, TypesOK
  <2> QED
    BY <1>1, <1>2, <1>6, <2>1
<1>8. buffer # <<>>
  BY <1>5 DEF IInv, TypesOK
<1>9. Before(n) /\ (~overtaken => buffer = [k \in 1 .. history[n].size |-> Byte(n, k)])
  BY <1>1, <1>3, <1>8 DEF IInv, BufferOK
<1>10. ExecutedWasSent'
  <2>1. ASSUME NEW u \in Range(taken')
        PROVE  LET x == u.bytes[1].number
               IN  /\ history[x].to = Local /\ history[x].from # Local
                   /\ history[u.bytes[2].number].from = Remote
                   /\ ~u.torn => u.bytes = [k \in 1 .. history[x].size |-> Byte(x, k)]
    <3>1. PICK i \in 1 .. (Len(taken) + 1) : u = taken'[i]
      BY <1>7 DEF Range
    <3>2. CASE i = Len(taken) + 1
      BY <1>5, <1>6, <1>7, <1>9, <3>1, <3>2
    <3>3. CASE i \in 1 .. Len(taken)
      <4>1. u \in Range(taken)
        BY <1>7, <3>1, <3>3 DEF Range
      <4> QED
        BY <4>1 DEF IInv, TakenOK, ExecutedWasSent
    <3>4. i = Len(taken) + 1 \/ i \in 1 .. Len(taken)
      <4>1. Len(taken) \in Nat
        BY <1>7
      <4> QED
        BY <4>1
    <3> QED
      BY <3>2, <3>3, <3>4
  <2>2. ASSUME NEW i \in 1 .. (Len(taken) + 1), NEW j \in 1 .. (Len(taken) + 1), i < j
        PROVE  \/ taken'[i].bytes[1].number < taken'[j].bytes[1].number
               \/ taken'[i].torn /\ taken'[i].bytes[1].number = taken'[j].bytes[1].number
    <3>1. i \in 1 .. Len(taken) /\ taken'[i] = taken[i]
      BY <1>7, <2>2
    <3>2. CASE j = Len(taken) + 1
      <4>1. taken'[j].bytes[1].number = n
        BY <1>6, <1>7, <3>2
      <4>2. taken[i].bytes[1].number < n \/ (taken[i].torn /\ taken[i].bytes[1].number = n)
        BY <1>9, <3>1 DEF Before
      <4>3. taken'[i].bytes[1].number < n \/ (taken'[i].torn /\ taken'[i].bytes[1].number = n)
        BY <3>1, <4>2
      <4> QED
        BY <4>1, <4>3
    <3>3. CASE j \in 1 .. Len(taken)
      <4>1. i \in DOMAIN taken /\ j \in DOMAIN taken /\ taken'[j] = taken[j]
        BY <1>7, <3>1, <3>3
      <4>2. \/ taken[i].bytes[1].number < taken[j].bytes[1].number
            \/ taken[i].torn /\ taken[i].bytes[1].number = taken[j].bytes[1].number
        BY <2>2, <4>1 DEF IInv, TakenOK, ExecutedWasSent
      <4> QED
        BY <3>1, <4>1, <4>2
    <3> QED
      BY <1>7, <3>2, <3>3
  <2> QED
    BY <1>1, <1>7, <2>1, <2>2 DEF ExecutedWasSent
<1>11. TakenOK'
  <2>1. ASSUME NEW i \in 1 .. Len(taken')
        PROVE  taken'[i].bytes[1].number \in 1 .. Len(history) /\ taken'[i].bytes[2].number \in 1 .. Len(history)
    <3>1. i = Len(taken) + 1 \/ i \in 1 .. Len(taken)
      BY <1>7
    <3> QED
      BY <1>5, <1>6, <1>7, <3>1 DEF IInv, TakenOK
  <2> QED
    BY <1>1, <1>10, <2>1 DEF TakenOK
<1>12. ASSUME Announced' PROVE Ordered'
  <2>1. "RX_DONE" \in chip.irq
    BY <1>1, <1>12 DEF Announced
  <2>2. Announced
    BY <2>1 DEF Announced
  <2>3. overtaken /\ buffer[1] = chip.fifo[chip.current] /\ Before(Begun)
    BY <1>1, <1>8, <2>1, <2>2 DEF IInv, ReadOK, BufferOK, AnnouncedOK, Ordered, Pipeline
  <2>4. n = Begun /\ Begun' = Begun
    BY <1>1, <1>3, <2>3 DEF Begun
  <2>5. \A i \in 1 .. Len(taken') :
          LET x == taken'[i].bytes[1].number
          IN  x < n \/ (taken'[i].torn /\ x = n)
    <3>1. ASSUME NEW i \in 1 .. Len(taken')
          PROVE  taken'[i].bytes[1].number < n \/ (taken'[i].torn /\ taken'[i].bytes[1].number = n)
      <4>1. i = Len(taken) + 1 \/ i \in 1 .. Len(taken)
        BY <1>7
      <4> QED
        BY <1>6, <1>7, <1>9, <2>3, <4>1 DEF Before
    <3> QED
      BY <3>1
  <2> QED
    BY <2>4, <2>5 DEF Ordered, Before
<1> QED
  BY <1>7, <1>11, <1>12

LEMMA ProcessPacketKeeps == ASSUME IInv, ProcessPacket PROVE IInv'
<1>1. /\ pc = "process" /\ pc' = "begin" /\ overtaken' = FALSE /\ buffer' = <<>>
      /\ UNCHANGED <<answers, wired, chip, air, irqFlags, packetLength, packetIndex>>
      /\ UNCHANGED <<history, onAir, timeouts>>
      /\ Accepted => outgoing' \in Replies
      /\ ~Accepted => UNCHANGED <<taken, outgoing>>
  BY DEF ProcessPacket
<1>2. TypesOK /\ Grown
  BY <1>1, SameHistory DEF IInv
<1>3. TakenOK' /\ (Announced' => Ordered')
  <2>1. ASSUME ~Accepted PROVE TakenOK' /\ (Announced' => Ordered')
    <3>1. TakenOK'
      BY <1>1, <1>2, <2>1, TakenStays DEF IInv
    <3>2. Ordered' = Ordered /\ (Announced' => Announced)
      BY <1>1, <2>1 DEF Ordered, Before, Begun, Announced
    <3> QED
      BY <3>1, <3>2 DEF IInv, AnnouncedOK
  <2> QED
    BY <2>1, TakesOne
<1>4. TypesOK'
  <2>1. outgoing' \in Seq(Nat) /\ taken' \in Seq([bytes : Seq(Bytes), torn : BOOLEAN])
    <3>1. CASE Accepted
      <4>1. outgoing' \in Replies /\ Replies \subseteq Seq(Nat)
        BY <1>1, <3>1, RadioAssumption
      <4> QED
        BY <3>1, <4>1, TakesOne
    <3>2. CASE ~Accepted
      BY <1>1, <1>2, <3>2 DEF TypesOK
    <3> QED
      BY <3>1, <3>2
  <2>2. overtaken' \in BOOLEAN /\ pc' \in Places
    BY <1>1 DEF Places
  <2>3. buffer' \in Seq(Bytes)
    BY <1>1
  <2> QED
    BY <1>1, <1>2, <2>1, <2>2, <2>3 DEF TypesOK
<1>5. OnAirOK' /\ BytesOK'
  BY <1>1, <1>2, OnAirStays DEF IInv, BytesOK, Known
<1>6. /\ chip.mode = "standby" /\ air = Nothing /\ answers = "radio" /\ ~wired
  BY <1>1 DEF IInv, ModeOK, DeafOK, Pipeline
<1>7. AirOK'
  BY <1>1, <1>6, NoAir
<1>8. SendOK' /\ DeafOK' /\ ModeOK'
  BY <1>1, <1>6 DEF SendOK, DeafOK, ModeOK, Receiving
<1>9. AnnouncedOK' /\ ReadOK' /\ BufferOK'
  <2>1. Announced' => "RX_DONE" \in chip.irq
    BY <1>1 DEF Announced
  <2>2. Announced' => Whole'
    BY <1>1, <2>1 DEF IInv, ReadOK, Whole, Begun, Pipeline
  <2> QED
    BY <1>1, <1>3, <1>6, <2>2 DEF AnnouncedOK, ReadOK, BufferOK, Pipeline
<1> QED
  BY <1>3, <1>4, <1>5, <1>7, <1>8, <1>9 DEF IInv

-----------------------------------------------------------------------------
(* The radio.                                                              *)

LEMMA ReceiveTimeoutKeeps == ASSUME IInv, ReceiveTimeout PROVE IInv'
<1>1. /\ chip.mode = "rx_single" /\ air = Nothing /\ timeouts' = timeouts + 1
      /\ chip' = [chip EXCEPT !.mode = "standby", !.irq = @ \cup {"RX_TIMEOUT"}]
      /\ UNCHANGED <<answers, wired, air, pc, outgoing, irqFlags, packetLength, packetIndex, buffer>>
      /\ UNCHANGED <<history, taken, onAir, overtaken>>
  BY DEF ReceiveTimeout, driver, ghosts
<1>2. TypesOK /\ chip \in Chips
  BY DEF IInv, TypesOK
<1>3. /\ chip' \in Chips /\ chip'.mode = "standby" /\ chip'.fifo = chip.fifo /\ chip'.bytes = chip.bytes
      /\ chip'.payload = chip.payload /\ chip'.current = chip.current /\ chip'.pointer = chip.pointer
      /\ "RX_DONE" \in chip'.irq <=> "RX_DONE" \in chip.irq
      /\ "TX_DONE" \in chip'.irq <=> "TX_DONE" \in chip.irq
  BY <1>1, <1>2 DEF Chips, Modes, Flags
<1>4. TypesOK'
  BY <1>1, <1>2, <1>3 DEF TypesOK
<1>5. /\ Still /\ OnAirOK' /\ TakenOK' /\ (Loaded => Loaded') /\ (Whole => Whole') /\ (Ordered => Ordered')
  BY <1>1, <1>3, <1>4, Quiet
<1>6. BytesOK'
  BY <1>1, <1>3, <1>5, BytesStay DEF IInv, Still
<1>7. AirOK'
  BY <1>1, <1>3, NoAir
<1>8. pc \notin {"boot", "transmit", "wait", "receive", "process"} /\ answers = "radio"
  BY <1>1 DEF IInv, SendOK, DeafOK, ModeOK
<1>9. SendOK' /\ DeafOK' /\ ModeOK'
  BY <1>1, <1>3, <1>5, <1>8 DEF IInv, SendOK, DeafOK, ModeOK, PacketFound, Pipeline, Receiving
<1>10. AnnouncedOK' /\ ReadOK' /\ BufferOK'
  BY <1>1, <1>3, <1>5, <1>8 DEF IInv, AnnouncedOK, ReadOK, BufferOK, Announced, Pipeline
<1> QED
  BY <1>4, <1>5, <1>6, <1>7, <1>9, <1>10 DEF IInv

\* What is sent is what core 0 loaded.
LEMMA SendsLoaded ==
    ASSUME IInv, Loaded
    PROVE  LET n == chip.fifo[0].number
           IN  /\ n \in 1 .. Len(history) /\ history[n].from = Local
               /\ Fifo(0, chip.payload) = [k \in 1 .. Cut(n) |-> Byte(n, k)]
               /\ Fifo(0, chip.payload) \in Seq(Bytes)
               /\ Fifo(0, chip.payload)[1].number = n
<1>1. PICK n : n = chip.fifo[0].number
  OBVIOUS
<1>2. /\ n \in 1 .. Len(history) /\ history[n].from = Local /\ chip.payload = Cut(n)
      /\ \A k \in 1 .. chip.payload : chip.fifo[k - 1] = Byte(n, k)
  BY <1>1 DEF Loaded
<1>3. TypesOK /\ Cut(n) \in 1 .. MaxPktLength /\ n \in Nat
  BY <1>2, CutOf DEF IInv, TypesOK
<1>4. \A k \in 1 .. Cut(n) : chip.fifo[(0 + k - 1) % FifoSize] = Byte(n, k)
  <2>1. ASSUME NEW k \in 1 .. Cut(n) PROVE chip.fifo[(0 + k - 1) % FifoSize] = Byte(n, k)
    <3>1. 0 + k - 1 = k - 1 /\ k - 1 \in Addresses
      BY <1>3, Sizes DEF Addresses
    <3> QED
      BY <1>2, <3>1, ShortAddress
  <2> QED
    BY <2>1
<1>5. Fifo(0, chip.payload) = [k \in 1 .. Cut(n) |-> Byte(n, k)]
  BY <1>2, <1>4 DEF Fifo
<1>6. Fifo(0, chip.payload)[1].number = n
  BY <1>3, <1>5, Sizes DEF Byte
<1>7. \A k \in 1 .. Cut(n) : Byte(n, k) \in Bytes
  BY <1>3 DEF Byte, Bytes
<1>8. Fifo(0, chip.payload) \in Seq(Bytes)
  BY <1>3, <1>5, <1>7, Sizes
<1> QED
  BY <1>1, <1>2, <1>5, <1>6, <1>8

LEMMA Transmits ==
    ASSUME IInv, Loaded, onAir' = Append(onAir, Fifo(0, chip.payload)), UNCHANGED history
    PROVE  OnAirOK' /\ onAir' \in Seq(Seq(Bytes))
<1> DEFINE t == Fifo(0, chip.payload)
           n == chip.fifo[0].number
<1>1. /\ n \in 1 .. Len(history) /\ history[n].from = Local /\ t = [k \in 1 .. Cut(n) |-> Byte(n, k)]
      /\ t \in Seq(Bytes) /\ t[1].number = n
  BY SendsLoaded
<1> HIDE DEF t, n
<1>2. onAir \in Seq(Seq(Bytes)) /\ OnAirOK /\ onAir' = Append(onAir, t)
  BY DEF IInv, TypesOK, t
<1>3. /\ onAir' \in Seq(Seq(Bytes)) /\ Len(onAir') = Len(onAir) + 1 /\ Len(onAir) \in Nat
      /\ onAir'[Len(onAir) + 1] = t /\ \A i \in 1 .. Len(onAir) : onAir'[i] = onAir[i]
  BY <1>1, <1>2
<1>4. ASSUME NEW i \in 1 .. Len(onAir'), NEW m, m = onAir'[i][1].number
      PROVE  /\ m \in 1 .. Len(history) /\ history[m].from = Local
             /\ onAir'[i] = [k \in 1 .. Cut(m) |-> Byte(m, k)]
  <2>1. CASE i = Len(onAir) + 1
    BY <1>1, <1>3, <1>4, <2>1
  <2>2. CASE i # Len(onAir) + 1
    <3>1. i \in 1 .. Len(onAir) /\ onAir'[i] = onAir[i]
      BY <1>3, <2>2
    <3> QED
      BY <1>2, <1>4, <3>1 DEF OnAirOK
  <2> QED
    BY <2>1, <2>2
<1> QED
  BY <1>3, <1>4 DEF OnAirOK, Cut

LEMMA TransmitDoneKeeps == ASSUME IInv, TransmitDone PROVE IInv'
<1>1. /\ chip.mode = "tx" /\ onAir' = Append(onAir, Fifo(0, chip.payload))
      /\ chip' = [chip EXCEPT !.mode = "standby", !.irq = @ \cup {"TX_DONE"}]
      /\ UNCHANGED <<answers, wired, air, pc, outgoing, irqFlags, packetLength, packetIndex, buffer>>
      /\ UNCHANGED <<history, taken, overtaken, timeouts>>
  BY DEF TransmitDone, driver
<1>2. TypesOK /\ chip \in Chips
  BY DEF IInv, TypesOK
<1>3. /\ chip' \in Chips /\ chip'.mode = "standby" /\ chip'.fifo = chip.fifo /\ chip'.bytes = chip.bytes
      /\ chip'.payload = chip.payload /\ chip'.current = chip.current /\ chip'.pointer = chip.pointer
      /\ "RX_DONE" \in chip'.irq <=> "RX_DONE" \in chip.irq
  BY <1>1, <1>2 DEF Chips, Modes, Flags
<1>4. pc = "wait" /\ Loaded /\ air = Nothing /\ answers = "radio"
  BY <1>1 DEF IInv, SendOK, DeafOK
<1>5. OnAirOK' /\ onAir' \in Seq(Seq(Bytes))
  BY <1>1, <1>4, Transmits
<1>6. TypesOK'
  BY <1>1, <1>2, <1>3, <1>5 DEF TypesOK
<1>7. /\ Still /\ TakenOK' /\ (Whole => Whole') /\ (Ordered => Ordered')
  BY <1>1, <1>3, Quiet
<1>8. BytesOK'
  BY <1>1, <1>3, <1>7, BytesStay DEF IInv, Still
<1>9. AirOK'
  BY <1>1, <1>3, <1>4, NoAir
<1>10. SendOK' /\ DeafOK' /\ ModeOK'
  BY <1>1, <1>3, <1>4 DEF IInv, SendOK, DeafOK, ModeOK, PacketFound, Pipeline, Receiving
<1>11. AnnouncedOK' /\ ReadOK' /\ BufferOK'
  BY <1>1, <1>3, <1>4, <1>7 DEF IInv, AnnouncedOK, ReadOK, BufferOK, Announced, Pipeline
<1> QED
  BY <1>5, <1>6, <1>7, <1>8, <1>9, <1>10, <1>11 DEF IInv

LEMMA PacketBeginsKeeps == ASSUME IInv, NEW p \in Packets, PacketBegins(p) PROVE IInv'
<1>1. /\ history' = Append(history, p)
      /\ air' = IF Receiving /\ air = Nothing THEN [number |-> Len(history) + 1, got |-> 0] ELSE air
      /\ UNCHANGED <<answers, wired, chip, pc, outgoing, irqFlags, packetLength, packetIndex, buffer>>
      /\ UNCHANGED <<taken, onAir, overtaken, timeouts>>
  BY DEF PacketBegins, driver
<1>2. TypesOK /\ Len(history) \in Nat
  BY DEF IInv, TypesOK
<1>3. /\ Grown /\ history' \in Seq(Packets \cup Messages) /\ Len(history') = Len(history) + 1
      /\ history'[Len(history) + 1] = p
  BY <1>1, <1>2, LongerHistory
<1>4. [number |-> Len(history) + 1, got |-> 0] \in [number : Nat, got : Lengths]
  BY <1>2, Sizes DEF Lengths
<1>5. TypesOK'
  BY <1>1, <1>2, <1>3, <1>4 DEF TypesOK
<1>6. Still
  BY <1>1, <1>3 DEF Still
<1>7. OnAirOK' /\ TakenOK' /\ (Loaded => Loaded') /\ (Whole => Whole') /\ (Ordered => Ordered')
  BY <1>1, <1>6, StillKeeps
<1>8. BytesOK'
  BY <1>1, <1>3, BytesStay DEF IInv
<1>9. CASE ~(Receiving /\ air = Nothing)
  <2>1. air' = air
    BY <1>1, <1>9
  <2>2. AirOK'
    BY <1>1, <1>6, <2>1, AirStays
  <2>3. SendOK' /\ DeafOK' /\ ModeOK'
    BY <1>1, <1>7, <2>1 DEF IInv, SendOK, DeafOK, ModeOK, PacketFound, Pipeline, Receiving
  <2>4. AnnouncedOK' /\ ReadOK'
    BY <1>1, <1>7, <2>1 DEF IInv, AnnouncedOK, ReadOK, Announced, Pipeline
  <2>5. BufferOK'
    <3>1. ASSUME pc = "process", ~overtaken
          PROVE  LET n == buffer[1].number
                 IN  n \in 1 .. Len(history') /\ buffer = [k \in 1 .. history'[n].size |-> Byte(n, k)]
      <4>1. PICK n : n = buffer[1].number
        OBVIOUS
      <4>2. n \in 1 .. Len(history) /\ buffer = [k \in 1 .. history[n].size |-> Byte(n, k)]
        BY <3>1, <4>1 DEF IInv, BufferOK
      <4>3. n \in 1 .. Len(history') /\ history'[n] = history[n]
        BY <1>3, <4>2 DEF Grown
      <4> QED
        BY <4>1, <4>2, <4>3
    <3> QED
      BY <1>1, <3>1 DEF IInv, BufferOK, Before
  <2> QED
    BY <1>5, <1>7, <1>8, <2>2, <2>3, <2>4, <2>5 DEF IInv
<1>10. CASE Receiving /\ air = Nothing
  <2>1. air' = [number |-> Len(history) + 1, got |-> 0] /\ air' # Nothing
    BY <1>1, <1>2, <1>10 DEF Nothing
  <2>2. /\ chip.mode \in {"rx_continuous", "rx_single"} /\ chip.into \in Addresses
        /\ pc \notin {"boot", "receive", "process", "transmit"} /\ answers = "radio"
    BY <1>2, <1>10, Fields DEF IInv, TypesOK, SendOK, DeafOK, ModeOK, Receiving
  <2>3. AirOK'
    <3>1. \A i \in 1 .. Len(taken) : taken[i].bytes[1].number < Len(history) + 1
      BY <1>2 DEF IInv, TakenOK
    <3>2. Arriving(chip.into)'
      <4>1. chip.into + 0 = chip.into /\ chip.into % FifoSize = chip.into
        BY <2>2, ShortAddress DEF Addresses
      <4>2. chip.mode = "rx_single" => chip.into = 0
        BY <1>10 DEF IInv, AirOK
      <4>3. air'.got = 0
        BY <2>1
      <4> QED
        BY <1>1, <4>1, <4>2, <4>3 DEF Arriving
    <3>3. history'[air'.number] = p /\ air'.number \in 1 .. Len(history') /\ air'.got =< p.size
      BY <1>2, <1>3, <2>1, RadioAssumption
    <3>4. \E s \in Addresses : Arriving(s)'
      BY <1>1, <2>2, <3>2
    <3> QED
      BY <1>1, <2>1, <3>1, <3>3, <3>4 DEF AirOK
  <2>4. SendOK' /\ DeafOK' /\ ModeOK'
    BY <1>1, <1>10, <2>2 DEF IInv, SendOK, DeafOK, ModeOK, PacketFound, Pipeline, Receiving
  <2>5. AnnouncedOK' /\ ReadOK' /\ BufferOK'
    BY <1>1, <1>7, <2>1, <2>2 DEF IInv, AnnouncedOK, ReadOK, BufferOK, Announced, Pipeline
  <2> QED
    BY <1>5, <1>7, <1>8, <2>3, <2>4, <2>5 DEF IInv
<1> QED
  BY <1>9, <1>10

\* Where a byte may be received.
LEMMA OnTheAir ==
    ASSUME IInv, air # Nothing
    PROVE  /\ answers = "radio" /\ chip.mode \in {"rx_continuous", "rx_single"}
           /\ pc \notin {"boot", "transmit", "wait", "receive", "process"}
           /\ pc # "begin" => chip.mode = "rx_single"
           /\ air.number \in 1 .. Len(history) /\ air.got \in Lengths
           /\ history[air.number].size \in 1 .. MaxPktLength
           /\ \A i \in 1 .. Len(taken) : taken[i].bytes[1].number < air.number
<1>1. answers = "radio" /\ chip.mode \in {"rx_continuous", "rx_single"}
  BY DEF IInv, DeafOK, ModeOK, Receiving
<1>2. pc \notin {"boot", "transmit", "wait", "receive", "process"} /\ (pc # "begin" => chip.mode = "rx_single")
  BY <1>1 DEF IInv, SendOK, ModeOK
<1>3. /\ air.number \in 1 .. Len(history) /\ history[air.number] \in Packets
      /\ \A i \in 1 .. Len(taken) : taken[i].bytes[1].number < air.number
  BY DEF IInv, AirOK
<1>4. air.got \in Lengths /\ history[air.number].size \in 1 .. MaxPktLength
  BY <1>3, RadioAssumption DEF IInv, TypesOK
<1> QED
  BY <1>1, <1>2, <1>3, <1>4

LEMMA ReceiveKeeps == ASSUME IInv, Receive PROVE IInv'
<1>1. PICK n : n = air.number
  OBVIOUS
<1>2. PICK g : g = air.got
  OBVIOUS
<1>3. /\ air # Nothing /\ g < history[n].size
      /\ chip' = [chip EXCEPT !.fifo[chip.into] = Byte(n, g + 1), !.into = (chip.into + 1) % FifoSize]
      /\ air' = [air EXCEPT !.got = @ + 1]
      /\ overtaken' = (overtaken \/ Announced)
      /\ UNCHANGED <<answers, wired, pc, outgoing, irqFlags, packetLength, packetIndex, buffer>>
      /\ UNCHANGED <<history, taken, onAir, timeouts>>
  BY <1>1, <1>2 DEF Receive, driver
<1>4. /\ answers = "radio" /\ chip.mode \in {"rx_continuous", "rx_single"}
      /\ pc \notin {"boot", "transmit", "wait", "receive", "process"}
      /\ n \in 1 .. Len(history) /\ g \in Lengths /\ history[n].size \in 1 .. MaxPktLength
      /\ \A i \in 1 .. Len(taken) : taken[i].bytes[1].number < n
  BY <1>1, <1>2, <1>3, OnTheAir
<1>5. /\ TypesOK /\ chip \in Chips /\ chip.fifo \in [Addresses -> Bytes] /\ chip.into \in Addresses
      /\ chip.current \in Addresses /\ Len(history) \in Nat
  BY Fields DEF IInv, TypesOK
<1>6. g + 1 \in Lengths /\ n \in Nat /\ g \in Nat
  <2>1. PICK size : size = history[n].size
    OBVIOUS
  <2>2. size \in 1 .. MaxPktLength /\ g < size /\ g \in 0 .. MaxPktLength
    BY <1>3, <1>4, <2>1 DEF Lengths
  <2> QED
    BY <1>4, <1>5, <2>2, Sizes DEF Lengths
<1>7. Byte(n, g + 1) \in Bytes /\ Byte(n, g + 1).number = n
  BY <1>6 DEF Byte, Bytes, Lengths
<1>8. (chip.into + 1) % FifoSize \in Addresses
  <2>1. chip.into + 1 \in Int
    BY <1>5 DEF Addresses
  <2> QED
    BY <2>1, AddressOf
<1>9. /\ chip' \in Chips /\ chip'.mode = chip.mode /\ chip'.bytes = chip.bytes /\ chip'.irq = chip.irq
      /\ chip'.payload = chip.payload /\ chip'.current = chip.current /\ chip'.pointer = chip.pointer
      /\ chip'.into = (chip.into + 1) % FifoSize
      /\ chip'.fifo = [chip.fifo EXCEPT ![chip.into] = Byte(n, g + 1)]
  <2>1. PICK f : f = [chip.fifo EXCEPT ![chip.into] = Byte(n, g + 1)]
    OBVIOUS
  <2>2. f \in [Addresses -> Bytes]
    BY <1>5, <1>7, <2>1
  <2>3. chip' = [chip EXCEPT !.fifo = f, !.into = (chip.into + 1) % FifoSize]
    BY <1>3, <2>1
  <2> QED
    BY <1>5, <1>8, <2>1, <2>2, <2>3 DEF Chips
<1>10. /\ chip'.fifo[chip.into] = Byte(n, g + 1)
       /\ \A a \in Addresses : a # chip.into => chip'.fifo[a] = chip.fifo[a]
  BY <1>5, <1>9
<1>11. /\ air' \in [number : Nat, got : Lengths] /\ air'.number = n /\ air'.got = g + 1
       /\ air' # Nothing
  <2>1. air \in [number : Nat, got : Lengths]
    BY <1>5 DEF TypesOK
  <2>2. air' = [air EXCEPT !.got = g + 1]
    BY <1>2, <1>3
  <2>3. /\ air' \in [number : Nat, got : Lengths] /\ air'.number = n /\ air'.got = g + 1
    BY <1>1, <1>6, <2>1, <2>2
  <2>4. g + 1 # 0
    BY <1>6
  <2> QED
    BY <2>3, <2>4 DEF Nothing
<1>12. overtaken' \in BOOLEAN /\ (overtaken => overtaken')
  BY <1>3, <1>5 DEF TypesOK, Announced
<1>13. TypesOK'
  BY <1>3, <1>5, <1>9, <1>11, <1>12 DEF TypesOK
<1>14. Grown /\ OnAirOK' /\ TakenOK'
  BY <1>3, <1>5, SameHistory, OnAirStays, TakenStays DEF IInv
<1>15. BytesOK'
  <2>1. Known(Byte(n, g + 1))
    BY <1>4, <1>5 DEF Known, Byte
  <2>2. \A a \in Addresses : Known(chip'.fifo[a])
    BY <1>10, <2>1 DEF IInv, BytesOK
  <2> QED
    BY <1>3, <2>2 DEF IInv, BytesOK, Known
<1>16. AirOK'
  <2>1. PICK s \in Addresses : Arriving(s)
    BY <1>3 DEF IInv, AirOK
  <2>2. /\ chip.mode = "rx_single" => s = 0
        /\ chip.into = (s + g) % FifoSize
        /\ \A k \in 1 .. g : chip.fifo[(s + k - 1) % FifoSize] = Byte(n, k)
    BY <1>1, <1>2, <2>1 DEF Arriving
  <2>3. chip'.into = (s + (g + 1)) % FifoSize
    BY <1>4, <1>9, <2>2, NextAddress
  <2>4. ASSUME NEW k \in 1 .. (g + 1)
        PROVE  chip'.fifo[(s + k - 1) % FifoSize] = Byte(n, k)
    <3>1. CASE k = g + 1
      <4>1. s + k - 1 = s + g
        BY <1>4, <3>1 DEF Addresses, Lengths
      <4> QED
        BY <1>10, <2>2, <3>1, <4>1
    <3>2. CASE k \in 1 .. g
      <4>1. (s + k - 1) % FifoSize # chip.into
        BY <1>4, <2>2, <3>2, OtherAddress
      <4>2. (s + k - 1) % FifoSize \in Addresses
        <5>1. s + k - 1 \in Int
          BY <3>2 DEF Addresses
        <5> QED
          BY <5>1, AddressOf
      <4> QED
        BY <1>10, <2>2, <3>2, <4>1, <4>2
    <3> QED
      BY <1>4, <3>1, <3>2 DEF Lengths
  <2>5. Arriving(s)'
    BY <1>9, <1>11, <2>2, <2>3, <2>4 DEF Arriving
  <2>6. history[n] \in Packets
    BY <1>1, <1>3 DEF IInv, AirOK
  <2>7. g + 1 =< history[n].size
    BY <1>3, <1>4 DEF Lengths
  <2>8. /\ air'.number \in 1 .. Len(history') /\ history'[air'.number] \in Packets
        /\ air'.got =< history'[air'.number].size
        /\ \A i \in 1 .. Len(taken') : taken'[i].bytes[1].number < air'.number
    BY <1>3, <1>4, <1>11, <2>6, <2>7
  <2> QED
    BY <1>11, <2>5, <2>8 DEF AirOK
<1>17. Ordered => Ordered'
  <2>1. ASSUME chip.current = chip.into PROVE Ordered'
    <3>1. Begun' = n
      BY <1>7, <1>9, <1>10, <2>1 DEF Begun
    <3> QED
      BY <1>3, <1>4, <3>1 DEF Ordered, Before
  <2>2. ASSUME chip.current # chip.into, Ordered PROVE Ordered'
    <3>1. Begun' = Begun
      BY <1>5, <1>9, <1>10, <2>2 DEF Begun
    <3> QED
      BY <1>3, <2>2, <3>1 DEF Ordered, Before
  <2> QED
    BY <2>1, <2>2
<1>18. Announced' = Announced
  BY <1>3, <1>9 DEF Announced
<1>19. SendOK' /\ DeafOK' /\ ModeOK'
  BY <1>3, <1>4, <1>9 DEF IInv, SendOK, DeafOK, ModeOK, PacketFound, Pipeline, Receiving
<1>20. AnnouncedOK' /\ ReadOK' /\ BufferOK'
  <2>1. Announced' => overtaken'
    BY <1>3, <1>18
  <2>2. ~(pc \in Pipeline /\ "RX_DONE" \in chip.irq)
    BY <1>3 DEF IInv, ReadOK
  <2> QED
    BY <1>3, <1>4, <1>9, <1>12, <1>17, <1>18, <2>1, <2>2 DEF IInv, AnnouncedOK, ReadOK, BufferOK
<1> QED
  BY <1>13, <1>14, <1>15, <1>16, <1>19, <1>20 DEF IInv

\* A reception that ends is a whole packet, from where it began.
LEMMA ReceivedWhole ==
    ASSUME IInv, air # Nothing, air.got = history[air.number].size
    PROVE  LET s == (chip.into - air.got) % FifoSize
           IN  /\ s \in Addresses /\ (chip.mode = "rx_single" => s = 0)
               /\ \A k \in 1 .. air.got : chip.fifo[(s + k - 1) % FifoSize] = Byte(air.number, k)
               /\ chip.fifo[s].number = air.number
<1>1. air.got \in Lengths /\ air.got >= 1
  BY OnTheAir, Sizes
<1>2. PICK s \in Addresses : Arriving(s)
  BY DEF IInv, AirOK
<1>3. /\ chip.mode = "rx_single" => s = 0
      /\ chip.into = (s + air.got) % FifoSize
      /\ \A k \in 1 .. air.got : chip.fifo[(s + k - 1) % FifoSize] = Byte(air.number, k)
  BY <1>2 DEF Arriving
<1>4. (chip.into - air.got) % FifoSize = s
  BY <1>1, <1>3, StartAddress
<1>5. chip.fifo[s].number = air.number
  <2>1. (s + 1 - 1) % FifoSize = s /\ 1 \in 1 .. air.got
    <3>1. s + 1 - 1 = s
      BY DEF Addresses
    <3> QED
      BY <1>1, <3>1, ShortAddress DEF Lengths
  <2>2. chip.fifo[s] = Byte(air.number, 1)
    BY <1>3, <2>1
  <2> QED
    BY <2>2 DEF Byte
<1> QED
  BY <1>3, <1>4, <1>5

LEMMA ReceiveDoneKeeps == ASSUME IInv, NEW crcOk \in BOOLEAN, ReceiveDone(crcOk) PROVE IInv'
<1>1. PICK s : s = (chip.into - air.got) % FifoSize
  OBVIOUS
<1>2. PICK flags : flags = chip.irq \cup {"RX_DONE"} \cup IF crcOk THEN {} ELSE {"CRC_ERROR"}
  OBVIOUS
<1>3. PICK done : done = [chip EXCEPT !.irq = flags, !.bytes = air.got, !.current = s,
                                      !.mode = IF @ = "rx_single" THEN "standby" ELSE @]
  OBVIOUS
<1>4. /\ air # Nothing /\ air.got = history[air.number].size /\ air' = Nothing
      /\ chip' = IF wired THEN HandleDio0Rise(done) ELSE done
      /\ packetIndex' = IF wired /\ "CRC_ERROR" \notin done.irq THEN 0 ELSE packetIndex
      /\ UNCHANGED <<answers, wired, pc, outgoing, irqFlags, packetLength, buffer>>
      /\ UNCHANGED <<history, taken, onAir, overtaken, timeouts>>
  BY <1>1, <1>2, <1>3 DEF ReceiveDone, ghosts
<1>5. /\ answers = "radio" /\ chip.mode \in {"rx_continuous", "rx_single"}
      /\ pc \notin {"boot", "transmit", "wait", "receive", "process"}
      /\ pc # "begin" => chip.mode = "rx_single"
      /\ air.number \in 1 .. Len(history) /\ air.got \in Lengths
      /\ history[air.number].size \in 1 .. MaxPktLength
      /\ \A i \in 1 .. Len(taken) : taken[i].bytes[1].number < air.number
  BY <1>4, OnTheAir
<1>6. TypesOK /\ chip \in Chips
  BY DEF IInv, TypesOK
<1>7. /\ s \in Addresses /\ (chip.mode = "rx_single" => s = 0)
      /\ \A k \in 1 .. air.got : chip.fifo[(s + k - 1) % FifoSize] = Byte(air.number, k)
      /\ chip.fifo[s].number = air.number
  BY <1>1, <1>4, ReceivedWhole
<1>8. flags \in SUBSET Flags /\ "RX_DONE" \in flags /\ chip.irq \subseteq flags
  BY <1>2, <1>6, Fields DEF Flags
<1>9. /\ done \in Chips /\ done.mode = (IF chip.mode = "rx_single" THEN "standby" ELSE chip.mode)
      /\ done.fifo = chip.fifo /\ done.pointer = chip.pointer /\ done.payload = chip.payload
      /\ done.bytes = air.got /\ done.current = s /\ done.irq = flags
  BY <1>3, <1>5, <1>6, <1>7, <1>8 DEF Chips, Modes
<1>10. /\ chip' \in Chips /\ chip'.mode = done.mode /\ chip'.fifo = chip.fifo
       /\ chip'.payload = chip.payload /\ chip'.bytes = air.got /\ chip'.current = s
       /\ wired => chip'.irq = {}
       /\ ~wired => chip' = done
  <2>1. ASSUME wired
        PROVE  chip' = [done EXCEPT !.irq = {}, !.pointer = IF "CRC_ERROR" \in done.irq THEN @ ELSE done.current]
    BY <1>4, <2>1 DEF HandleDio0Rise
  <2>2. ~wired => chip' = done
    BY <1>4
  <2> QED
    BY <1>7, <1>9, <2>1, <2>2 DEF Chips
<1>11. TypesOK'
  <2>1. air' \in [number : Nat, got : Lengths] /\ packetIndex' \in Lengths
    BY <1>4, <1>6, Sizes DEF TypesOK, Nothing, Lengths
  <2> QED
    BY <1>4, <1>6, <1>10, <2>1 DEF TypesOK
<1>12. Grown /\ OnAirOK' /\ TakenOK'
  BY <1>4, <1>6, SameHistory, OnAirStays, TakenStays DEF IInv
<1>13. BytesOK'
  BY <1>4, <1>10, <1>12, BytesStay DEF IInv
<1>14. AirOK'
  BY <1>4, <1>5, <1>9, <1>10, NoAir
<1>15. Begun' = air.number /\ Ordered' /\ Whole'
  <2>1. Begun' = air.number
    BY <1>7, <1>10 DEF Begun
  <2>2. Ordered'
    BY <1>4, <1>5, <2>1 DEF Ordered, Before
  <2>3. air.got > 0
    BY <1>4, <1>5
  <2> QED
    BY <1>4, <1>5, <1>7, <1>10, <2>1, <2>2, <2>3 DEF Whole
<1>16. SendOK' /\ DeafOK' /\ ModeOK'
  BY <1>4, <1>5, <1>9, <1>10 DEF IInv, SendOK, DeafOK, ModeOK, PacketFound, Pipeline, Receiving
<1>17. pc \in {"length", "address", "idle"} => ~wired /\ overtaken /\ chip.current = 0
  <2>1. pc \in {"length", "address", "idle"} => ~wired /\ Announced
    BY DEF IInv, DeafOK, ModeOK, Pipeline, Announced
  <2>2. air.got # 0
    BY <1>4, <1>5
  <2> QED
    BY <1>4, <1>5, <2>1, <2>2 DEF IInv, AnnouncedOK
<1>18. AnnouncedOK' /\ BufferOK'
  BY <1>4, <1>5, <1>9, <1>10, <1>15 DEF AnnouncedOK, BufferOK
<1>19. ReadOK'
  BY <1>4, <1>5, <1>7, <1>9, <1>10, <1>15, <1>17 DEF IInv, ReadOK, Pipeline
<1> QED
  BY <1>11, <1>12, <1>13, <1>14, <1>16, <1>18, <1>19 DEF IInv

-----------------------------------------------------------------------------
(* Sending a message.                                                      *)

\* From the base on the FIFO holds what was written, cut; the rest is as it was.
LEMMA WriteAtBase ==
    ASSUME NEW c \in Chips, c.pointer = 0, c.payload = 0,
           NEW bytes \in Seq(Bytes), NEW n \in Lengths, n = Min({Len(bytes), MaxPktLength})
    PROVE  /\ Write(c, bytes) \in Chips
           /\ Write(c, bytes).mode = c.mode /\ Write(c, bytes).irq = c.irq
           /\ Write(c, bytes).bytes = c.bytes /\ Write(c, bytes).current = c.current
           /\ Write(c, bytes).payload = n
           /\ \A a \in Addresses : Write(c, bytes).fifo[a] = IF a < n THEN bytes[a + 1] ELSE c.fifo[a]
<1>1. Min({Len(bytes), MaxPktLength - c.payload}) = n
  <2>1. MaxPktLength - c.payload = MaxPktLength
    BY Sizes
  <2> QED
    BY <2>1
<1>2. PICK fifo : fifo = [a \in DOMAIN c.fifo |-> IF (a - c.pointer) % FifoSize < n
                                                  THEN bytes[((a - c.pointer) % FifoSize) + 1]
                                                  ELSE c.fifo[a]]
  OBVIOUS
<1>3. Write(c, bytes) = [c EXCEPT !.fifo = fifo, !.pointer = (@ + n) % FifoSize, !.payload = @ + n]
  BY <1>1, <1>2 DEF Write
<1>4. c.fifo \in [Addresses -> Bytes]
  BY Fields
<1>5. \A a \in Addresses : (a - c.pointer) % FifoSize = a
  <2>1. ASSUME NEW a \in Addresses PROVE (a - c.pointer) % FifoSize = a
    <3>1. a - c.pointer = a
      BY DEF Addresses
    <3> QED
      BY <3>1, ShortAddress
  <2> QED
    BY <2>1
<1>6. \A a \in Addresses : fifo[a] = IF a < n THEN bytes[a + 1] ELSE c.fifo[a]
  BY <1>2, <1>4, <1>5
<1>7. n =< Len(bytes) /\ n \in Nat /\ Len(bytes) \in Nat
  BY MinOf, Sizes DEF Lengths
<1>8. fifo \in [Addresses -> Bytes]
  <2>1. ASSUME NEW a \in Addresses PROVE fifo[a] \in Bytes
    <3>1. CASE a < n
      <4>1. a + 1 \in 1 .. Len(bytes)
        BY <1>7, <3>1 DEF Addresses
      <4>2. bytes[a + 1] \in Bytes
        BY <4>1
      <4> QED
        BY <1>6, <3>1, <4>2
    <3>2. CASE ~(a < n)
      BY <1>4, <1>6, <3>2
    <3> QED
      BY <3>1, <3>2
  <2> QED
    BY <1>2, <1>4, <2>1
<1>9. (c.pointer + n) % FifoSize \in Addresses /\ c.payload + n = n
  <2>1. c.pointer + n \in Int
    BY <1>7
  <2> QED
    BY <1>7, <2>1, AddressOf
<1> QED
  BY <1>3, <1>6, <1>8, <1>9 DEF Chips

LEMMA SendMessageKeeps ==
    ASSUME IInv, SendMessage
    PROVE  IInv' /\ (answers = "radio" => chip'.fifo[0].number = Len(history) + 1)
<1>1. PICK size : size = Head(outgoing)
  OBVIOUS
<1>2. PICK h : h = [to |-> Remote, from |-> Local, size |-> 2 + size]
  OBVIOUS
<1>3. PICK text : text = Written(size)
  OBVIOUS
<1>4. PICK m : m = Len(history) + 1
  OBVIOUS
<1>5. /\ pc = "begin" /\ outgoing # <<>> /\ air' = Nothing /\ history' = Append(history, h)
      /\ overtaken' = (overtaken \/ Announced) /\ outgoing' = Tail(outgoing) /\ pc' = "transmit"
      /\ chip' = IF answers = "radio" THEN Write(BeginPacket(chip), text) ELSE chip
      /\ UNCHANGED <<answers, wired, irqFlags, packetLength, packetIndex, buffer>>
      /\ UNCHANGED <<taken, onAir, timeouts>>
  BY <1>1, <1>2, <1>3 DEF SendMessage, Set, driver
<1>6. TypesOK /\ chip \in Chips /\ size \in Nat /\ Len(history) \in Nat /\ outgoing' \in Seq(Nat)
  BY <1>1, <1>5 DEF IInv, TypesOK
<1>7. h \in Messages /\ h.from = Local /\ h.size = 2 + size
  BY <1>2, <1>6 DEF Messages
<1>8. /\ Grown /\ history' \in Seq(Packets \cup Messages) /\ Len(history') = m /\ history'[m] = h
      /\ m \in Nat /\ m > Len(history)
  BY <1>4, <1>5, <1>6, <1>7, LongerHistory
<1>9. /\ text \in Seq(Bytes) /\ Len(text) = 2 + size
      /\ \A k \in 1 .. (2 + size) : text[k] = Byte(m, k)
  <2>1. text = [k \in 1 .. 2 + size |-> Byte(m, k)]
    BY <1>3, <1>4 DEF Written
  <2>2. \A k \in 1 .. 2 + size : Byte(m, k) \in Bytes
    BY <1>8 DEF Byte, Bytes
  <2> QED
    BY <1>6, <2>1, <2>2
<1>10. PICK n : n = Min({2 + size, MaxPktLength})
  OBVIOUS
<1>11. n \in Lengths /\ n >= 2 /\ n =< 2 + size
  BY <1>6, <1>10, MinOf, Sizes DEF Lengths
<1>12. answers = "radio" =>
        /\ chip' \in Chips /\ chip'.mode = "standby" /\ chip'.irq = chip.irq \ {"TX_DONE"}
        /\ chip'.bytes = chip.bytes /\ chip'.current = chip.current /\ chip'.payload = n
        /\ \A a \in Addresses : chip'.fifo[a] = IF a < n THEN text[a + 1] ELSE chip.fifo[a]
  <2> SUFFICES ASSUME answers = "radio"
               PROVE  /\ chip' \in Chips /\ chip'.mode = "standby" /\ chip'.irq = chip.irq \ {"TX_DONE"}
                      /\ chip'.bytes = chip.bytes /\ chip'.current = chip.current /\ chip'.payload = n
                      /\ \A a \in Addresses : chip'.fifo[a] = IF a < n THEN text[a + 1] ELSE chip.fifo[a]
    OBVIOUS
  <2>1. ~IsTransmitting
    BY <1>5, <1>6, Fields DEF IInv, SendOK, IsTransmitting, OpMode, Modes
  <2>2. PICK b : b = ToMode(chip, "standby")
    OBVIOUS
  <2>3. PICK c : c = [b EXCEPT !.irq = @ \ {"TX_DONE"}, !.pointer = 0, !.payload = 0]
    OBVIOUS
  <2>4. /\ b \in Chips /\ b.mode = "standby" /\ b.irq = chip.irq /\ b.fifo = chip.fifo
        /\ b.bytes = chip.bytes /\ b.current = chip.current
    BY <1>6, <2>2, ModeSet DEF Modes
  <2>5. /\ c \in Chips /\ c.mode = "standby" /\ c.irq = chip.irq \ {"TX_DONE"} /\ c.fifo = chip.fifo
        /\ c.bytes = chip.bytes /\ c.current = chip.current /\ c.pointer = 0 /\ c.payload = 0
    <3>1. chip.irq \ {"TX_DONE"} \in SUBSET Flags
      BY <1>6, Fields
    <3>2. 0 \in Addresses /\ 0 \in Lengths
      BY Sizes DEF Lengths
    <3> QED
      BY <2>3, <2>4, <3>1, <3>2 DEF Chips
  <2>6. chip' = Write(c, text)
    BY <1>5, <2>1, <2>2, <2>3 DEF BeginPacket
  <2>7. n = Min({Len(text), MaxPktLength})
    BY <1>9, <1>10
  <2>8. /\ Write(c, text) \in Chips
        /\ Write(c, text).mode = c.mode /\ Write(c, text).irq = c.irq
        /\ Write(c, text).bytes = c.bytes /\ Write(c, text).current = c.current
        /\ Write(c, text).payload = n
        /\ \A a \in Addresses : Write(c, text).fifo[a] = IF a < n THEN text[a + 1] ELSE c.fifo[a]
    BY <1>9, <1>11, <2>5, <2>7, WriteAtBase
  <2> QED
    BY <2>5, <2>6, <2>8
<1>13. answers # "radio" => chip' = chip /\ chip.mode = "sleep" /\ "RX_DONE" \notin chip.irq
  BY <1>5 DEF IInv, DeafOK
<1>14. TypesOK'
  <2>1. chip' \in Chips
    BY <1>6, <1>12, <1>13 DEF TypesOK
  <2>2. overtaken' \in BOOLEAN /\ air' \in [number : Nat, got : Lengths] /\ pc' \in Places
    BY <1>5, <1>6, Sizes DEF TypesOK, Announced, Nothing, Lengths, Places
  <2> QED
    BY <1>5, <1>6, <1>8, <2>1, <2>2 DEF TypesOK
<1>15. OnAirOK' /\ TakenOK'
  BY <1>5, <1>6, <1>8, OnAirStays, TakenStays DEF IInv
<1>16. ASSUME answers = "radio", NEW a \in Addresses
       PROVE  chip'.fifo[a] = chip.fifo[a] \/ chip'.fifo[a] = Byte(m, a + 1)
  <2>1. a < n => a + 1 \in 1 .. (2 + size)
    BY <1>6, <1>11 DEF Addresses, Lengths
  <2> QED
    BY <1>9, <1>12, <1>16, <2>1
<1>17. BytesOK'
  <2>1. ASSUME NEW b, Known(b) PROVE Known(b)'
    BY <1>8, <2>1, KnownStays DEF Known
  <2>2. ASSUME NEW k \in Nat PROVE Known(Byte(m, k))'
    BY <1>8, <2>2 DEF Known, Byte
  <2>3. ASSUME NEW a \in Addresses
        PROVE  chip'.fifo[a].number \in 0 .. m /\ (chip'.fifo[a].number = 0 => chip'.fifo[a].at = 0)
    <3>1. Known(chip.fifo[a])
      BY DEF IInv, BytesOK
    <3>2. \/ chip'.fifo[a] = chip.fifo[a]
          \/ chip'.fifo[a] = Byte(m, a + 1)
      BY <1>13, <1>16
    <3> QED
      BY <1>6, <1>8, <3>1, <3>2 DEF Known, Byte
  <2>4. \A k \in 1 .. Len(buffer') : buffer'[k].number \in 0 .. m /\ (buffer'[k].number = 0 => buffer'[k].at = 0)
    BY <1>5, <1>6, <1>8 DEF IInv, BytesOK, Known
  <2> QED
    BY <1>8, <2>3, <2>4 DEF BytesOK, Known
<1>18. answers = "radio" => Loaded' /\ chip'.fifo[0].number = m
  <2> SUFFICES ASSUME answers = "radio" PROVE Loaded' /\ chip'.fifo[0].number = m
    OBVIOUS
  <2>1. ASSUME NEW k \in 1 .. n PROVE chip'.fifo[k - 1] = Byte(m, k)
    <3>1. k - 1 \in Addresses /\ k - 1 < n /\ (k - 1) + 1 = k /\ k \in 1 .. (2 + size)
      BY <1>6, <1>11, Sizes DEF Addresses, Lengths
    <3> QED
      BY <1>9, <1>12, <3>1
  <2>2. chip'.fifo[0].number = m
    <3>1. 1 \in 1 .. n /\ 1 - 1 = 0
      BY <1>11 DEF Lengths
    <3>2. chip'.fifo[0] = Byte(m, 1)
      BY <2>1, <3>1
    <3> QED
      BY <3>2 DEF Byte
  <2>3. Min({history'[m].size, MaxPktLength}) = n
    BY <1>7, <1>8, <1>10
  <2>4. m \in 1 .. Len(history') /\ history'[m].from = Local
    BY <1>6, <1>7, <1>8
  <2> QED
    BY <1>12, <2>1, <2>2, <2>3, <2>4 DEF Loaded, Cut
<1>19. AirOK'
  BY <1>5, <1>12, <1>13, NoAir
<1>20. "RX_DONE" \in chip'.irq => Announced
  BY <1>12, <1>13 DEF Announced
<1>21. Announced' => "RX_DONE" \in chip'.irq
  BY <1>5 DEF Announced
<1>22. Announced' => Ordered'
  <2> SUFFICES ASSUME Announced' PROVE Ordered'
    OBVIOUS
  <2>1. Ordered /\ answers = "radio" /\ chip.current \in Addresses
    BY <1>6, <1>13, <1>20, <1>21, Fields DEF IInv, AnnouncedOK
  <2>2. Begun' = Begun \/ Begun' = m
    <3>1. Begun' = chip'.fifo[chip.current].number
      BY <1>12, <2>1 DEF Begun
    <3>2. \/ chip'.fifo[chip.current] = chip.fifo[chip.current]
          \/ chip'.fifo[chip.current] = Byte(m, chip.current + 1)
      BY <1>16, <2>1
    <3> QED
      BY <3>1, <3>2 DEF Begun, Byte
  <2>3. \A i \in 1 .. Len(taken) : taken[i].bytes[1].number < m
    BY <1>6, <1>8 DEF IInv, TakenOK
  <2> QED
    BY <1>5, <2>1, <2>2, <2>3 DEF Ordered, Before
<1>23. SendOK' /\ DeafOK' /\ ModeOK'
  BY <1>5, <1>12, <1>13, <1>18 DEF IInv, SendOK, DeafOK, ModeOK, PacketFound, Pipeline, Nothing
<1>24. AnnouncedOK' /\ ReadOK' /\ BufferOK'
  BY <1>5, <1>12, <1>13, <1>20, <1>21, <1>22 DEF AnnouncedOK, ReadOK, BufferOK, Pipeline
<1> QED
  BY <1>4, <1>14, <1>15, <1>17, <1>18, <1>19, <1>23, <1>24 DEF IInv

-----------------------------------------------------------------------------
(* The order of sending.                                                   *)

\* A message is in the FIFO, or on its way to the air.
InFlight == chip.mode = "tx" \/ (pc = "transmit" /\ answers = "radio")
Latest == chip.fifo[0].number

QueueOK ==
    /\ \A i, j \in 1 .. Len(onAir) : i < j => onAir[i][1].number < onAir[j][1].number
    /\ InFlight => \A i \in 1 .. Len(onAir) : onAir[i][1].number < Latest
    /\ answers = "radio" =>
        \A n \in 1 .. Len(history) : Own(n) => Transmitted(n) \/ (InFlight /\ n = Latest)

LEMMA QueueStays ==
    ASSUME QueueOK, UNCHANGED <<answers, history, onAir>>, InFlight' <=> InFlight,
           InFlight => Latest' = Latest
    PROVE  QueueOK'
<1>1. ASSUME NEW n PROVE Own(n)' = Own(n) /\ Transmitted(n)' = Transmitted(n)
  BY DEF Own, Transmitted, Message, Cut
<1> QED
  BY <1>1 DEF QueueOK

\* Nothing is in flight before or after.
LEMMA QueueIdle ==
    ASSUME IInv, IInv', QueueOK, UNCHANGED <<answers, history, onAir>>,
           pc \notin {"transmit", "wait"}, pc' \notin {"transmit", "wait"}
    PROVE  QueueOK'
<1>1. ~InFlight /\ ~InFlight'
  BY DEF IInv, SendOK, InFlight
<1> QED
  BY <1>1, QueueStays

LEMMA QueueRadio ==
    ASSUME IInv, IInv', QueueOK, Receive \/ (\E crcOk \in BOOLEAN : ReceiveDone(crcOk)) \/ ReceiveTimeout
    PROVE  QueueOK'
<1>1. UNCHANGED <<answers, history, onAir, pc>>
  BY DEF Receive, ReceiveDone, ReceiveTimeout, ghosts
<1>2. ~InFlight
  BY DEF IInv, SendOK, DeafOK, InFlight, Receive, ReceiveDone, ReceiveTimeout
<1>3. chip \in Chips
  BY DEF IInv, TypesOK
<1>4. chip'.mode \in {chip.mode, "standby"}
  BY <1>3 DEF Receive, ReceiveDone, ReceiveTimeout, HandleDio0Rise, Chips
<1>5. ~InFlight'
  BY <1>1, <1>2, <1>4 DEF InFlight
<1> QED
  BY <1>1, <1>2, <1>5, QueueStays

LEMMA QueueBegins ==
    ASSUME IInv, QueueOK, NEW p \in Packets, PacketBegins(p)
    PROVE  QueueOK'
<1>1. history' = Append(history, p) /\ UNCHANGED <<answers, chip, pc, onAir>> /\ p.from # Local
  BY RadioAssumption DEF PacketBegins
<1>2. TypesOK /\ Len(history) \in Nat
  BY DEF IInv, TypesOK
<1>3. /\ Grown /\ Len(history') = Len(history) + 1 /\ history'[Len(history) + 1] = p
  BY <1>1, <1>2, LongerHistory
<1>4. InFlight' = InFlight /\ Latest' = Latest
  BY <1>1 DEF InFlight, Latest
<1>5. ASSUME NEW n \in 1 .. Len(history'), Own(n)'
      PROVE  n \in 1 .. Len(history) /\ Own(n) /\ (Transmitted(n) => Transmitted(n)')
  <2>1. n \in 1 .. Len(history)
    BY <1>1, <1>2, <1>3, <1>5 DEF Own
  <2>2. history'[n] = history[n]
    BY <1>3, <2>1 DEF Grown
  <2> QED
    BY <1>1, <1>5, <2>1, <2>2 DEF Own, Transmitted, Message, Cut
<1> QED
  BY <1>1, <1>4, <1>5 DEF QueueOK

LEMMA QueueTransmits ==
    ASSUME IInv, QueueOK, TransmitDone
    PROVE  QueueOK'
<1> DEFINE t == Fifo(0, chip.payload)
<1>1. /\ chip.mode = "tx" /\ onAir' = Append(onAir, t) /\ UNCHANGED <<answers, pc, history>>
      /\ chip' = [chip EXCEPT !.mode = "standby", !.irq = @ \cup {"TX_DONE"}]
  BY DEF TransmitDone
<1>2. InFlight /\ Loaded /\ pc = "wait"
  BY <1>1 DEF IInv, SendOK, InFlight
<1>3. t \in Seq(Bytes) /\ t[1].number = Latest /\ t = Message(Latest)
  BY <1>2, SendsLoaded DEF Latest, Message
<1> HIDE DEF t
<1>4. /\ Len(onAir') = Len(onAir) + 1 /\ Len(onAir) \in Nat /\ onAir'[Len(onAir) + 1] = t
      /\ \A i \in 1 .. Len(onAir) : onAir'[i] = onAir[i]
  BY <1>1, <1>3 DEF IInv, TypesOK
<1>5. chip'.mode = "standby"
  BY <1>1 DEF IInv, TypesOK, Chips
<1>6. ~InFlight'
  BY <1>1, <1>2, <1>5 DEF InFlight
<1>7. \A i, j \in 1 .. Len(onAir') : i < j => onAir'[i][1].number < onAir'[j][1].number
  <2>1. ASSUME NEW i \in 1 .. Len(onAir'), NEW j \in 1 .. Len(onAir'), i < j
        PROVE  onAir'[i][1].number < onAir'[j][1].number
    <3>1. i \in 1 .. Len(onAir) /\ onAir'[i] = onAir[i]
      BY <1>4, <2>1
    <3>2. CASE j = Len(onAir) + 1
      BY <1>2, <1>3, <1>4, <3>1, <3>2 DEF QueueOK
    <3>3. CASE j # Len(onAir) + 1
      <4>1. j \in 1 .. Len(onAir) /\ onAir'[j] = onAir[j]
        BY <1>4, <2>1, <3>3
      <4> QED
        BY <2>1, <3>1, <4>1 DEF QueueOK
    <3> QED
      BY <3>2, <3>3
  <2> QED
    BY <2>1
<1>8. ASSUME answers' = "radio", NEW n \in 1 .. Len(history'), Own(n)' PROVE Transmitted(n)'
  <2>1. Message(n)' = Message(n) /\ Own(n)
    BY <1>1, <1>8 DEF Message, Cut, Own
  <2>2. Transmitted(n) \/ n = Latest
    BY <1>1, <1>8, <2>1 DEF QueueOK
  <2>3. CASE Transmitted(n)
    <3>1. PICK i \in 1 .. Len(onAir) : onAir[i] = Message(n)
      BY <2>3, <1>4 DEF Transmitted, IInv, TypesOK
    <3>2. i \in DOMAIN onAir' /\ onAir'[i] = Message(n)
      BY <1>1, <1>3, <1>4, <3>1 DEF IInv, TypesOK
    <3> QED
      BY <2>1, <3>2 DEF Transmitted
  <2>4. CASE n = Latest
    <3>1. Len(onAir) + 1 \in DOMAIN onAir' /\ onAir'[Len(onAir) + 1] = Message(n)
      BY <1>1, <1>3, <1>4, <2>4 DEF IInv, TypesOK
    <3> QED
      BY <2>1, <3>1 DEF Transmitted
  <2> QED
    BY <2>2, <2>3, <2>4
<1> QED
  BY <1>6, <1>7, <1>8 DEF QueueOK

\* The message that is written is later than all that were sent.
LEMMA QueueLoads ==
    ASSUME IInv, IInv', QueueOK, SendMessage
    PROVE  QueueOK'
<1> DEFINE m == Len(history) + 1
           h == [to |-> Remote, from |-> Local, size |-> 2 + Head(outgoing)]
<1>1. /\ pc = "begin" /\ pc' = "transmit" /\ outgoing # <<>> /\ history' = Append(history, h)
      /\ chip' = IF answers = "radio" THEN Write(BeginPacket(chip), Written(Head(outgoing))) ELSE chip
      /\ UNCHANGED <<answers, onAir>>
  BY DEF SendMessage, Set
<1>2. TypesOK /\ Len(history) \in Nat /\ ~InFlight /\ chip.mode # "tx"
  BY <1>1 DEF IInv, TypesOK, SendOK, InFlight
<1>3. h \in Messages
  <2>1. Head(outgoing) \in Nat
    BY <1>1, <1>2 DEF TypesOK
  <2> QED
    BY <2>1 DEF Messages
<1> HIDE DEF h
<1>4. Grown /\ Len(history') = m /\ history'[m] = h
  BY <1>1, <1>2, <1>3, LongerHistory
<1>5. \A i \in 1 .. Len(onAir) : onAir[i][1].number \in 1 .. Len(history)
  BY DEF IInv, OnAirOK
<1>6. CASE answers = "radio"
  <2>1. InFlight' /\ Loaded'
    BY <1>1, <1>6 DEF InFlight, IInv, SendOK
  <2>2. Latest' = m
    BY <1>6, SendMessageKeeps DEF Latest
  <2>3. ASSUME NEW n \in 1 .. Len(history'), Own(n)' PROVE Transmitted(n)' \/ n = m
    <3>1. CASE n # m
      <4>1. n \in 1 .. Len(history) /\ history'[n] = history[n]
        BY <1>2, <1>4, <3>1 DEF Grown
      <4>2. Own(n)
        BY <2>3, <4>1 DEF Own
      <4>3. Transmitted(n)
        BY <1>2, <1>6, <4>1, <4>2 DEF QueueOK
      <4> QED
        BY <1>1, <4>1, <4>3 DEF Transmitted, Message, Cut
    <3> QED
      BY <3>1
  <2>4. \A i \in 1 .. Len(onAir) : onAir[i][1].number < m
    BY <1>2, <1>5
  <2> QED
    BY <1>1, <2>1, <2>2, <2>3, <2>4 DEF QueueOK
<1>7. CASE answers # "radio"
  <2>1. ~InFlight'
    BY <1>1, <1>2, <1>7 DEF InFlight
  <2> QED
    BY <1>1, <1>7, <2>1 DEF QueueOK
<1> QED
  BY <1>6, <1>7

LEMMA QueueKeeps ==
    ASSUME IInv, IInv', QueueOK, [Next]_vars
    PROVE  QueueOK'
<1>1. CASE \E p \in Packets : PacketBegins(p)
  BY <1>1, QueueBegins
<1>2. CASE Receive \/ (\E crcOk \in BOOLEAN : ReceiveDone(crcOk)) \/ ReceiveTimeout
  BY <1>2, QueueRadio
<1>3. CASE TransmitDone
  BY <1>3, QueueTransmits
<1>4. CASE SendMessage
  BY <1>4, QueueLoads
<1>5. CASE EndPacket
  <2>1. /\ UNCHANGED <<answers, history, onAir>> /\ pc = "transmit" /\ pc' = "wait"
        /\ chip' = IF answers = "radio" THEN ToMode(chip, "tx") ELSE chip
    BY <1>5 DEF EndPacket, Set, ghosts
  <2>2. chip \in Chips /\ (answers # "radio" => chip.mode = "sleep")
    BY DEF IInv, TypesOK, DeafOK
  <2>3. (InFlight' <=> InFlight) /\ Latest' = Latest
    BY <2>1, <2>2, ModeSet DEF InFlight, Latest, Modes
  <2> QED
    BY <2>1, <2>3, QueueStays
<1>6. CASE TxDone
  <2>1. /\ UNCHANGED <<answers, history, onAir>> /\ pc = "wait" /\ pc' = "begin"
        /\ answers = "radio" => "TX_DONE" \in chip.irq
    BY <1>6 DEF TxDone, IrqFlags, ghosts
  <2>2. ~InFlight
    BY <2>1 DEF IInv, SendOK, DeafOK, InFlight
  <2>3. ~InFlight'
    BY <2>1 DEF IInv, SendOK, InFlight
  <2> QED
    BY <2>1, <2>2, <2>3, QueueStays
<1>7. CASE InitializeRadio \/ AllSent \/ Poll \/ OnReceive \/ ProcessPacket
  <2>1. /\ UNCHANGED <<answers, history, onAir>>
        /\ pc \notin {"transmit", "wait"} /\ pc' \notin {"transmit", "wait"}
    BY <1>7 DEF InitializeRadio, AllSent, Poll, ReadFlags, ClearFlags, ReadLength, SetAddress, Idle,
       ReadMode, Arm, OnReceive, ProcessPacket, ghosts
  <2> QED
    BY <2>1, QueueIdle
<1>8. CASE UNCHANGED vars
  <2>1. UNCHANGED <<answers, history, onAir, chip, pc>>
    BY <1>8 DEF vars, ghosts
  <2> QED
    BY <2>1, QueueStays DEF InFlight, Latest
<1> QED
  BY <1>1, <1>2, <1>3, <1>4, <1>5, <1>6, <1>7, <1>8 DEF Next, Core0, Radio, Send

LEMMA QueueInit == Init => QueueOK
  BY DEF Init, QueueOK, InFlight

-----------------------------------------------------------------------------
(* The theorems.                                                           *)

LEMMA NextKeeps == ASSUME IInv, [Next]_vars PROVE IInv'
<1>1. CASE Radio
  BY <1>1, PacketBeginsKeeps, ReceiveKeeps, ReceiveDoneKeeps, ReceiveTimeoutKeeps, TransmitDoneKeeps
     DEF Radio
<1>2. CASE Send
  BY <1>2, InitializeKeeps, SendMessageKeeps, EndPacketKeeps, TxDoneKeeps, AllSentKeeps DEF Send
<1>3. CASE Poll
  BY <1>3, ReadFlagsKeeps, ClearFlagsKeeps, ReadLengthKeeps, SetAddressKeeps, IdleKeeps,
     ReadModeKeeps, ArmKeeps DEF Poll
<1>4. CASE OnReceive \/ ProcessPacket
  BY <1>4, OnReceiveKeeps, ProcessPacketKeeps
<1>5. CASE UNCHANGED vars
  BY <1>5, StutterKeeps
<1> QED
  BY <1>1, <1>2, <1>3, <1>4, <1>5 DEF Next, Core0

LEMMA InductiveInvariant == Spec => []IInv
  BY InitInv, NextKeeps, PTL DEF Spec

\* Registers, driver and ghosts keep to their types, for every FIFO larger than the longest
\* packet, all packets, boot messages and replies, with a radio, without one and with DIO0 wired.
THEOREM TypeInvariant == Spec => []TypesOK
<1>1. IInv => TypesOK
  BY DEF IInv
<1> QED
  BY <1>1, InductiveInvariant, PTL

\* What core 0 executes was received whole, is executed in the order of arrival and once,
\* or was torn by a packet that overtook it in the FIFO: for every FIFO and all packets.
THEOREM Executed == Spec => []ExecutedWasSent
<1>1. IInv => ExecutedWasSent
  BY DEF IInv, TakenOK
<1> QED
  BY <1>1, InductiveInvariant, PTL

\* Each transmission is one message of the satellite's, whole or cut at the longest packet;
\* each message is sent once and in order, and by a radio that answers all of them are: for
\* every message, and whatever was received into the same FIFO before.
THEOREM Sent == Spec => []SentIsMessage
<1>1. ASSUME IInv, QueueOK PROVE SentIsMessage
  <2>1. /\ onAir \in Seq(Seq(Bytes)) /\ DOMAIN onAir = 1 .. Len(onAir)
        /\ DOMAIN history = 1 .. Len(history) /\ Len(history) \in Nat /\ TypesOK
    BY <1>1 DEF IInv, TypesOK
  <2>2. ASSUME NEW i \in DOMAIN onAir, NEW n, n = onAir[i][1].number
        PROVE  onAir[i] # <<>> /\ n \in DOMAIN history /\ Own(n) /\ onAir[i] = Message(n)
    <3>1. n \in 1 .. Len(history) /\ history[n].from = Local /\ onAir[i] = [k \in 1 .. Cut(n) |-> Byte(n, k)]
      BY <1>1, <2>1, <2>2 DEF IInv, OnAirOK
    <3>2. Cut(n) \in 1 .. MaxPktLength
      BY <2>1, <3>1, CutOf
    <3>3. onAir[i] # <<>>
      BY <3>1, <3>2, Sizes
    <3> QED
      BY <2>1, <3>1, <3>3 DEF Own, Message
  <2>3. \A i, j \in DOMAIN onAir : i < j => onAir[i][1].number < onAir[j][1].number
    BY <1>1, <2>1 DEF QueueOK
  <2>4. ASSUME answers = "radio", NEW n \in DOMAIN history, Own(n), ~Transmitted(n)
        PROVE  pc \in {"transmit", "wait"} /\ \A m \in n + 1 .. Len(history) : ~Own(m)
    <3>1. InFlight /\ n = Latest
      BY <1>1, <2>1, <2>4 DEF QueueOK
    <3>2. pc \in {"transmit", "wait"}
      BY <1>1, <3>1 DEF IInv, SendOK, InFlight
    <3>3. ASSUME NEW m \in n + 1 .. Len(history), Own(m) PROVE FALSE
      <4>1. m \in 1 .. Len(history) /\ m > n
        BY <2>1, <3>3
      <4>2. Transmitted(m)
        BY <1>1, <2>4, <3>1, <3>3, <4>1 DEF QueueOK
      <4>3. PICK i \in 1 .. Len(onAir) : onAir[i] = Message(m)
        BY <2>1, <4>2 DEF Transmitted
      <4>4. onAir[i][1].number = m
        BY <2>1, <4>1, <4>3, CutOf DEF Message, Byte
      <4>5. onAir[i][1].number < n
        BY <1>1, <3>1, <4>3 DEF QueueOK
      <4> QED
        BY <2>1, <4>1, <4>4, <4>5
    <3> QED
      BY <3>2, <3>3
  <2> QED
    BY <2>2, <2>3, <2>4 DEF SentIsMessage
<1> QED
  BY <1>1, InitInv, NextKeeps, QueueInit, QueueKeeps, PTL DEF Spec
=============================================================================
