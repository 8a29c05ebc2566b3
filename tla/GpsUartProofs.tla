---------------------------- MODULE GpsUartProofs ----------------------------
(***************************************************************************)
(* Theorems about the GPS UART, for every exit sequence, buffer, FIFO and     *)
(* lengths of sentences.                                                   *)
(***************************************************************************)
EXTENDS GpsUart, SequenceTheorems, TLAPS

\* A symbol of a sentence that has begun.
Symbols == {s \in (1 .. Len(sent)) \X Nat : s[2] =< sent[s[1]]}

\* The last symbol that the GPS put out, and the one that it puts out after s.
Out == <<Len(sent), place>>
Succ(s) ==
    IF s[2] = 0 THEN <<s[1] + 1, 1>>
    ELSE IF s[2] = sent[s[1]] THEN <<s[1], 0>> ELSE <<s[1], s[2] + 1>>

\* raw holds the beginning of its sentence without a gap.
InStep(message) ==
    /\ Len(message) =< sent[message[1][1]]
    /\ \A i \in 1 .. Len(message) : message[i] = <<message[1][1], i>>

\* The message will be stored although it is not what the GPS sent.
Spoilt == Marked(raw) /\ ~InStep(raw)

\* The next symbol does not go on with the message.
Torn ==
    /\ Marked(raw) /\ InStep(raw)
    /\ IF fifo = <<>> THEN Out # <<raw[1][1], Len(raw)>>
                      ELSE fifo[1] # Succ(<<raw[1][1], Len(raw)>>)

Count(condition) == IF condition THEN 1 ELSE 0

\* What of the damages the collector has still to suffer from, up to the first
\* symbol of the UART: a session may tear the message once.
Owed ==
    spoiled + Count(Spoilt) + Count(core0 # "bridge" /\ Torn) + Count(core0 # "serve")

\* Symbols were lost behind symbol i of the UART.
GapAfter(i) == IF i = Len(fifo) THEN fifo[i] # Out ELSE fifo[i + 1] # Succ(fifo[i])

\* paid[i] of the damages are accounted for before symbol i.
Paid(paid) ==
    /\ fifo # <<>> => Owed =< paid[1]
    /\ fifo = <<>> => Owed =< damages
    /\ \A i \in 1 .. Len(fifo) :
          paid[i] + Count(GapAfter(i)) =< (IF i = Len(fifo) THEN damages ELSE paid[i + 1])

Accounted == \E paid \in [1 .. Len(fifo) -> 0 .. damages] : Paid(paid)

StreamOK ==
    /\ sent \in Seq(Lengths) /\ place \in Nat
    /\ (IF sent = <<>> THEN place = 0 ELSE place =< sent[Len(sent)])
    /\ fifo \in Seq(Symbols)

CollectorOK ==
    /\ core1 \in {"out", "in"}
    /\ raw \in Seq({s \in Symbols : s[2] # 0} \cup {Junk}) /\ Len(raw) =< MaxRaw - 1
    /\ damages \in Nat /\ spoiled \in Nat /\ junked \in Nat /\ sessions \in Nat

PauseOK ==
    /\ core0 \in {"serve", "settle", "bridge"}
    /\ paused <=> core0 # "serve"
    /\ core0 = "bridge" => core1 = "out"

LineInv == StreamOK /\ CollectorOK /\ PauseOK /\ Accounted

TypedOK ==
    /\ typed \in Seq(Keys) /\ input \in Seq(Keys) /\ toGps \in Seq(Keys)
    /\ exiting <=> input = ExitSequence

\* The input buffer is the last keys.
WindowOK ==
    /\ Len(input) = IF Len(typed) < Len(ExitSequence) THEN Len(typed) ELSE Len(ExitSequence)
    /\ \A i \in 1 .. Len(input) : input[i] = typed[(Len(typed) - Len(input)) + i]

\* b of the first keys are the beginning of the exit sequence, and no more.
Opening(b) ==
    /\ b =< Len(typed) /\ b =< Len(ExitSequence)
    /\ \A i \in 1 .. b : typed[i] = ExitSequence[i]
    /\ b = Len(typed) \/ b = Len(ExitSequence) \/ typed[b + 1] # ExitSequence[b + 1]

Passed == IF exiting THEN Len(typed) - 1 ELSE Len(typed)

ForwardOK ==
    \E b \in 0 .. Len(typed) :
        /\ Opening(b)
        /\ Len(toGps) = IF b =< Passed THEN Passed - b ELSE 0
        /\ \A i \in 1 .. Len(toGps) : toGps[i] = typed[b + i]

KeysInv == TypedOK /\ WindowOK /\ ForwardOK

-----------------------------------------------------------------------------
(* Beginnings and ends of sequences, position by position.                 *)

LEMMA PrefixByPosition ==
    ASSUME NEW S, NEW s \in Seq(S), NEW t \in Seq(S)
    PROVE  IsPrefix(s, t) <=> Len(s) =< Len(t) /\ \A i \in 1 .. Len(s) : s[i] = t[i]
<1>1. Len(s) \in Nat /\ Len(t) \in Nat
  BY LenProperties
<1>2. SubSeq(s, 1, Len(s)) = s
  BY SubSeqFull
<1>3. ASSUME Len(s) =< Len(t)
      PROVE  /\ SubSeq(t, 1, Len(s)) \in Seq(S) /\ Len(SubSeq(t, 1, Len(s))) = Len(s)
             /\ \A i \in 1 .. Len(s) : SubSeq(t, 1, Len(s))[i] = t[i]
  <2>1. \A i \in 1 .. Len(s) : t[i] \in S
    BY <1>1, <1>3, ElementOfSeq
  <2> QED
    BY <1>1, <2>1, SubSeqProperties
<1>4. ASSUME IsPrefix(s, t)
      PROVE  Len(s) =< Len(t) /\ \A i \in 1 .. Len(s) : s[i] = t[i]
  BY <1>2, <1>3, <1>4 DEF IsPrefix
<1>5. ASSUME Len(s) =< Len(t), \A i \in 1 .. Len(s) : s[i] = t[i]
      PROVE  IsPrefix(s, t)
  <2>1. s = SubSeq(t, 1, Len(s))
    BY <1>3, <1>5, SeqEqual
  <2> QED
    BY <1>2, <1>5, <2>1 DEF IsPrefix
<1> QED
  BY <1>4, <1>5

LEMMA ReversedByPosition ==
    ASSUME NEW S, NEW s \in Seq(S)
    PROVE  /\ Reverse(s) \in Seq(S) /\ Len(Reverse(s)) = Len(s)
           /\ \A i \in 1 .. Len(s) : Reverse(s)[i] = s[(Len(s) - i) + 1]
<1>1. Len(s) \in Nat
  BY LenProperties
<1>2. \A i \in 1 .. Len(s) : s[(Len(s) - i) + 1] \in S
  BY <1>1, ElementOfSeq
<1> QED
  BY <1>1, <1>2 DEF Reverse

LEMMA SuffixByPosition ==
    ASSUME NEW S, NEW s \in Seq(S), NEW t \in Seq(S)
    PROVE  IsSuffix(s, t) <=>
               Len(s) =< Len(t) /\ \A i \in 1 .. Len(s) : s[i] = t[(Len(t) - Len(s)) + i]
<1>1. Len(s) \in Nat /\ Len(t) \in Nat
  BY LenProperties
<1>2. IsSuffix(s, t) <=>
          Len(s) =< Len(t) /\ \A i \in 1 .. Len(s) : Reverse(s)[i] = Reverse(t)[i]
  BY ReversedByPosition, PrefixByPosition DEF IsSuffix
<1>3. ASSUME Len(s) =< Len(t), NEW i \in 1 .. Len(s)
      PROVE  /\ Reverse(s)[i] = s[(Len(s) - i) + 1] /\ Reverse(t)[i] = t[(Len(t) - i) + 1]
             /\ (Len(s) - i) + 1 \in 1 .. Len(s)
             /\ (Len(t) - Len(s)) + ((Len(s) - i) + 1) = (Len(t) - i) + 1
  <2>1. i \in 1 .. Len(t)
    BY <1>1, <1>3
  <2> QED
    BY <1>1, <1>3, <2>1, ReversedByPosition
<1>4. ASSUME Len(s) =< Len(t), \A i \in 1 .. Len(s) : Reverse(s)[i] = Reverse(t)[i],
             NEW j \in 1 .. Len(s)
      PROVE  s[j] = t[(Len(t) - Len(s)) + j]
  <2> DEFINE i == (Len(s) - j) + 1
  <2>1. i \in 1 .. Len(s) /\ (Len(s) - i) + 1 = j /\ (Len(t) - i) + 1 = (Len(t) - Len(s)) + j
    BY <1>1, <1>4
  <2> HIDE DEF i
  <2>2. Reverse(s)[i] = s[j]
    BY <1>3, <1>4, <2>1
  <2>3. Reverse(t)[i] = t[(Len(t) - Len(s)) + j]
    BY <1>3, <1>4, <2>1
  <2> QED
    BY <1>4, <2>1, <2>2, <2>3
<1>5. ASSUME Len(s) =< Len(t), \A j \in 1 .. Len(s) : s[j] = t[(Len(t) - Len(s)) + j],
             NEW i \in 1 .. Len(s)
      PROVE  Reverse(s)[i] = Reverse(t)[i]
  <2>1. s[(Len(s) - i) + 1] = t[(Len(t) - Len(s)) + ((Len(s) - i) + 1)]
    BY <1>3, <1>5
  <2> QED
    BY <1>3, <1>5, <2>1
<1> QED
  BY <1>2, <1>4, <1>5

-----------------------------------------------------------------------------
(* The keys of a session.                                                  *)

LEMMA KeysInit == Init => KeysInv
<1> SUFFICES ASSUME Init PROVE KeysInv
  OBVIOUS
<1>1. typed = <<>> /\ input = <<>> /\ toGps = <<>> /\ exiting = FALSE
  BY DEF Init
<1> QED
  BY <1>1, ExitAssumption, EmptySeq, LenProperties
     DEF KeysInv, TypedOK, WindowOK, ForwardOK, Opening, Passed

LEMMA ExitLength == ExitSequence \in Seq(Keys) /\ Len(ExitSequence) \in Nat \ {0}
  BY ExitAssumption, EmptySeq, LenProperties

\* The window after a key.
LEMMA WindowMoves ==
    ASSUME TypedOK, WindowOK, NEW key \in Keys,
           input' = Window(input, key), typed' = Append(typed, key)
    PROVE  /\ input' \in Seq(Keys) /\ typed' \in Seq(Keys) /\ WindowOK'
           /\ Len(typed') = Len(typed) + 1 /\ typed'[Len(typed) + 1] = key
           /\ \A i \in 1 .. Len(typed) : typed'[i] = typed[i]
<1> DEFINE L == Len(ExitSequence)
<1>1. L \in Nat \ {0} /\ Len(typed) \in Nat /\ Len(input) \in Nat
  BY ExitLength, LenProperties DEF TypedOK
<1>2. /\ typed' \in Seq(Keys) /\ Len(typed') = Len(typed) + 1
      /\ typed'[Len(typed) + 1] = key /\ \A i \in 1 .. Len(typed) : typed'[i] = typed[i]
  BY AppendProperties DEF TypedOK
<1>3. CASE Len(typed) < L
  <2>1. Len(input) = Len(typed) /\ input' = Append(input, key)
    BY <1>1, <1>3 DEF WindowOK, Window
  <2>2. /\ input' \in Seq(Keys) /\ Len(input') = Len(input) + 1
        /\ input'[Len(input) + 1] = key /\ \A i \in 1 .. Len(input) : input'[i] = input[i]
    BY <2>1, AppendProperties DEF TypedOK
  <2>3. ASSUME NEW i \in 1 .. Len(input') PROVE input'[i] = typed'[i]
    <3>1. CASE i = Len(typed) + 1
      BY <1>2, <2>1, <2>2, <3>1
    <3>2. CASE i # Len(typed) + 1
      <4>1. i \in 1 .. Len(typed) /\ (Len(typed) - Len(input)) + i = i
        BY <1>1, <2>1, <2>2, <3>2
      <4>2. input[i] = typed[i]
        BY <2>1, <4>1 DEF WindowOK
      <4> QED
        BY <1>2, <2>1, <2>2, <4>1, <4>2
    <3> QED
      BY <3>1, <3>2
  <2>4. Len(typed') - Len(input') = 0
    BY <1>1, <1>2, <2>1, <2>2
  <2>5. Len(input') = IF Len(typed') < L THEN Len(typed') ELSE L
    BY <1>1, <1>2, <1>3, <2>1, <2>2
  <2>6. ASSUME NEW i \in 1 .. Len(input')
        PROVE  input'[i] = typed'[(Len(typed') - Len(input')) + i]
    <3>1. (Len(typed') - Len(input')) + i = i
      BY <1>1, <2>2, <2>4
    <3> QED
      BY <2>3, <3>1
  <2> QED
    BY <1>2, <2>2, <2>5, <2>6 DEF WindowOK
<1>4. CASE ~(Len(typed) < L)
  <2>1. Len(input) = L /\ input' = Append(Tail(input), key)
    BY <1>1, <1>4 DEF WindowOK, Window
  <2>2. /\ Tail(input) \in Seq(Keys) /\ Len(Tail(input)) = L - 1
        /\ \A i \in 1 .. L - 1 : Tail(input)[i] = input[i + 1]
    BY <1>1, <2>1, EmptySeq, HeadTailProperties DEF TypedOK
  <2>3. /\ input' \in Seq(Keys) /\ Len(input') = L
        /\ input'[L] = key /\ \A i \in 1 .. L - 1 : input'[i] = Tail(input)[i]
    BY <1>1, <2>1, <2>2, AppendProperties
  <2>4. ASSUME NEW i \in 1 .. L PROVE input'[i] = typed'[(Len(typed') - L) + i]
    <3>1. CASE i = L
      BY <1>1, <1>2, <2>3, <3>1
    <3>2. CASE i # L
      <4>1. i \in 1 .. L - 1 /\ i + 1 \in 1 .. L
        BY <1>1, <3>2
      <4>2. input'[i] = typed[(Len(typed) - L) + (i + 1)]
        BY <2>1, <2>2, <2>3, <4>1 DEF WindowOK
      <4>3. /\ (Len(typed) - L) + (i + 1) = (Len(typed') - L) + i
            /\ (Len(typed) - L) + (i + 1) \in 1 .. Len(typed)
        BY <1>1, <1>2, <1>4, <4>1
      <4> QED
        BY <1>2, <4>2, <4>3
    <3> QED
      BY <3>1, <3>2
  <2>5. Len(input') = IF Len(typed') < L THEN Len(typed') ELSE L
    BY <1>1, <1>2, <1>4, <2>3
  <2> QED
    BY <1>2, <2>3, <2>4, <2>5 DEF WindowOK
<1> QED
  BY <1>3, <1>4

\* What the window withholds: the beginning of the exit sequence while it is all
\* that was typed, and the whole of it.
LEMMA WithheldKeys ==
    ASSUME TypedOK, WindowOK
    PROVE  Withheld(input) <=>
               \/ input = ExitSequence
               \/ /\ Len(typed) =< Len(ExitSequence)
                  /\ \A i \in 1 .. Len(typed) : typed[i] = ExitSequence[i]
<1> DEFINE L == Len(ExitSequence)
<1>1. L \in Nat /\ ExitSequence \in Seq(Keys) /\ Len(typed) \in Nat /\ Len(input) \in Nat
  BY ExitLength, LenProperties DEF TypedOK
<1>2. Withheld(input) <=> Len(input) =< L /\ \A i \in 1 .. Len(input) : input[i] = ExitSequence[i]
  BY <1>1, PrefixByPosition DEF Withheld, IsPrefixOfExit, TypedOK
<1>3. CASE Len(typed) =< L
  <2>1. Len(input) = Len(typed) /\ \A i \in 1 .. Len(input) : (Len(typed) - Len(input)) + i = i
    BY <1>1, <1>3 DEF WindowOK
  <2>2. ASSUME NEW i \in 1 .. Len(typed) PROVE input[i] = typed[i]
    <3>1. i \in 1 .. Len(input) /\ (Len(typed) - Len(input)) + i = i
      BY <2>1
    <3>2. input[i] = typed[(Len(typed) - Len(input)) + i]
      BY <3>1 DEF WindowOK
    <3> QED
      BY <3>1, <3>2
  <2>3. input = ExitSequence => Len(typed) =< L /\ \A i \in 1 .. Len(typed) : typed[i] = ExitSequence[i]
    BY <1>3, <2>1, <2>2
  <2> QED
    BY <1>2, <1>3, <2>1, <2>2, <2>3
<1>4. CASE ~(Len(typed) =< L)
  <2>1. Len(input) = L
    BY <1>1, <1>4 DEF WindowOK
  <2>2. Withheld(input) => input = ExitSequence
    BY <1>1, <1>2, <2>1, SeqEqual DEF TypedOK
  <2>3. input = ExitSequence => Withheld(input)
    BY <1>1, <1>2
  <2> QED
    BY <1>4, <2>2, <2>3
<1> QED
  BY <1>3, <1>4

LEMMA KeyKeeps == ASSUME KeysInv, NEW key \in Keys, BridgeKey(key) PROVE KeysInv'
<1> DEFINE L == Len(ExitSequence)
<1>1. /\ ~exiting /\ input' = Window(input, key) /\ exiting' = (input' = ExitSequence)
      /\ toGps' = IF Withheld(input') THEN toGps ELSE Append(toGps, key)
      /\ typed' = Append(typed, key)
  BY DEF BridgeKey
<1>2. /\ input' \in Seq(Keys) /\ typed' \in Seq(Keys) /\ WindowOK'
      /\ Len(typed') = Len(typed) + 1 /\ typed'[Len(typed) + 1] = key
      /\ \A i \in 1 .. Len(typed) : typed'[i] = typed[i]
  BY <1>1, WindowMoves DEF KeysInv
<1>3. L \in Nat \ {0} /\ Len(typed) \in Nat /\ toGps \in Seq(Keys) /\ Len(toGps) \in Nat
  BY ExitLength, LenProperties DEF KeysInv, TypedOK
<1>4. /\ Append(toGps, key) \in Seq(Keys) /\ Len(Append(toGps, key)) = Len(toGps) + 1
      /\ Append(toGps, key)[Len(toGps) + 1] = key
      /\ \A i \in 1 .. Len(toGps) : Append(toGps, key)[i] = toGps[i]
  BY <1>3, AppendProperties
<1>5. TypedOK'
  BY <1>1, <1>2, <1>3, <1>4 DEF TypedOK
<1>6. Withheld(input') <=>
          \/ exiting'
          \/ Len(typed') =< L /\ \A i \in 1 .. Len(typed') : typed'[i] = ExitSequence[i]
  <2>1. (Withheld(input) <=>
             \/ input = ExitSequence
             \/ /\ Len(typed) =< Len(ExitSequence)
                /\ \A i \in 1 .. Len(typed) : typed[i] = ExitSequence[i])'
    BY <1>2, <1>5, WithheldKeys, PTL
  <2> QED
    BY <1>1, <2>1 DEF Withheld
<1>7. PICK b \in 0 .. Len(typed) :
         /\ Opening(b) /\ Len(toGps) = Len(typed) - b
         /\ \A i \in 1 .. Len(toGps) : toGps[i] = typed[b + i]
  <2>1. PICK b \in 0 .. Len(typed) :
           /\ Opening(b) /\ Len(toGps) = IF b =< Passed THEN Passed - b ELSE 0
           /\ \A i \in 1 .. Len(toGps) : toGps[i] = typed[b + i]
    BY DEF KeysInv, ForwardOK
  <2>2. Passed = Len(typed)
    BY <1>1 DEF Passed
  <2>3. Len(toGps) = Len(typed) - b
    BY <1>3, <2>1, <2>2
  <2> QED
    BY <2>1, <2>3
<1>8. CASE b = Len(typed) /\ b < L /\ key = ExitSequence[b + 1]
  <2>1. \A i \in 1 .. b + 1 : typed'[i] = ExitSequence[i]
    <3> SUFFICES ASSUME NEW i \in 1 .. b + 1 PROVE typed'[i] = ExitSequence[i]
      OBVIOUS
    <3>1. CASE i = b + 1
      BY <1>2, <1>8, <3>1
    <3>2. CASE i # b + 1
      BY <1>2, <1>3, <1>7, <1>8, <3>2 DEF Opening
    <3> QED
      BY <3>1, <3>2
  <2>2. Opening(b + 1)'
    BY <1>2, <1>3, <1>8, <2>1 DEF Opening
  <2>3. toGps' = toGps /\ Len(toGps) = 0
    BY <1>1, <1>2, <1>3, <1>6, <1>7, <1>8, <2>1
  <2>4. ForwardOK'
    <3>1. b + 1 \in 0 .. Len(typed')
      BY <1>2, <1>3, <1>8
    <3>2. Len(toGps') = IF b + 1 =< Passed' THEN Passed' - (b + 1) ELSE 0
      BY <1>2, <1>3, <1>8, <2>3 DEF Passed
    <3>3. \A i \in 1 .. Len(toGps') : toGps'[i] = typed'[(b + 1) + i]
      BY <2>3
    <3> QED
      BY <2>2, <3>1, <3>2, <3>3 DEF ForwardOK
  <2> QED
    BY <1>2, <1>5, <2>4 DEF KeysInv
<1>9. CASE ~(b = Len(typed) /\ b < L /\ key = ExitSequence[b + 1])
  <2>1. Opening(b)'
    <3>1. b =< Len(typed') /\ b =< L /\ \A i \in 1 .. b : typed'[i] = ExitSequence[i]
      BY <1>2, <1>3, <1>7 DEF Opening
    <3>2. CASE b = Len(typed)
      BY <1>2, <1>3, <1>9, <3>1, <3>2 DEF Opening
    <3>3. CASE b # Len(typed)
      <4>1. b + 1 \in 1 .. Len(typed)
        BY <1>3, <3>3
      <4>2. typed'[b + 1] = typed[b + 1]
        BY <1>2, <4>1
      <4> QED
        BY <1>7, <3>1, <3>3, <4>2 DEF Opening
    <3> QED
      BY <3>2, <3>3
  <2>2. Withheld(input') <=> exiting'
    <3> SUFFICES ASSUME Len(typed') =< L, \A i \in 1 .. Len(typed') : typed'[i] = ExitSequence[i]
                 PROVE  FALSE
      BY <1>6
    <3>1. b < Len(typed') /\ b < L /\ b + 1 \in 1 .. Len(typed')
      BY <1>2, <1>3
    <3>2. typed'[b + 1] = ExitSequence[b + 1]
      BY <3>1
    <3> QED
      BY <1>2, <2>1, <3>1, <3>2 DEF Opening
  <2>3. CASE exiting'
    <3>1. toGps' = toGps /\ Passed' = Len(typed)
      BY <1>1, <1>2, <1>3, <2>2, <2>3 DEF Passed
    <3>2. ASSUME NEW i \in 1 .. Len(toGps) PROVE toGps[i] = typed'[b + i]
      <4>1. b + i \in 1 .. Len(typed)
        BY <1>3, <1>7
      <4> QED
        BY <1>2, <1>7, <4>1
    <3>3. b \in 0 .. Len(typed') /\ b =< Passed'
      BY <1>2, <1>3, <3>1
    <3> QED
      BY <1>2, <1>5, <1>7, <2>1, <3>1, <3>2, <3>3 DEF KeysInv, ForwardOK
  <2>4. CASE ~exiting'
    <3>1. toGps' = Append(toGps, key) /\ Passed' = Len(typed) + 1
      BY <1>1, <1>2, <1>3, <2>2, <2>4 DEF Passed
    <3>2. ASSUME NEW i \in 1 .. Len(toGps') PROVE toGps'[i] = typed'[b + i]
      <4>1. CASE i = Len(toGps) + 1
        <5>1. b + i = Len(typed) + 1
          BY <1>3, <1>7, <4>1
        <5> QED
          BY <1>2, <1>4, <3>1, <4>1, <5>1
      <4>2. CASE i # Len(toGps) + 1
        <5>1. i \in 1 .. Len(toGps) /\ b + i \in 1 .. Len(typed)
          BY <1>3, <1>4, <1>7, <3>1, <4>2
        <5> QED
          BY <1>2, <1>4, <1>7, <3>1, <5>1
      <4> QED
        BY <4>1, <4>2
    <3>3. b \in 0 .. Len(typed') /\ b =< Passed' /\ Len(toGps') = Passed' - b
      BY <1>2, <1>3, <1>4, <1>7, <3>1
    <3> QED
      BY <1>2, <1>5, <2>1, <3>2, <3>3 DEF KeysInv, ForwardOK
  <2> QED
    BY <2>3, <2>4
<1> QED
  BY <1>8, <1>9

LEMMA AlwaysKeysInv == Spec => []KeysInv
<1>1. ASSUME KeysInv, [Next]_vars PROVE KeysInv'
  <2>1. CASE \E key \in Keys : BridgeKey(key)
    BY <1>1, <2>1, KeyKeeps
  <2>2. CASE BridgeEnd
    <3>1. input' = <<>> /\ exiting' = FALSE /\ typed' = <<>> /\ toGps' = <<>>
      BY <2>2 DEF BridgeEnd
    <3> QED
      BY <3>1, ExitAssumption, EmptySeq, LenProperties
         DEF KeysInv, TypedOK, WindowOK, ForwardOK, Opening, Passed
  <2>3. CASE UNCHANGED <<typed, input, exiting, toGps>>
    BY <1>1, <2>3 DEF KeysInv, TypedOK, WindowOK, ForwardOK, Opening, Passed
  <2> QED
    BY <1>1, <2>1, <2>2, <2>3
       DEF Next, BeginSentence, ContinueSentence, CollectBegin, CollectBeginJunk, CollectSymbol,
           CollectEnd, BridgeBegin, BridgeOpen, BridgeSymbol, Silent, vars, bridge
<1> QED
  BY <1>1, KeysInit, PTL DEF Spec

LEMMA OpeningIsBegun ==
    ASSUME TypedOK, NEW b \in 0 .. Len(typed), Opening(b)
    PROVE  b = Begun
<1> DEFINE S == {k \in 0 .. Len(typed) : IsPrefixOfExit(SubSeq(typed, 1, k))}
<1>1. Len(typed) \in Nat /\ ExitSequence \in Seq(Keys) /\ Len(ExitSequence) \in Nat
  BY ExitLength, LenProperties DEF TypedOK
<1>2. ASSUME NEW k \in 0 .. Len(typed)
      PROVE  k \in S <=> k =< Len(ExitSequence) /\ \A i \in 1 .. k : typed[i] = ExitSequence[i]
  <2>1. \A i \in 1 .. k : typed[i] \in Keys
    BY <1>1, ElementOfSeq DEF TypedOK
  <2>2. /\ SubSeq(typed, 1, k) \in Seq(Keys) /\ Len(SubSeq(typed, 1, k)) = k
        /\ \A i \in 1 .. k : SubSeq(typed, 1, k)[i] = typed[i]
    BY <1>1, <2>1, SubSeqProperties
  <2>3. IsPrefixOfExit(SubSeq(typed, 1, k)) <=>
            k =< Len(ExitSequence) /\ \A i \in 1 .. k : SubSeq(typed, 1, k)[i] = ExitSequence[i]
    <3> DEFINE t == SubSeq(typed, 1, k)
    <3>1. t \in Seq(Keys) /\ Len(t) = k
      BY <2>2
    <3> HIDE DEF t
    <3>2. IsPrefix(t, ExitSequence) <=> k =< Len(ExitSequence) /\ \A i \in 1 .. k : t[i] = ExitSequence[i]
      BY <1>1, <3>1, PrefixByPosition
    <3> QED
      BY <3>2 DEF t, IsPrefixOfExit
  <2> QED
    BY <2>2, <2>3
<1>3. b \in S
  BY <1>2 DEF Opening
<1>4. ASSUME NEW k \in S PROVE k =< b
  <2>1. k \in 0 .. Len(typed) /\ k =< Len(ExitSequence) /\ \A i \in 1 .. k : typed[i] = ExitSequence[i]
    BY <1>2
  <2>2. k > b => b + 1 \in 1 .. k
    BY <1>1, <2>1
  <2> QED
    BY <1>1, <2>1, <2>2 DEF Opening
<1>5. \A x \in S : (\A y \in S : x >= y) => x = b
  BY <1>1, <1>3, <1>4
<1> HIDE DEF S
<1>6. b \in S /\ \A y \in S : b >= y
  BY <1>1, <1>3, <1>4
<1>7. Max(S) = b
  BY <1>5, <1>6 DEF Max
<1> QED
  BY <1>7 DEF S, Begun

\* For every exit sequence: the session ends exactly when it has been typed, and the
\* GPS gets exactly what else was typed.
THEOREM Exit == Spec => []SessionExact
<1>1. ASSUME KeysInv PROVE SessionExact
  <2>1. /\ Len(ExitSequence) \in Nat \ {0} /\ ExitSequence \in Seq(Keys)
        /\ Len(typed) \in Nat /\ Len(input) \in Nat /\ typed \in Seq(Keys) /\ input \in Seq(Keys)
        /\ toGps \in Seq(Keys) /\ Len(toGps) \in Nat
    BY <1>1, ExitLength, LenProperties DEF KeysInv, TypedOK
  <2>2. exiting <=> IsSuffix(ExitSequence, typed)
    <3>1. IsSuffix(ExitSequence, typed) <=>
              /\ Len(ExitSequence) =< Len(typed)
              /\ \A i \in 1 .. Len(ExitSequence) :
                    ExitSequence[i] = typed[(Len(typed) - Len(ExitSequence)) + i]
      BY <2>1, SuffixByPosition
    <3>2. CASE Len(ExitSequence) =< Len(typed)
      <4>1. Len(input) = Len(ExitSequence)
        BY <1>1, <2>1, <3>2 DEF KeysInv, WindowOK
      <4>2. input = ExitSequence <=> \A i \in 1 .. Len(ExitSequence) : ExitSequence[i] = input[i]
        BY <2>1, <4>1, SeqEqual
      <4> QED
        BY <1>1, <3>1, <3>2, <4>1, <4>2 DEF KeysInv, TypedOK, WindowOK
    <3>3. CASE ~(Len(ExitSequence) =< Len(typed))
      BY <1>1, <2>1, <3>1, <3>3 DEF KeysInv, TypedOK, WindowOK
    <3> QED
      BY <3>2, <3>3
  <2>3. PICK b \in 0 .. Len(typed) :
           /\ Opening(b)
           /\ Len(toGps) = IF b =< Passed THEN Passed - b ELSE 0
           /\ \A i \in 1 .. Len(toGps) : toGps[i] = typed[b + i]
    BY <1>1 DEF KeysInv, ForwardOK
  <2>4. b = Begun
    BY <1>1, <2>3, OpeningIsBegun DEF KeysInv
  <2>5. toGps = SubSeq(typed, b + 1, Passed)
    <3>1. Passed \in Int /\ Passed =< Len(typed)
      BY <2>1 DEF Passed
    <3>2. \A i \in b + 1 .. Passed : typed[i] \in Keys
      BY <2>1, <3>1, ElementOfSeq
    <3>3. /\ SubSeq(typed, b + 1, Passed) \in Seq(Keys)
          /\ Len(SubSeq(typed, b + 1, Passed)) = IF b + 1 =< Passed THEN (Passed - (b + 1)) + 1 ELSE 0
          /\ \A i \in 1 .. (Passed - (b + 1)) + 1 : SubSeq(typed, b + 1, Passed)[i] = typed[((b + 1) + i) - 1]
      <4>1. b + 1 \in Int
        BY <2>1
      <4> QED
        BY <3>1, <3>2, <4>1, SubSeqProperties
    <3>4. Len(toGps) = Len(SubSeq(typed, b + 1, Passed))
      BY <2>1, <2>3, <3>1, <3>3
    <3>5. ASSUME NEW i \in 1 .. Len(toGps) PROVE toGps[i] = SubSeq(typed, b + 1, Passed)[i]
      <4>1. i \in 1 .. (Passed - (b + 1)) + 1 /\ ((b + 1) + i) - 1 = b + i
        BY <2>1, <2>3, <3>1
      <4> QED
        BY <2>3, <3>3, <4>1
    <3> QED
      BY <2>1, <3>3, <3>4, <3>5, SeqEqual
  <2> QED
    BY <2>2, <2>4, <2>5 DEF SessionExact, Passed
<1> QED
  BY <1>1, AlwaysKeysInv, PTL

-----------------------------------------------------------------------------
(* The damages.                                                            *)

LEMMA StreamFacts ==
    ASSUME LineInv
    PROVE  /\ Len(sent) \in Nat /\ place \in Nat /\ damages \in Nat /\ spoiled \in Nat
           /\ Len(fifo) \in Nat /\ Len(raw) \in Nat
           /\ fifo # <<>> <=> Len(fifo) > 0
           /\ raw # <<>> <=> Len(raw) > 0
           /\ \A m \in 1 .. Len(sent) : sent[m] \in Nat \ {0}
           /\ \A i \in 1 .. Len(fifo) : fifo[i] \in Symbols
           /\ \A i \in 1 .. Len(raw) : raw[i] = Junk \/ (raw[i] \in Symbols /\ raw[i][2] # 0)
<1>1. /\ sent \in Seq(Lengths) /\ fifo \in Seq(Symbols) /\ place \in Nat /\ damages \in Nat
      /\ spoiled \in Nat /\ raw \in Seq({s \in Symbols : s[2] # 0} \cup {Junk})
  BY DEF LineInv, StreamOK, CollectorOK
<1>2. Len(sent) \in Nat /\ Len(fifo) \in Nat /\ Len(raw) \in Nat
  BY <1>1, LenProperties
<1>3. (fifo # <<>> <=> Len(fifo) > 0) /\ (raw # <<>> <=> Len(raw) > 0)
  BY <1>1, EmptySeq
<1>4. \A m \in 1 .. Len(sent) : sent[m] \in Nat \ {0}
  BY <1>1, SizeAssumption, ElementOfSeq
<1>5. \A i \in 1 .. Len(fifo) : fifo[i] \in Symbols
  BY <1>1, ElementOfSeq
<1>6. \A i \in 1 .. Len(raw) : raw[i] \in {s \in Symbols : s[2] # 0} \cup {Junk}
  BY <1>1, ElementOfSeq
<1> QED
  BY <1>1, <1>2, <1>3, <1>4, <1>5, <1>6

LEMMA SymbolFacts ==
    ASSUME LineInv, NEW s \in Symbols
    PROVE  /\ s = <<s[1], s[2]>> /\ s[1] \in 1 .. Len(sent) /\ s[2] \in Nat /\ s[2] =< sent[s[1]]
           /\ s # Junk
  BY StreamFacts DEF Symbols, Junk

LEMMA CountFacts == \A c \in BOOLEAN : Count(c) \in {0, 1} /\ (c => Count(c) = 1) /\ (~c => Count(c) = 0)
  BY DEF Count

LEMMA OwedFacts ==
    ASSUME LineInv
    PROVE  /\ Owed \in Nat /\ spoiled =< Owed
           /\ Spoilt \in BOOLEAN /\ Torn \in BOOLEAN /\ ~(Spoilt /\ Torn)
           /\ core0 = "serve" => Owed = (spoiled + Count(Spoilt)) + Count(Torn)
           /\ core0 = "settle" => Owed = ((spoiled + Count(Spoilt)) + Count(Torn)) + 1
           /\ core0 = "bridge" => Owed = (spoiled + Count(Spoilt)) + 1
<1>1. Spoilt \in BOOLEAN /\ Torn \in BOOLEAN /\ ~(Spoilt /\ Torn)
  BY DEF Spoilt, Torn, Marked, InStep
<1>2. Count(Spoilt) \in {0, 1} /\ Count(Torn) \in {0, 1}
  BY DEF Count
<1>3. spoiled \in Nat /\ core0 \in {"serve", "settle", "bridge"}
  BY DEF LineInv, CollectorOK, PauseOK
<1>4. CASE core0 = "serve"
  <2>1. Owed = ((spoiled + Count(Spoilt)) + Count(Torn)) + 0
    BY <1>1, <1>4 DEF Owed, Count
  <2> QED
    BY <1>1, <1>2, <1>3, <1>4, <2>1
<1>5. CASE core0 = "settle"
  <2>1. Owed = ((spoiled + Count(Spoilt)) + Count(Torn)) + 1
    BY <1>1, <1>5 DEF Owed, Count
  <2> QED
    BY <1>1, <1>2, <1>3, <1>5, <2>1
<1>6. CASE core0 = "bridge"
  <2>1. Owed = ((spoiled + Count(Spoilt)) + 0) + 1
    BY <1>1, <1>6 DEF Owed, Count
  <2> QED
    BY <1>1, <1>2, <1>3, <1>6, <2>1
<1> QED
  BY <1>3, <1>4, <1>5, <1>6

\* A further damage pays for what it may spoil.
LEMMA DamagePays ==
    ASSUME LineInv, UNCHANGED <<sent, place, fifo>>, NEW d \in {0, 1},
           damages' = damages + d, Owed' \in Nat, Owed' =< Owed + d
    PROVE  Accounted'
<1>1. PICK paid \in [1 .. Len(fifo) -> 0 .. damages] : Paid(paid)
  BY DEF LineInv, Accounted
<1>2. PICK more : more = [i \in 1 .. Len(fifo) |-> paid[i] + d]
  OBVIOUS
<1>3. /\ more \in [1 .. Len(fifo') -> 0 .. damages']
      /\ \A i \in 1 .. Len(fifo) : paid[i] \in Nat /\ more[i] = paid[i] + d
  <2>1. Len(fifo) \in Nat /\ damages \in Nat
    BY StreamFacts
  <2>2. \A i \in 1 .. Len(fifo) : paid[i] \in 0 .. damages
    BY <1>1
  <2>3. \A i \in 1 .. Len(fifo) : more[i] = paid[i] + d /\ more[i] \in 0 .. damages'
    BY <1>2, <2>1, <2>2
  <2> QED
    BY <1>2, <2>1, <2>2, <2>3
<1>4. \A i \in 1 .. Len(fifo) : GapAfter(i)' <=> GapAfter(i)
  BY DEF GapAfter, Out, Succ
<1>5. ASSUME NEW i \in 1 .. Len(fifo')
      PROVE  more[i] + Count(GapAfter(i))' =< (IF i = Len(fifo') THEN damages' ELSE more[i + 1])
  <2>1. i \in 1 .. Len(fifo) /\ (i # Len(fifo) => i + 1 \in 1 .. Len(fifo))
    BY StreamFacts
  <2>2. Count(GapAfter(i)) \in {0, 1} /\ Count(GapAfter(i))' = Count(GapAfter(i))
    BY <1>4, <2>1 DEF Count
  <2>3. paid[i] + Count(GapAfter(i)) =< (IF i = Len(fifo) THEN damages ELSE paid[i + 1])
    BY <1>1, <2>1 DEF Paid
  <2>4. paid[i] \in Nat /\ more[i] = paid[i] + d /\ damages \in Nat
    BY <1>3, <2>1, StreamFacts
  <2>5. CASE i = Len(fifo)
    BY <2>2, <2>3, <2>4, <2>5
  <2>6. CASE i # Len(fifo)
    <3>1. paid[i + 1] \in Nat /\ more[i + 1] = paid[i + 1] + d
      BY <1>3, <2>1, <2>6
    <3> QED
      BY <2>2, <2>3, <2>4, <2>6, <3>1
  <2> QED
    BY <2>5, <2>6
<1>6. /\ fifo' # <<>> => Owed' =< more[1]
      /\ fifo' = <<>> => Owed' =< damages'
  BY <1>1, <1>3, StreamFacts, OwedFacts DEF Paid
<1>7. Paid(more)'
  BY <1>5, <1>6 DEF Paid
<1> QED
  BY <1>3, <1>7 DEF Accounted

\* Whoever takes the first symbol takes over the gap behind it.
LEMMA SymbolTaken ==
    ASSUME LineInv, fifo # <<>>, fifo' = Tail(fifo), UNCHANGED <<sent, place, damages>>,
           Owed' \in Nat, Owed' =< Owed + Count(GapAfter(1))
    PROVE  Accounted' /\ fifo' \in Seq(Symbols')
<1>1. PICK paid \in [1 .. Len(fifo) -> 0 .. damages] : Paid(paid)
  BY DEF LineInv, Accounted
<1>2. /\ fifo' \in Seq(Symbols) /\ Len(fifo') = Len(fifo) - 1 /\ Len(fifo) \in Nat \ {0}
      /\ \A i \in 1 .. Len(fifo') : fifo'[i] = fifo[i + 1]
  BY StreamFacts, HeadTailProperties DEF LineInv, StreamOK
<1>3. Len(fifo') \in Nat
  BY <1>2
<1>4. Symbols' = Symbols
  BY DEF Symbols
<1>5. PICK rest : rest = [i \in 1 .. Len(fifo') |-> paid[i + 1]]
  OBVIOUS
<1>6. /\ rest \in [1 .. Len(fifo') -> 0 .. damages']
      /\ \A i \in 1 .. Len(fifo') : rest[i] = paid[i + 1]
  BY <1>1, <1>2, <1>5
<1>7. ASSUME NEW i \in 1 .. Len(fifo') PROVE GapAfter(i)' <=> GapAfter(i + 1)
  <2>1. fifo'[i] = fifo[i + 1] /\ (i = Len(fifo') <=> i + 1 = Len(fifo))
    BY <1>2
  <2>2. ASSUME i # Len(fifo') PROVE fifo'[i + 1] = fifo[(i + 1) + 1]
    <3>1. i + 1 \in 1 .. Len(fifo')
      BY <1>3, <2>2
    <3> QED
      BY <1>2, <3>1
  <2>3. Out' = Out /\ Succ(fifo[i])' = Succ(fifo[i + 1])
    BY <2>1 DEF Out, Succ
  <2> QED
    BY <2>1, <2>2, <2>3 DEF GapAfter
<1>8. ASSUME NEW i \in 1 .. Len(fifo')
      PROVE  rest[i] + Count(GapAfter(i))' =< (IF i = Len(fifo') THEN damages' ELSE rest[i + 1])
  <2>1. i + 1 \in 1 .. Len(fifo) /\ (i = Len(fifo') <=> i + 1 = Len(fifo))
    BY <1>2
  <2>2. paid[i + 1] + Count(GapAfter(i + 1)) =< (IF i + 1 = Len(fifo) THEN damages ELSE paid[(i + 1) + 1])
    BY <1>1, <2>1 DEF Paid
  <2>3. ASSUME i # Len(fifo') PROVE rest[i + 1] = paid[(i + 1) + 1]
    <3>1. i + 1 \in 1 .. Len(fifo')
      BY <1>3, <2>3
    <3> QED
      BY <1>6, <3>1
  <2>4. Count(GapAfter(i))' = Count(GapAfter(i + 1))
    BY <1>7 DEF Count
  <2> QED
    BY <1>6, <2>1, <2>2, <2>3, <2>4
<1>9. Owed' =< (IF Len(fifo) = 1 THEN damages ELSE paid[2])
  <2>1. 1 \in 1 .. Len(fifo) /\ (1 # Len(fifo) => 2 \in 1 .. Len(fifo))
    BY <1>2
  <2>2. paid[1] + Count(GapAfter(1)) =< (IF 1 = Len(fifo) THEN damages ELSE paid[1 + 1])
    BY <1>1, <2>1 DEF Paid
  <2>3. Owed =< paid[1] /\ Owed \in Nat /\ paid[1] \in Nat /\ (1 # Len(fifo) => paid[2] \in Nat)
    BY <1>1, <2>1, OwedFacts DEF Paid
  <2>4. Count(GapAfter(1)) \in {0, 1}
    BY DEF Count
  <2>5. CASE Len(fifo) = 1
    <3>1. paid[1] + Count(GapAfter(1)) =< damages /\ damages \in Nat
      BY <2>2, <2>5, StreamFacts
    <3> QED
      BY <2>3, <2>4, <2>5, <3>1
  <2>6. CASE Len(fifo) # 1
    <3>1. paid[1] + Count(GapAfter(1)) =< paid[2] /\ paid[2] \in Nat
      BY <2>2, <2>3, <2>6
    <3> QED
      BY <2>3, <2>4, <2>6, <3>1
  <2> QED
    BY <2>5, <2>6
<1>10. /\ fifo' # <<>> => Owed' =< rest[1]
       /\ fifo' = <<>> => Owed' =< damages'
  <2>1. fifo' # <<>> => Len(fifo) # 1 /\ 1 \in 1 .. Len(fifo')
    BY <1>2, EmptySeq
  <2>2. fifo' = <<>> => Len(fifo) = 1
    BY <1>2, EmptySeq
  <2> QED
    BY <1>6, <1>9, <2>1, <2>2
<1>11. Paid(rest)'
  BY <1>8, <1>10 DEF Paid
<1> QED
  BY <1>2, <1>4, <1>6, <1>11 DEF Accounted

\* A line ends: a message that is not its sentence was spoilt, or is torn here.
LEMMA LineEnds ==
    ASSUME LineInv, fifo # <<>>, fifo[1][2] = 0, Marked(raw), raw # Sentence(raw[1][1])
    PROVE  Spoilt \/ Torn
<1> SUFFICES ASSUME InStep(raw) PROVE Torn
  BY DEF Spoilt
<1> DEFINE m == raw[1][1]
<1>1. raw # <<>> /\ raw[1] # Junk /\ Len(raw) \in Nat \ {0}
  BY StreamFacts DEF Marked
<1>2. raw[1] \in Symbols
  BY <1>1, StreamFacts
<1>3. m \in 1 .. Len(sent) /\ sent[m] \in Nat
  BY <1>2, SymbolFacts, StreamFacts
<1>4. Len(raw) =< sent[m] /\ \A i \in 1 .. Len(raw) : raw[i] = <<m, i>>
  BY DEF InStep
<1>5. Len(raw) # sent[m]
  <2> SUFFICES ASSUME Len(raw) = sent[m] PROVE FALSE
    OBVIOUS
  <2>1. raw = [i \in 1 .. Len(raw) |-> raw[i]]
    BY LenProperties DEF LineInv, CollectorOK
  <2>2. raw = [i \in 1 .. sent[m] |-> <<m, i>>]
    BY <1>4, <2>1
  <2> QED
    BY <2>2 DEF Sentence
<1>6. Succ(<<m, Len(raw)>>) = <<m, Len(raw) + 1>>
  BY <1>1, <1>3, <1>4, <1>5 DEF Succ
<1>7. fifo[1] # <<m, Len(raw) + 1>>
  BY <1>1
<1> QED
  BY <1>6, <1>7 DEF Torn

\* A symbol joins the message: what is new to it is the gap behind the symbol.
LEMMA SymbolJoins ==
    ASSUME LineInv, fifo # <<>>, fifo[1][2] # 0, fifo' = Tail(fifo), raw' = Append(raw, fifo[1]),
           UNCHANGED <<sent, place>>
    PROVE  /\ Spoilt' => Spoilt \/ Torn
           /\ Torn' => GapAfter(1)
<1> DEFINE c == fifo[1]
<1>1. c \in Symbols /\ c # Junk /\ c = <<c[1], c[2]>> /\ c[1] \in 1 .. Len(sent)
      /\ c[2] \in Nat \ {0} /\ c[2] =< sent[c[1]]
  <2>1. c \in Symbols
    BY StreamFacts
  <2> QED
    BY <2>1, SymbolFacts
<1>2. /\ Len(raw') = Len(raw) + 1 /\ raw'[Len(raw) + 1] = c /\ raw' # <<>>
      /\ \A i \in 1 .. Len(raw) : raw'[i] = raw[i]
  <2>1. c \in {s \in Symbols : s[2] # 0} \cup {Junk}
    BY <1>1
  <2> QED
    BY <2>1, AppendProperties DEF LineInv, CollectorOK
<1>3. Len(raw) \in Nat /\ (raw = <<>> <=> Len(raw) = 0)
  BY StreamFacts
<1>4. /\ fifo' = <<>> <=> Len(fifo) = 1
      /\ fifo' # <<>> => fifo'[1] = fifo[2]
      /\ Len(fifo) \in Nat \ {0}
  <2>1. /\ fifo' \in Seq(Symbols) /\ Len(fifo') = Len(fifo) - 1 /\ Len(fifo) \in Nat \ {0}
        /\ \A i \in 1 .. Len(fifo') : fifo'[i] = fifo[i + 1]
    BY StreamFacts, HeadTailProperties DEF LineInv, StreamOK
  <2>2. fifo' # <<>> => 1 \in 1 .. Len(fifo')
    BY <2>1, EmptySeq
  <2>3. fifo' = <<>> <=> Len(fifo) = 1
    BY <2>1, EmptySeq
  <2>4. fifo' # <<>> => fifo'[1] = fifo[1 + 1]
    BY <2>1, <2>2
  <2> QED
    BY <2>1, <2>3, <2>4
\* In step, the message goes on as far as the symbol, and is torn only behind it.
<1>5. ASSUME c = <<raw'[1][1], Len(raw')>>, Torn' PROVE GapAfter(1)
  <2>1. IF fifo' = <<>> THEN Out # c ELSE fifo'[1] # Succ(c)
    BY <1>5 DEF Torn, Out, Succ
  <2> QED
    BY <1>4, <2>1 DEF GapAfter
<1>6. CASE raw = <<>>
  <2>1. Len(raw') = 1 /\ raw'[1] = c
    BY <1>2, <1>3, <1>6
  <2>2. Marked(raw)' => c = <<raw'[1][1], Len(raw')>>
    BY <1>1, <2>1 DEF Marked
  <2>3. c = <<raw'[1][1], Len(raw')>> => InStep(raw)'
    <3> SUFFICES ASSUME c = <<c[1], 1>> PROVE InStep(raw)'
      BY <2>1
    <3>1. Len(raw') =< sent'[raw'[1][1]]
      BY <1>1, <2>1
    <3>2. \A i \in 1 .. Len(raw') : raw'[i] = <<raw'[1][1], i>>
      BY <2>1
    <3> QED
      BY <3>1, <3>2 DEF InStep
  <2> QED
    BY <1>5, <2>2, <2>3 DEF Spoilt, Torn
<1>7. CASE raw # <<>>
  <2>1. raw'[1] = raw[1] /\ (Marked(raw)' <=> Marked(raw))
    <3>1. 1 \in 1 .. Len(raw)
      BY <1>3, <1>7
    <3>2. raw'[1] = raw[1]
      BY <1>2, <3>1
    <3> QED
      BY <1>2, <1>7, <3>2 DEF Marked
  <2>2. ASSUME Marked(raw), InStep(raw), ~Torn
        PROVE  InStep(raw)' /\ c = <<raw'[1][1], Len(raw')>>
    <3> DEFINE m == raw[1][1]
    <3>1. raw[1] \in Symbols
      BY <1>3, <1>7, <2>2, StreamFacts DEF Marked
    <3>2. m \in 1 .. Len(sent) /\ sent[m] \in Nat
      BY <3>1, SymbolFacts, StreamFacts
    <3>3. c = Succ(<<m, Len(raw)>>)
      BY <2>2 DEF Torn
    <3>4. Len(raw) =< sent[m] /\ \A i \in 1 .. Len(raw) : raw[i] = <<m, i>>
      BY <2>2 DEF InStep
    <3>5. Len(raw) # sent[m] /\ c = <<m, Len(raw) + 1>>
      BY <1>1, <1>3, <1>7, <3>3 DEF Succ
    <3>6. Len(raw') =< sent[m]
      BY <1>2, <1>3, <3>2, <3>4, <3>5
    <3>7. ASSUME NEW i \in 1 .. Len(raw') PROVE raw'[i] = <<m, i>>
      <4>1. CASE i = Len(raw) + 1
        BY <1>2, <3>5, <4>1
      <4>2. CASE i # Len(raw) + 1
        <5>1. i \in 1 .. Len(raw)
          BY <1>2, <1>3, <3>7, <4>2
        <5> QED
          BY <1>2, <3>4, <5>1
      <4> QED
        BY <4>1, <4>2
    <3> QED
      BY <1>2, <2>1, <3>5, <3>6, <3>7 DEF InStep
  <2>3. ASSUME InStep(raw)', Marked(raw) PROVE InStep(raw)
    <3>1. /\ Len(raw) + 1 =< sent[raw[1][1]]
          /\ \A i \in 1 .. Len(raw) + 1 : raw'[i] = <<raw[1][1], i>>
      BY <1>2, <2>1, <2>3 DEF InStep
    <3>2. raw[1] \in Symbols
      BY <1>3, <1>7, <2>3, StreamFacts DEF Marked
    <3>3. sent[raw[1][1]] \in Nat
      BY <3>2, SymbolFacts, StreamFacts
    <3>4. Len(raw) =< sent[raw[1][1]]
      BY <1>3, <3>1, <3>3
    <3>5. ASSUME NEW i \in 1 .. Len(raw) PROVE raw[i] = <<raw[1][1], i>>
      BY <1>2, <1>3, <3>1
    <3> QED
      BY <3>4, <3>5 DEF InStep
  <2>4. Spoilt' => Spoilt \/ Torn
    BY <2>1, <2>2 DEF Spoilt
  <2>5. Torn' => GapAfter(1)
    <3> SUFFICES ASSUME Torn' PROVE GapAfter(1)
      OBVIOUS
    <3>1. Marked(raw) /\ InStep(raw)'
      BY <2>1 DEF Torn
    <3>2. c = <<raw'[1][1], Len(raw')>>
      <4>1. raw'[Len(raw) + 1] = <<raw'[1][1], Len(raw) + 1>>
        BY <1>2, <1>3, <3>1 DEF InStep
      <4> QED
        BY <1>2, <4>1
    <3> QED
      BY <1>5, <3>2
  <2> QED
    BY <2>4, <2>5
<1> QED
  BY <1>6, <1>7

LEMMA CollectSymbolKeeps == ASSUME LineInv, CollectSymbol PROVE LineInv'
<1>1. /\ core1 = "in" /\ fifo # <<>> /\ fifo' = Tail(fifo)
      /\ UNCHANGED <<sent, place, core1, junked, core0, paused, sessions, damages>>
  BY DEF CollectSymbol, gpsVars, bridge
<1>2. Head(fifo) = fifo[1] /\ fifo[1] \in Symbols /\ Len(raw) \in Nat
  BY <1>1, StreamFacts
<1>3. core0 # "bridge" /\ core0 \in {"serve", "settle", "bridge"}
  BY <1>1 DEF LineInv, PauseOK
<1>4. Symbols' = Symbols
  BY <1>1 DEF Symbols
<1>5. /\ spoiled' \in Nat
      /\ (spoiled' + Count(Spoilt')) + Count(Torn') =<
            ((spoiled + Count(Spoilt)) + Count(Torn)) + Count(GapAfter(1))
      /\ raw' \in Seq({s \in Symbols : s[2] # 0} \cup {Junk}) /\ Len(raw') =< MaxRaw - 1
  <2>1. /\ Count(Spoilt) \in {0, 1} /\ Count(Torn) \in {0, 1} /\ Count(GapAfter(1)) \in {0, 1}
        /\ Count(Spoilt') \in {0, 1} /\ Count(Torn') \in {0, 1} /\ spoiled \in Nat
    BY StreamFacts DEF Count
  <2>2. /\ <<>> \in Seq({s \in Symbols : s[2] # 0} \cup {Junk})
        /\ Len(<<>>) =< MaxRaw - 1
    BY EmptySeq, SizeAssumption
  <2>3. raw' = <<>> => Count(Spoilt') = 0 /\ Count(Torn') = 0
    BY DEF Count, Spoilt, Torn, Marked
  <2>4. CASE fifo[1][2] = 0
    <3>1. raw' = <<>>
      BY <1>2, <2>4 DEF CollectSymbol, IsEndOfLine, AfterLine
    <3>2. \/ spoiled' = spoiled
          \/ Marked(raw) /\ raw # Sentence(raw[1][1]) /\ spoiled' = spoiled + 1
      BY <1>2, <2>1, <2>4 DEF CollectSymbol, IsEndOfLine
    <3>3. Marked(raw) /\ raw # Sentence(raw[1][1]) => Count(Spoilt) = 1 \/ Count(Torn) = 1
      BY <1>1, <2>4, LineEnds DEF Count
    <3> QED
      BY <2>1, <2>2, <2>3, <3>1, <3>2, <3>3
  <2>5. CASE fifo[1][2] # 0
    <3>1. spoiled' = spoiled /\ raw' = IF Fits(raw) THEN Append(raw, fifo[1]) ELSE <<>>
      BY <1>2, <2>5 DEF CollectSymbol, IsEndOfLine, Overflown
    <3>2. CASE Fits(raw)
      <4>1. raw' = Append(raw, fifo[1])
        BY <3>1, <3>2
      <4>2. raw' \in Seq({s \in Symbols : s[2] # 0} \cup {Junk}) /\ Len(raw') = Len(raw) + 1
        <5>1. fifo[1] \in {s \in Symbols : s[2] # 0} \cup {Junk}
          BY <1>2, <2>5
        <5> QED
          BY <4>1, <5>1, AppendProperties DEF LineInv, CollectorOK
      <4>3. Len(raw') =< MaxRaw - 1
        BY <1>2, <3>2, <4>2, SizeAssumption DEF Fits
      <4>4. (Spoilt' => Spoilt \/ Torn) /\ (Torn' => GapAfter(1))
        BY <1>1, <2>5, <4>1, SymbolJoins
      <4>5. (Count(Spoilt') = 1 => Count(Spoilt) = 1 \/ Count(Torn) = 1)
            /\ (Count(Torn') = 1 => Count(GapAfter(1)) = 1)
        BY <4>4 DEF Count
      <4> QED
        BY <2>1, <3>1, <4>2, <4>3, <4>5
    <3>3. CASE ~Fits(raw)
      BY <2>1, <2>2, <2>3, <3>1, <3>3
    <3> QED
      BY <3>2, <3>3
  <2> QED
    BY <2>4, <2>5
<1>6. CollectorOK'
  BY <1>1, <1>4, <1>5 DEF LineInv, CollectorOK
<1>7. PauseOK'
  BY <1>1 DEF LineInv, PauseOK
<1>8. Owed' \in Nat /\ Owed' =< Owed + Count(GapAfter(1))
  <2>1. /\ Count(Spoilt) \in {0, 1} /\ Count(Torn) \in {0, 1} /\ Count(GapAfter(1)) \in {0, 1}
        /\ Count(Spoilt') \in {0, 1} /\ Count(Torn') \in {0, 1} /\ spoiled \in Nat
    BY StreamFacts DEF Count
  <2>2. Owed' = ((spoiled' + Count(Spoilt')) + Count(Torn')) + Count(core0 # "serve")
    BY <1>1, <1>3 DEF Owed, Count
  <2>3. Owed = ((spoiled + Count(Spoilt)) + Count(Torn)) + Count(core0 # "serve")
    BY <1>3 DEF Owed, Count
  <2>4. Count(core0 # "serve") \in {0, 1}
    BY DEF Count
  <2>5. /\ spoiled' \in Nat
        /\ (spoiled' + Count(Spoilt')) + Count(Torn') =<
              ((spoiled + Count(Spoilt)) + Count(Torn)) + Count(GapAfter(1))
    BY <1>5
  <2> QED
    BY <2>1, <2>2, <2>3, <2>4, <2>5
<1>9. Accounted' /\ fifo' \in Seq(Symbols')
  BY <1>1, <1>8, SymbolTaken
<1>10. StreamOK'
  BY <1>1, <1>4, <1>9 DEF LineInv, StreamOK
<1> QED
  BY <1>6, <1>7, <1>9, <1>10 DEF LineInv

\* The next symbol arrives, or is lost to a full UART.
LEMMA Arrival ==
    ASSUME LineInv, sent' \in Seq(Lengths), Len(sent) =< Len(sent'),
           \A m \in 1 .. Len(sent) : sent'[m] = sent[m],
           Out' = Succ(Out), Out' \in Symbols', Arrives(Out'),
           UNCHANGED <<raw, spoiled, core0>>
    PROVE  Accounted' /\ fifo' \in Seq(Symbols') /\ Symbols \subseteq Symbols' /\ damages' \in Nat
<1>1. \A s \in Symbols : s \in Symbols' /\ Succ(s)' = Succ(s)
  <2> SUFFICES ASSUME NEW s \in Symbols PROVE s \in Symbols' /\ Succ(s)' = Succ(s)
    OBVIOUS
  <2>1. s[1] \in 1 .. Len(sent) /\ sent'[s[1]] = sent[s[1]] /\ s[1] \in 1 .. Len(sent')
    <3>1. Len(sent') \in Nat
      BY LenProperties
    <3>2. s[1] \in 1 .. Len(sent) /\ Len(sent) \in Nat
      BY SymbolFacts, StreamFacts
    <3> QED
      BY <3>1, <3>2
  <2>2. s \in (1 .. Len(sent')) \X Nat /\ s[2] =< sent'[s[1]]
    BY <2>1 DEF Symbols
  <2>3. s \in Symbols'
    BY <2>2 DEF Symbols
  <2>4. Succ(s)' = Succ(s)
    BY <2>1 DEF Succ
  <2> QED
    BY <2>3, <2>4
<1>2. \/ /\ Len(fifo) < FifoSize /\ fifo' = Append(fifo, Out') /\ damages' = damages
      \/ /\ Len(fifo) >= FifoSize /\ fifo' = fifo /\ damages' = damages + 1
  BY StreamFacts, SizeAssumption DEF Arrives
<1>3. fifo \in Seq(Symbols')
  BY <1>1, SeqMonotonic DEF LineInv, StreamOK
<1>4. fifo' = Append(fifo, Out') =>
         /\ fifo' \in Seq(Symbols') /\ Len(fifo') = Len(fifo) + 1 /\ fifo'[Len(fifo) + 1] = Out'
         /\ fifo' # <<>> /\ \A i \in 1 .. Len(fifo) : fifo'[i] = fifo[i]
  BY <1>3, AppendProperties
<1>5. Spoilt' <=> Spoilt
  <2>1. ASSUME Marked(raw) PROVE InStep(raw)' <=> InStep(raw)
    <3>1. raw[1] \in Symbols
      BY <2>1, StreamFacts DEF Marked
    <3>2. sent'[raw[1][1]] = sent[raw[1][1]]
      BY <3>1, SymbolFacts
    <3> QED
      BY <3>2 DEF InStep
  <2> QED
    BY <2>1 DEF Spoilt, Marked
<1>6. Torn' => Torn
  <2> SUFFICES ASSUME Torn', ~Torn PROVE FALSE
    OBVIOUS
  <2>1. Marked(raw) /\ InStep(raw)
    BY <1>5 DEF Torn, Spoilt, Marked
  <2> DEFINE last == <<raw[1][1], Len(raw)>>
  <2>2. IF fifo = <<>> THEN Out = last ELSE fifo[1] = Succ(last)
    BY <2>1 DEF Torn
  <2>3. last \in Symbols
    <3>1. raw[1] \in Symbols /\ Len(raw) \in Nat
      BY <2>1, StreamFacts DEF Marked
    <3>2. raw[1][1] \in 1 .. Len(sent) /\ Len(raw) =< sent[raw[1][1]]
      BY <2>1, <3>1, SymbolFacts DEF InStep
    <3> QED
      BY <3>1, <3>2 DEF Symbols
  <2>4. Succ(last)' = Succ(last)
    <3>1. last' = last
      OBVIOUS
    <3> HIDE DEF last
    <3> QED
      BY <1>1, <2>3, <3>1 DEF Succ
  <2>5. IF fifo' = <<>> THEN Out' # last ELSE fifo'[1] # Succ(last)
    BY <2>4 DEF Torn, Out, Succ
  <2>6. CASE fifo = <<>>
    <3>1. Len(fifo) = 0 /\ fifo' = Append(fifo, Out')
      BY <1>2, <2>6, SizeAssumption, StreamFacts
    <3>2. fifo'[1] = Out'
      BY <1>4, <3>1
    <3> QED
      BY <1>4, <2>2, <2>5, <2>6, <3>1, <3>2
  <2>7. CASE fifo # <<>>
    <3>1. 1 \in 1 .. Len(fifo)
      BY <2>7, StreamFacts
    <3>2. fifo' # <<>> /\ fifo'[1] = fifo[1]
      BY <1>2, <1>4, <2>7, <3>1
    <3> QED
      BY <2>2, <2>5, <2>7, <3>2
  <2> QED
    BY <2>6, <2>7
<1>7. Owed' \in Nat /\ Owed' =< Owed
  <2>1. /\ Count(Spoilt') = Count(Spoilt)
        /\ Count(core0' # "bridge" /\ Torn') =< Count(core0 # "bridge" /\ Torn)
        /\ Count(core0' # "serve") = Count(core0 # "serve")
    BY <1>5, <1>6 DEF Count
  <2>2. /\ Count(Spoilt) \in {0, 1} /\ Count(core0 # "bridge" /\ Torn) \in {0, 1}
        /\ Count(core0 # "serve") \in {0, 1} /\ Count(core0' # "bridge" /\ Torn') \in {0, 1}
    BY DEF Count
  <2> QED
    BY <2>1, <2>2, StreamFacts DEF Owed
<1>8. PICK paid \in [1 .. Len(fifo) -> 0 .. damages] : Paid(paid)
  BY DEF LineInv, Accounted
<1>9. \A i \in 1 .. Len(fifo) : paid[i] \in 0 .. damages
  BY <1>8
<1>10. CASE fifo' = fifo /\ damages' = damages + 1
  <2>1. paid \in [1 .. Len(fifo') -> 0 .. damages']
    BY <1>8, <1>10, StreamFacts
  <2>2. ASSUME NEW i \in 1 .. Len(fifo')
        PROVE  paid[i] + Count(GapAfter(i))' =< (IF i = Len(fifo') THEN damages' ELSE paid[i + 1])
    <3>1. i \in 1 .. Len(fifo) /\ paid[i] \in Nat
      BY <1>9, <1>10, StreamFacts
    <3>2. paid[i] + Count(GapAfter(i)) =< (IF i = Len(fifo) THEN damages ELSE paid[i + 1])
      BY <1>8, <3>1 DEF Paid
    <3>3. CASE i = Len(fifo)
      BY <1>9, <1>10, <3>1, <3>3, StreamFacts DEF Count
    <3>4. CASE i # Len(fifo)
      <4>1. Succ(fifo[i])' = Succ(fifo[i])
        BY <1>1, <1>10, <3>1, StreamFacts DEF Succ
      <4>2. GapAfter(i)' <=> GapAfter(i)
        BY <1>10, <3>4, <4>1 DEF GapAfter
      <4> QED
        BY <1>10, <3>2, <3>4, <4>2 DEF Count
    <3> QED
      BY <3>3, <3>4
  <2>3. /\ fifo' # <<>> => Owed' =< paid[1]
        /\ fifo' = <<>> => Owed' =< damages'
    <3>1. fifo # <<>> => paid[1] \in Nat
      BY <1>9, StreamFacts
    <3> QED
      BY <1>7, <1>8, <1>10, <3>1, OwedFacts, StreamFacts DEF Paid
  <2>4. Paid(paid)'
    BY <2>2, <2>3 DEF Paid
  <2> QED
    BY <1>1, <1>3, <1>10, <2>1, <2>4, StreamFacts DEF Accounted
<1>11. CASE fifo' = Append(fifo, Out') /\ damages' = damages
  <2> DEFINE n == Len(fifo)
  <2>1. n \in Nat /\ damages \in Nat /\ Len(fifo') = n + 1
    BY <1>4, <1>11, StreamFacts
  <2>2. PICK longer : longer = [i \in 1 .. n + 1 |-> IF i =< n THEN paid[i] ELSE damages]
    OBVIOUS
  <2>3. /\ \A i \in 1 .. n : longer[i] = paid[i]
        /\ longer[n + 1] = damages
        /\ longer \in [1 .. Len(fifo') -> 0 .. damages']
    BY <1>9, <1>11, <2>1, <2>2
  <2>4. ASSUME NEW i \in 1 .. Len(fifo')
        PROVE  longer[i] + Count(GapAfter(i))' =< (IF i = Len(fifo') THEN damages' ELSE longer[i + 1])
    <3>1. CASE i = n + 1
      <4>1. ~GapAfter(i)'
        BY <1>4, <1>11, <2>1, <3>1 DEF GapAfter
      <4> QED
        BY <1>11, <2>1, <2>3, <3>1, <4>1 DEF Count
    <3>2. CASE i \in 1 .. n /\ i # n
      <4>1. i + 1 \in 1 .. n /\ i # n + 1
        BY <2>1, <3>2
      <4>2. fifo'[i] = fifo[i] /\ fifo'[i + 1] = fifo[i + 1]
        BY <1>4, <1>11, <3>2, <4>1
      <4>3. Succ(fifo[i])' = Succ(fifo[i]) /\ fifo[i] \in Symbols
        BY <1>1, <3>2, <4>2, StreamFacts DEF Succ
      <4>4. GapAfter(i)' <=> GapAfter(i)
        BY <2>1, <3>2, <4>1, <4>2, <4>3 DEF GapAfter
      <4>5. paid[i] + Count(GapAfter(i)) =< paid[i + 1]
        BY <1>8, <3>2 DEF Paid
      <4> QED
        BY <2>1, <2>3, <3>2, <4>1, <4>4, <4>5 DEF Count
    <3>3. CASE i = n
      <4>1. i \in 1 .. n /\ i # n + 1 /\ fifo'[i] = fifo[i] /\ fifo'[i + 1] = Out'
        BY <1>4, <1>11, <2>1, <2>4, <3>3
      <4>2. paid[i] + Count(GapAfter(i)) =< damages
        BY <1>8, <3>3, <4>1 DEF Paid
      <4>3. GapAfter(i)' => GapAfter(i)
        <5> SUFFICES ASSUME fifo[i] = Out PROVE ~GapAfter(i)'
          BY <3>3 DEF GapAfter
        <5>1. Succ(fifo[i])' = Succ(fifo[i])
          BY <1>1, <4>1, StreamFacts DEF Succ
        <5> QED
          BY <2>1, <3>3, <4>1, <5>1 DEF GapAfter
      <4>4. Count(GapAfter(i))' =< Count(GapAfter(i)) /\ Count(GapAfter(i)) \in {0, 1}
            /\ Count(GapAfter(i))' \in {0, 1} /\ paid[i] \in Nat
        BY <1>9, <4>1, <4>3 DEF Count
      <4> QED
        BY <2>1, <2>3, <3>3, <4>1, <4>2, <4>4
    <3> QED
      BY <2>1, <3>1, <3>2, <3>3
  <2>5. fifo' # <<>> /\ Owed' =< longer[1]
    <3>1. fifo # <<>> => 1 \in 1 .. n /\ paid[1] \in Nat
      BY <1>9, StreamFacts
    <3>2. fifo = <<>> => n = 0
      BY StreamFacts
    <3> QED
      BY <1>4, <1>7, <1>8, <1>11, <2>1, <2>3, <3>1, <3>2, OwedFacts DEF Paid
  <2>6. Paid(longer)'
    BY <2>4, <2>5 DEF Paid
  <2> QED
    BY <1>1, <1>4, <1>11, <2>1, <2>3, <2>6 DEF Accounted
<1> QED
  BY <1>2, <1>10, <1>11

\* The GPS puts out the symbol after the last.
Emits ==
    /\ sent' \in Seq(Lengths) /\ Len(sent) =< Len(sent')
    /\ \A m \in 1 .. Len(sent) : sent'[m] = sent[m]
    /\ Len(sent') \in Nat \ {0} /\ place' \in Nat /\ place' =< sent'[Len(sent')]
    /\ Out' = Succ(Out) /\ Arrives(Out')

GpsStep == (\E length \in Lengths : BeginSentence(length)) \/ ContinueSentence

LEMMA GpsEmits == ASSUME LineInv, GpsStep PROVE Emits
<1>1. sent \in Seq(Lengths) /\ Len(sent) \in Nat /\ place \in Nat
  BY LenProperties DEF LineInv, StreamOK
<1>2. ASSUME NEW length \in Lengths, BeginSentence(length)
      PROVE  Emits
  <2>1. /\ place = 0 /\ sent' = Append(sent, length) /\ place' = 1 /\ Arrives(<<Len(sent'), 1>>)
    BY <1>2 DEF BeginSentence
  <2>2. /\ sent' \in Seq(Lengths) /\ Len(sent') = Len(sent) + 1 /\ sent'[Len(sent) + 1] = length
        /\ \A m \in 1 .. Len(sent) : sent'[m] = sent[m]
    BY <1>1, <2>1, AppendProperties
  <2>3. length \in Nat \ {0}
    BY SizeAssumption
  <2>4. Out' = <<Len(sent) + 1, 1>> /\ Succ(Out) = <<Len(sent) + 1, 1>>
    BY <2>1, <2>2 DEF Out, Succ
  <2>5. Arrives(Out')
    BY <2>1, <2>2, <2>4
  <2> QED
    BY <1>1, <2>1, <2>2, <2>3, <2>4, <2>5 DEF Emits
<1>3. ASSUME ContinueSentence
      PROVE  Emits
  <2>1. /\ place > 0 /\ sent' = sent /\ place' = IF place = Last(sent) THEN 0 ELSE place + 1
        /\ Arrives(<<Len(sent), place'>>)
    BY <1>3 DEF ContinueSentence
  <2>2. sent # <<>> /\ place =< sent[Len(sent)]
    BY <2>1 DEF LineInv, StreamOK
  <2>3. Len(sent) \in Nat \ {0} /\ sent[Len(sent)] \in Nat
    BY <1>1, <2>2, EmptySeq, StreamFacts
  <2>4. Last(sent) = sent[Len(sent)]
    BY DEF Last
  <2>5. place' \in Nat /\ place' =< sent[Len(sent)]
    BY <1>1, <2>1, <2>2, <2>3, <2>4
  <2>6. Out' = <<Len(sent), place'>> /\ Succ(Out) = <<Len(sent), place'>>
    BY <1>1, <2>1, <2>4 DEF Out, Succ
  <2> QED
    BY <1>1, <2>1, <2>3, <2>5, <2>6 DEF Emits
<1> QED
  BY <1>2, <1>3 DEF GpsStep

LEMMA GpsKeeps == ASSUME LineInv, GpsStep PROVE LineInv'
<1>1. UNCHANGED <<collector, bridge>>
  BY DEF GpsStep, BeginSentence, ContinueSentence
<1>2. Emits
  BY GpsEmits
<1>3. Out' \in Symbols'
  <2>1. Out' = <<Len(sent'), place'>> /\ Len(sent') \in 1 .. Len(sent')
    BY <1>2 DEF Emits, Out
  <2> QED
    BY <1>2, <2>1 DEF Emits, Symbols
<1>4. UNCHANGED <<core1, raw, spoiled, junked, core0, paused, sessions>>
  BY <1>1 DEF collector, bridge
<1>5. Accounted' /\ fifo' \in Seq(Symbols') /\ Symbols \subseteq Symbols' /\ damages' \in Nat
  BY <1>2, <1>3, <1>4, Arrival DEF Emits
<1>6. StreamOK'
  BY <1>2, <1>5, EmptySeq DEF Emits, StreamOK
<1>7. CollectorOK'
  <2>1. {s \in Symbols : s[2] # 0} \cup {Junk} \subseteq {s \in Symbols' : s[2] # 0} \cup {Junk}
    BY <1>5
  <2>2. raw \in Seq({s \in Symbols' : s[2] # 0} \cup {Junk})
    BY <2>1, SeqMonotonic DEF LineInv, CollectorOK
  <2> QED
    BY <1>4, <1>5, <2>2 DEF LineInv, CollectorOK
<1>8. PauseOK'
  BY <1>4 DEF LineInv, PauseOK
<1> QED
  BY <1>5, <1>6, <1>7, <1>8 DEF LineInv

LEMMA JunkKeeps == ASSUME LineInv, CollectBeginJunk PROVE LineInv'
<1>1. /\ core1 = "out" /\ ~paused /\ core1' = "in" /\ junked' = junked + 1 /\ damages' = damages + 1
      /\ UNCHANGED <<sent, place, fifo, spoiled, core0, paused, sessions>>
  BY DEF CollectBeginJunk, gpsVars, bridge
<1>2. PICK junk \in SUBSET DOMAIN raw : raw' = [i \in DOMAIN raw |-> IF i \in junk THEN Junk ELSE raw[i]]
  BY DEF CollectBeginJunk
<1>3. Symbols' = Symbols /\ Len(raw) \in Nat
  BY <1>1, StreamFacts DEF Symbols
<1>4. raw' \in Seq({s \in Symbols : s[2] # 0} \cup {Junk}) /\ Len(raw') = Len(raw)
  <2> DEFINE T == {s \in Symbols : s[2] # 0} \cup {Junk}
  <2>1. raw \in Seq(T) /\ DOMAIN raw = 1 .. Len(raw) /\ \A i \in 1 .. Len(raw) : raw[i] \in T
    BY LenProperties, ElementOfSeq DEF LineInv, CollectorOK
  <2>2. Junk \in T
    OBVIOUS
  <2> HIDE DEF T
  <2>3. raw' = [i \in 1 .. Len(raw) |-> IF i \in junk THEN Junk ELSE raw[i]]
    BY <1>2, <2>1
  <2>4. raw' \in [1 .. Len(raw) -> T]
    BY <2>1, <2>2, <2>3
  <2>5. raw' \in Seq(T) /\ Len(raw') = Len(raw)
    BY <1>3, <2>4
  <2> QED
    BY <2>5 DEF T
<1>5. core0 = "serve"
  BY <1>1 DEF LineInv, PauseOK
<1>6. Owed' \in Nat /\ Owed' =< Owed + 1
  <2>1. ~(Spoilt' /\ Torn')
    BY DEF Spoilt, Torn
  <2>2. Count(Spoilt') + Count(Torn') \in {0, 1}
    BY <2>1 DEF Count
  <2>3. Owed' = (spoiled + (Count(Spoilt') + Count(Torn'))) + 0
    <3>1. Owed' = ((spoiled + Count(Spoilt')) + Count(Torn')) + 0
      BY <1>1, <1>5 DEF Owed, Count
    <3>2. Count(Spoilt') \in {0, 1} /\ Count(Torn') \in {0, 1}
      BY DEF Count
    <3> QED
      BY <3>1, <3>2, StreamFacts
  <2> QED
    BY <2>2, <2>3, OwedFacts, StreamFacts
<1>7. Accounted'
  BY <1>1, <1>6, DamagePays
<1>8. StreamOK'
  BY <1>1, <1>3 DEF LineInv, StreamOK
<1>9. CollectorOK' /\ PauseOK'
  BY <1>1, <1>3, <1>4, <1>5 DEF LineInv, CollectorOK, PauseOK
<1> QED
  BY <1>7, <1>8, <1>9 DEF LineInv

LEMMA SessionKeeps ==
    ASSUME LineInv, BridgeBegin \/ BridgeOpen \/ BridgeSymbol \/ BridgeEnd
    PROVE  LineInv'
<1>1. UNCHANGED <<sent, place, core1, raw, spoiled, junked>>
  BY DEF BridgeBegin, BridgeOpen, BridgeSymbol, BridgeEnd, gpsVars, collector
<1>2. Symbols' = Symbols
  BY <1>1 DEF Symbols
<1>3. CASE fifo' = fifo
  <2>1. Spoilt' = Spoilt /\ Torn' = Torn
    BY <1>1, <1>3 DEF Spoilt, Torn, Marked, InStep, Out, Succ
  <2>2. Count(Spoilt) \in {0, 1} /\ Count(Torn) \in {0, 1} /\ spoiled \in Nat /\ damages \in Nat
    BY StreamFacts DEF Count
  <2>3. CASE BridgeBegin
    <3>1. /\ core0 = "serve" /\ core0' = "settle" /\ damages' = damages + 1
          /\ paused' = TRUE /\ sessions' = sessions + 1
      BY <2>3 DEF BridgeBegin
    <3>2. Owed' = ((spoiled + Count(Spoilt)) + Count(Torn)) + 1
      BY <1>1, <2>1, <3>1 DEF Owed, Count
    <3>3. Owed' \in Nat /\ Owed' =< Owed + 1
      BY <2>2, <3>1, <3>2, OwedFacts
    <3>4. Accounted'
      BY <1>1, <1>3, <3>1, <3>3, DamagePays
    <3> QED
      BY <1>1, <1>2, <1>3, <3>1, <3>4 DEF LineInv, StreamOK, CollectorOK, PauseOK
  <2>4. CASE BridgeOpen
    <3>1. /\ core0 = "settle" /\ core0' = "bridge" /\ core1 = "out"
          /\ UNCHANGED <<paused, sessions, damages>>
      BY <2>4 DEF BridgeOpen
    <3>2. Owed' = ((spoiled + Count(Spoilt)) + 0) + 1
      BY <1>1, <2>1, <3>1 DEF Owed, Count
    <3>3. Owed' \in Nat /\ Owed' =< Owed + 0 /\ damages' = damages + 0
      BY <2>2, <3>1, <3>2, OwedFacts
    <3>4. Accounted'
      BY <1>1, <1>3, <3>3, DamagePays
    <3> QED
      BY <1>1, <1>2, <1>3, <3>1, <3>4 DEF LineInv, StreamOK, CollectorOK, PauseOK
  <2>5. CASE BridgeEnd
    <3>1. /\ core0 = "bridge" /\ core0' = "serve" /\ paused' = FALSE
          /\ UNCHANGED <<sessions, damages>>
      BY <2>5 DEF BridgeEnd
    <3>2. Owed' = ((spoiled + Count(Spoilt)) + Count(Torn)) + 0
      BY <1>1, <2>1, <3>1 DEF Owed, Count
    <3>3. Owed' \in Nat /\ Owed' =< Owed + 0 /\ damages' = damages + 0
      BY <2>2, <3>1, <3>2, OwedFacts
    <3>4. Accounted'
      BY <1>1, <1>3, <3>3, DamagePays
    <3> QED
      BY <1>1, <1>2, <1>3, <3>1, <3>4 DEF LineInv, StreamOK, CollectorOK, PauseOK
  <2>6. CASE BridgeSymbol
    <3>1. fifo # <<>> /\ fifo' = Tail(fifo)
      BY <2>6 DEF BridgeSymbol
    <3>2. Len(Tail(fifo)) = Len(fifo) - 1 /\ Len(fifo) \in Nat
      BY <3>1, StreamFacts, HeadTailProperties DEF LineInv, StreamOK
    <3> QED
      BY <1>3, <3>1, <3>2
  <2> QED
    BY <2>3, <2>4, <2>5, <2>6
<1>4. CASE BridgeSymbol
  <2>1. /\ core0 = "bridge" /\ fifo # <<>> /\ fifo' = Tail(fifo)
        /\ UNCHANGED <<core0, paused, sessions, damages>>
    BY <1>4 DEF BridgeSymbol, bridge
  <2>2. Spoilt' = Spoilt
    BY <1>1 DEF Spoilt, Marked, InStep
  <2>3. Owed' = ((spoiled + Count(Spoilt)) + 0) + 1
    BY <1>1, <2>1, <2>2 DEF Owed, Count
  <2>4. Count(Spoilt) \in {0, 1} /\ Count(GapAfter(1)) \in {0, 1} /\ spoiled \in Nat
    BY StreamFacts DEF Count
  <2>5. Owed' \in Nat /\ Owed' =< Owed + Count(GapAfter(1))
    BY <2>1, <2>3, <2>4, OwedFacts
  <2>6. Accounted' /\ fifo' \in Seq(Symbols')
    BY <1>1, <2>1, <2>5, SymbolTaken
  <2> QED
    BY <1>1, <1>2, <2>1, <2>6 DEF LineInv, StreamOK, CollectorOK, PauseOK
<1> QED
  BY <1>3, <1>4 DEF BridgeBegin, BridgeOpen, BridgeEnd

LEMMA LineInit == Init => LineInv
<1> SUFFICES ASSUME Init PROVE LineInv
  OBVIOUS
<1>1. /\ sent = <<>> /\ place = 0 /\ fifo = <<>> /\ core1 = "out" /\ raw = <<>> /\ core0 = "serve"
      /\ paused = FALSE /\ sessions = 0 /\ junked = 0 /\ damages = 0 /\ spoiled = 0
  BY DEF Init
<1>2. Len(fifo) = 0 /\ Len(raw) = 0
  BY <1>1, EmptySeq
<1>3. Owed = 0
  BY <1>1 DEF Owed, Count, Spoilt, Torn, Marked
<1>4. Accounted
  <2>1. PICK none : none = [i \in 1 .. Len(fifo) |-> 0]
    OBVIOUS
  <2>2. none \in [1 .. Len(fifo) -> 0 .. damages]
    BY <1>2, <2>1
  <2>3. Paid(none)
    BY <1>1, <1>2, <1>3 DEF Paid
  <2> QED
    BY <2>2, <2>3 DEF Accounted
<1>5. StreamOK
  BY <1>1, EmptySeq DEF StreamOK
<1>6. CollectorOK
  BY <1>1, <1>2, SizeAssumption, EmptySeq DEF CollectorOK
<1>7. PauseOK
  BY <1>1 DEF PauseOK
<1> QED
  BY <1>4, <1>5, <1>6, <1>7 DEF LineInv

LEMMA AlwaysLineInv == Spec => []LineInv
<1>1. ASSUME LineInv, [Next]_vars PROVE LineInv'
  <2>1. CASE GpsStep
    BY <1>1, <2>1, GpsKeeps
  <2>2. CASE CollectSymbol
    BY <1>1, <2>2, CollectSymbolKeeps
  <2>3. CASE CollectBeginJunk
    BY <1>1, <2>3, JunkKeeps
  <2>4. CASE BridgeBegin \/ BridgeOpen \/ BridgeSymbol \/ BridgeEnd
    BY <1>1, <2>4, SessionKeeps
  \* What else happens leaves the message, the UART and the account alone.
  <2>5. ASSUME /\ UNCHANGED <<sent, place, fifo, raw, spoiled, junked, core0, paused, sessions, damages>>
               /\ core1' \in {"out", "in"}
               /\ core0 = "bridge" => core1' = core1
        PROVE  LineInv'
    <3>1. Spoilt' = Spoilt /\ Torn' = Torn
      BY <2>5 DEF Spoilt, Torn, Marked, InStep, Out, Succ
    <3>2. Owed' = Owed
      BY <2>5, <3>1 DEF Owed, Count
    <3>3. Owed \in Nat /\ damages' = damages + 0 /\ Owed =< Owed + 0
      BY <1>1, <2>5, OwedFacts, StreamFacts
    <3>4. Accounted'
      BY <1>1, <2>5, <3>2, <3>3, DamagePays
    <3>5. Symbols' = Symbols
      BY <2>5 DEF Symbols
    <3> QED
      BY <1>1, <2>5, <3>4, <3>5 DEF LineInv, StreamOK, CollectorOK, PauseOK
  <2>6. CASE CollectBegin
    <3>1. core1' = "in" /\ core0 # "bridge"
      BY <1>1, <2>6 DEF CollectBegin, LineInv, PauseOK
    <3> QED
      BY <2>5, <2>6, <3>1 DEF CollectBegin, gpsVars, bridge
  <2>7. CASE CollectEnd
    <3>1. core1' = "out" /\ core0 # "bridge"
      BY <1>1, <2>7 DEF CollectEnd, LineInv, PauseOK
    <3> QED
      BY <2>5, <2>7, <3>1 DEF CollectEnd, gpsVars, bridge
  <2>8. CASE (\E key \in Keys : BridgeKey(key)) \/ Silent \/ UNCHANGED vars
    <3>1. UNCHANGED <<sent, place, fifo, core1, raw, spoiled, junked, core0, paused, sessions, damages>>
      BY <2>8 DEF BridgeKey, Silent, vars, gpsVars, collector, bridge
    <3>2. core1' \in {"out", "in"}
      BY <1>1, <3>1 DEF LineInv, CollectorOK
    <3> QED
      BY <2>5, <3>1, <3>2
  <2> QED
    BY <1>1, <2>1, <2>2, <2>3, <2>4, <2>6, <2>7, <2>8 DEF Next, GpsStep
<1> QED
  BY <1>1, LineInit, PTL DEF Spec

\* For every FIFO, buffer and lengths: each loss, junk and session spoils at most one
\* sentence, and the terminating zero has room.
THEOREM Confined == Spec => []DamageConfined
<1>1. ASSUME LineInv PROVE DamageConfined
  <2>1. PICK paid \in [1 .. Len(fifo) -> 0 .. damages] : Paid(paid)
    BY <1>1 DEF LineInv, Accounted
  <2>2. fifo # <<>> => Owed =< paid[1] /\ paid[1] \in 0 .. damages
    BY <1>1, <2>1, StreamFacts DEF Paid
  <2>3. Owed =< damages
    BY <1>1, <2>1, <2>2, OwedFacts, StreamFacts DEF Paid
  <2>4. spoiled =< damages
    BY <1>1, <2>3, OwedFacts, StreamFacts
  <2> QED
    BY <1>1, <2>4 DEF DamageConfined, LineInv, CollectorOK
<1> QED
  BY <1>1, AlwaysLineInv, PTL

-----------------------------------------------------------------------------
(* The newest sentences.                                                   *)

\* The sentences that the collector has read when c was the last symbol it took.
DoneBy(c, t) ==
    {n \in 1 .. Len(sent) :
        /\ KindOf(n) = t /\ sent[n] =< MaxRaw - 1
        /\ n < c[1] \/ (n = c[1] /\ c[2] = 0)}

\* The tokens of a kind are those of the last sentence in S.
LastOf(t, S) ==
    \/ S = {} /\ tokens[t] = <<>>
    \/ \E n \in S : (\A x \in S : x =< n) /\ tokens[t] = Sentence(n)

\* c was the last symbol taken from the UART, and the collector has what it
\* should have by then.
TakenUpTo(c) ==
    /\ c[1] =< Len(sent) /\ (c[1] = 0 => c[2] = 0) /\ (c[1] > 0 => c[2] =< sent[c[1]])
    /\ IF fifo = <<>> THEN Out = c ELSE fifo[1] = Succ(c)
    /\ \A t \in Kinds : LastOf(t, DoneBy(c, t))
    /\ c[2] = 0 => raw = <<>>
    /\ c[2] > 0 /\ c[2] =< MaxRaw - 1 => raw = [i \in 1 .. c[2] |-> <<c[1], i>>]
    /\ c[2] >= MaxRaw => ~Marked(raw)

CaughtUp ==
    /\ DOMAIN tokens = Kinds
    /\ damages = 0 => \E c \in Nat \X Nat : TakenUpTo(c)

LEMMA Undamaged ==
    ASSUME LineInv, damages = 0
    PROVE  core0 = "serve" /\ \A i \in 1 .. Len(fifo) : ~GapAfter(i)
<1>1. PICK paid \in [1 .. Len(fifo) -> 0 .. damages] : Paid(paid)
  BY DEF LineInv, Accounted
<1>2. ASSUME NEW i \in 1 .. Len(fifo) PROVE ~GapAfter(i) /\ paid[i] = 0
  <2>1. paid[i] = 0 /\ (i # Len(fifo) => i + 1 \in 1 .. Len(fifo))
    BY <1>1, StreamFacts
  <2>2. i # Len(fifo) => paid[i + 1] = 0
    BY <1>1, <2>1
  <2>3. paid[i] + Count(GapAfter(i)) =< (IF i = Len(fifo) THEN damages ELSE paid[i + 1])
    BY <1>1 DEF Paid
  <2> QED
    BY <2>1, <2>2, <2>3 DEF Count
<1>3. Owed = 0
  <2>1. fifo # <<>> => paid[1] = 0
    BY <1>2, StreamFacts
  <2> QED
    BY <1>1, <2>1, OwedFacts DEF Paid
<1>4. core0 = "serve"
  <2>1. core0 # "serve" => Owed >= 1
    BY StreamFacts DEF Owed, Count
  <2> QED
    BY <1>3, <2>1
<1> QED
  BY <1>2, <1>4

\* Where the last symbol was, the next one is.
LEMMA TakenFacts ==
    ASSUME LineInv, NEW c \in Nat \X Nat, TakenUpTo(c)
    PROVE  /\ c = <<c[1], c[2]>> /\ c[1] \in Nat /\ c[2] \in Nat /\ c[1] =< Len(sent)
           /\ c[2] > 0 => c[1] \in 1 .. Len(sent) /\ c[2] =< sent[c[1]] /\ sent[c[1]] \in Nat
<1>1. c = <<c[1], c[2]>> /\ c[1] \in Nat /\ c[2] \in Nat
  OBVIOUS
<1>2. c[1] =< Len(sent) /\ (c[1] = 0 => c[2] = 0) /\ (c[1] > 0 => c[2] =< sent[c[1]])
  BY DEF TakenUpTo
<1>3. c[2] > 0 => c[1] \in 1 .. Len(sent)
  BY <1>1, <1>2, StreamFacts
<1> QED
  BY <1>1, <1>2, <1>3, StreamFacts

LEMMA AppendFirst ==
    ASSUME NEW S, NEW s \in Seq(S), s # <<>>, NEW x
    PROVE  Append(s, x) # <<>> /\ Append(s, x)[1] = s[1]
<1> DEFINE T == S \cup {x}
<1>1. s \in Seq(T) /\ x \in T
  BY SeqMonotonic
<1>2. 1 \in 1 .. Len(s)
  BY EmptySeq
<1> HIDE DEF T
<1> QED
  BY <1>1, <1>2, AppendProperties

LEMMA GpsCatches == ASSUME LineInv, CaughtUp, GpsStep PROVE CaughtUp'
<1>1. UNCHANGED <<raw, tokens>> /\ Emits
  BY GpsEmits DEF GpsStep, BeginSentence, ContinueSentence, collector
<1> SUFFICES ASSUME damages' = 0 PROVE \E c \in Nat \X Nat : TakenUpTo(c)'
  BY <1>1 DEF CaughtUp
<1>2. damages = 0 /\ fifo' = Append(fifo, Out')
  BY <1>1, StreamFacts DEF Emits, Arrives
<1>3. PICK c \in Nat \X Nat : TakenUpTo(c)
  BY <1>2 DEF CaughtUp
<1>4. /\ c = <<c[1], c[2]>> /\ c[1] \in Nat /\ c[2] \in Nat /\ c[1] =< Len(sent)
      /\ c[2] > 0 => c[1] \in 1 .. Len(sent) /\ c[2] =< sent[c[1]] /\ sent[c[1]] \in Nat
  BY <1>3, TakenFacts
<1>5. /\ Len(sent) \in Nat /\ Len(sent') \in Nat /\ Len(sent) =< Len(sent')
      /\ \A m \in 1 .. Len(sent) : sent'[m] = sent[m]
  BY <1>1, StreamFacts DEF Emits
<1>6. Succ(c)' = Succ(c)
  BY <1>4, <1>5 DEF Succ
<1>7. /\ c[1] =< Len(sent') /\ (c[1] = 0 => c[2] = 0) /\ (c[1] > 0 => c[2] =< sent'[c[1]])
  <2>1. (c[1] = 0 => c[2] = 0) /\ (c[1] > 0 => c[2] =< sent[c[1]])
    BY <1>3 DEF TakenUpTo
  <2>2. c[1] > 0 => c[1] \in 1 .. Len(sent)
    BY <1>4, <1>5
  <2> QED
    BY <1>4, <1>5, <2>1, <2>2
<1>8. fifo' # <<>> /\ fifo'[1] = Succ(c)
  <2>1. fifo \in Seq(Symbols) /\ Len(fifo) \in Nat
    BY StreamFacts DEF LineInv, StreamOK
  <2>2. CASE fifo = <<>>
    <3>1. Out = c /\ Out' = Succ(Out)
      BY <1>1, <1>3, <2>2 DEF TakenUpTo, Emits
    <3>2. fifo' = <<Out'>>
      BY <1>2, <2>2
    <3> QED
      BY <3>1, <3>2
  <2>3. CASE fifo # <<>>
    <3>1. fifo[1] = Succ(c) /\ 1 \in 1 .. Len(fifo)
      BY <1>3, <2>3, StreamFacts DEF TakenUpTo
    <3>2. fifo' # <<>> /\ fifo'[1] = fifo[1]
      BY <1>2, <2>1, <2>3, AppendFirst
    <3> QED
      BY <3>1, <3>2
  <2> QED
    BY <2>2, <2>3
<1>9. ASSUME NEW t \in Kinds PROVE LastOf(t, DoneBy(c, t))'
  <2>1. DoneBy(c, t)' = DoneBy(c, t)
    <3>1. ASSUME NEW n \in 1 .. Len(sent'), n =< c[1] PROVE n \in 1 .. Len(sent)
      BY <1>4, <1>5, <3>1
    <3>2. \A n \in 1 .. Len(sent) : n \in 1 .. Len(sent')
      BY <1>5
    <3>3. \A n \in Nat : n < c[1] \/ (n = c[1] /\ c[2] = 0) => n =< c[1]
      BY <1>4
    <3>4. \A n \in 1 .. Len(sent') : n \in Nat
      BY <1>5
    <3> QED
      BY <1>5, <3>1, <3>2, <3>3, <3>4 DEF DoneBy
  <2>2. LastOf(t, DoneBy(c, t))
    BY <1>3 DEF TakenUpTo
  <2>3. \A n \in DoneBy(c, t) : Sentence(n)' = Sentence(n)
    BY <1>5 DEF DoneBy, Sentence
  <2> QED
    BY <1>1, <2>1, <2>2, <2>3 DEF LastOf
<1>10. /\ c[2] = 0 => raw' = <<>>
       /\ c[2] > 0 /\ c[2] =< MaxRaw - 1 => raw' = [i \in 1 .. c[2] |-> <<c[1], i>>]
       /\ c[2] >= MaxRaw => ~Marked(raw)'
  BY <1>1, <1>3 DEF TakenUpTo, Marked
<1>11. TakenUpTo(c)'
  BY <1>6, <1>7, <1>8, <1>9, <1>10 DEF TakenUpTo
<1> QED
  BY <1>11

\* A symbol inside a sentence.
LEMMA InsideCatches ==
    ASSUME LineInv, NEW c \in Nat \X Nat, TakenUpTo(c), fifo # <<>>, fifo[1] = Succ(c), fifo[1][2] # 0
    PROVE  LET d == fifo[1]
               after == IF Fits(raw) THEN Append(raw, d) ELSE <<>>
           IN  /\ \A t \in Kinds : DoneBy(d, t) = DoneBy(c, t)
               /\ d[2] > 0 /\ d[2] =< MaxRaw - 1 => after = [i \in 1 .. d[2] |-> <<d[1], i>>]
               /\ d[2] >= MaxRaw => ~Marked(after)
<1> DEFINE d == fifo[1]
           after == IF Fits(raw) THEN Append(raw, d) ELSE <<>>
<1>1. /\ c = <<c[1], c[2]>> /\ c[1] \in Nat /\ c[2] \in Nat
      /\ c[2] > 0 => c[1] \in 1 .. Len(sent) /\ c[2] =< sent[c[1]] /\ sent[c[1]] \in Nat
  BY TakenFacts
<1>2. MaxRaw \in Nat /\ MaxRaw >= 2
  BY SizeAssumption
<1>3. CASE c[2] = 0
  <2>1. d = <<c[1] + 1, 1>> /\ raw = <<>>
    BY <1>3 DEF Succ, TakenUpTo
  <2>2. Fits(raw) /\ after = <<d>>
    BY <1>2, <2>1 DEF Fits
  <2>3. \A n \in Nat : n < c[1] + 1 <=> (n < c[1] \/ n = c[1])
    BY <1>1
  <2>4. \A t \in Kinds : DoneBy(d, t) = DoneBy(c, t)
    BY <1>1, <1>3, <2>1, <2>3, StreamFacts DEF DoneBy
  <2>5. after = [i \in 1 .. 1 |-> <<d[1], i>>]
    BY <2>1, <2>2
  <2>6. d[2] = 1 /\ ~(d[2] >= MaxRaw)
    BY <1>2, <2>1
  <2> QED
    BY <2>4, <2>5, <2>6
<1>4. CASE c[2] # 0
  <2>1. c[2] > 0 /\ d = <<c[1], c[2] + 1>>
    BY <1>1, <1>4 DEF Succ
  <2>2. \A t \in Kinds : DoneBy(d, t) = DoneBy(c, t)
    BY <1>1, <1>4, <2>1 DEF DoneBy
  <2>3. CASE c[2] =< MaxRaw - 1
    <3>1. raw = [i \in 1 .. c[2] |-> <<c[1], i>>]
      BY <2>1, <2>3 DEF TakenUpTo
    <3>2. raw \in Seq(Nat \X Nat) /\ Len(raw) = c[2]
      BY <1>1, <3>1
    <3>3. Fits(raw) <=> c[2] + 1 =< MaxRaw - 1
      BY <1>1, <1>2, <3>2 DEF Fits
    <3>4. Append(raw, d) = [i \in 1 .. c[2] + 1 |-> <<c[1], i>>]
      <4> DEFINE longer == [i \in 1 .. c[2] + 1 |-> <<c[1], i>>]
      <4>1. longer \in Seq(Nat \X Nat) /\ Len(longer) = c[2] + 1
        BY <1>1
      <4>2. /\ Append(raw, d) \in Seq(Nat \X Nat) /\ Len(Append(raw, d)) = c[2] + 1
            /\ \A i \in 1 .. c[2] : Append(raw, d)[i] = raw[i]
            /\ Append(raw, d)[c[2] + 1] = d
        <5>1. d \in Nat \X Nat
          BY <1>1, <2>1
        <5> QED
          BY <3>2, <5>1, AppendProperties
      <4>3. ASSUME NEW i \in 1 .. c[2] + 1 PROVE Append(raw, d)[i] = longer[i]
        <5>1. longer[i] = <<c[1], i>>
          OBVIOUS
        <5>2. CASE i = c[2] + 1
          BY <2>1, <4>2, <5>1, <5>2
        <5>3. CASE i # c[2] + 1
          <6>1. i \in 1 .. c[2]
            BY <1>1, <5>3
          <6>2. raw[i] = <<c[1], i>>
            BY <3>1, <6>1
          <6> QED
            BY <4>2, <5>1, <6>1, <6>2
        <5> QED
          BY <5>2, <5>3
      <4> DEFINE joined == Append(raw, d)
      <4>4. /\ joined \in Seq(Nat \X Nat) /\ Len(joined) = Len(longer)
            /\ \A i \in 1 .. Len(joined) : joined[i] = longer[i]
        BY <4>1, <4>2, <4>3
      <4> HIDE DEF joined, longer
      <4>5. joined = longer
        BY <4>1, <4>4, SeqEqual
      <4> QED
        BY <4>5 DEF joined, longer
    <3>5. ~Marked(<<>>)
      BY DEF Marked
    <3>6. CASE Fits(raw)
      <4>1. d[1] = c[1] /\ d[2] = c[2] + 1 /\ d[2] =< MaxRaw - 1 /\ ~(d[2] >= MaxRaw)
        BY <1>1, <1>2, <2>1, <3>3, <3>6
      <4>2. after = [i \in 1 .. d[2] |-> <<d[1], i>>]
        BY <3>4, <3>6, <4>1
      <4> QED
        BY <2>2, <4>1, <4>2
    <3>7. CASE ~Fits(raw)
      BY <1>1, <1>2, <2>1, <2>2, <3>3, <3>5, <3>7
    <3> QED
      BY <3>6, <3>7
  <2>4. CASE ~(c[2] =< MaxRaw - 1)
    <3>1. c[2] >= MaxRaw /\ ~Marked(raw)
      BY <1>1, <1>2, <2>4 DEF TakenUpTo
    <3>2. d[2] # 1 /\ ~(d[2] =< MaxRaw - 1)
      BY <1>1, <1>2, <2>1, <2>4, <3>1
    <3>3. ~Marked(<<>>)
      BY DEF Marked
    <3>4. ~Marked(Append(raw, d))
      <4>1. raw \in Seq({s \in Symbols : s[2] # 0} \cup {Junk}) /\ d \in {s \in Symbols : s[2] # 0} \cup {Junk}
        BY StreamFacts DEF LineInv, CollectorOK
      <4>2. /\ Append(raw, d)[Len(raw) + 1] = d
            /\ \A i \in 1 .. Len(raw) : Append(raw, d)[i] = raw[i]
        BY <4>1, AppendProperties
      <4>3. CASE raw = <<>>
        BY <3>2, <4>2, <4>3, StreamFacts DEF Marked
      <4>4. CASE raw # <<>>
        <5>1. Append(raw, d)[1] = raw[1]
          BY <4>2, <4>4, StreamFacts
        <5> QED
          BY <3>1, <4>4, <5>1 DEF Marked
      <4> QED
        BY <4>3, <4>4
    <3> QED
      BY <2>2, <3>2, <3>3, <3>4
  <2> QED
    BY <2>3, <2>4
<1> QED
  BY <1>3, <1>4

\* The end of a line: the sentence is stored if it has fitted.
LEMMA LineCatches ==
    ASSUME LineInv, NEW c \in Nat \X Nat, TakenUpTo(c), NEW d \in Symbols, fifo # <<>>, fifo[1] = d,
           d = Succ(c), d[2] = 0, CollectSymbol, DOMAIN tokens = Kinds
    PROVE  /\ raw' = <<>> /\ DOMAIN tokens' = Kinds
           /\ \A t \in Kinds : LastOf(t, DoneBy(d, t))'
<1> DEFINE m == c[1]
<1>1. /\ c = <<m, c[2]>> /\ m \in Nat /\ c[2] \in Nat
      /\ c[2] > 0 => m \in 1 .. Len(sent) /\ c[2] =< sent[m] /\ sent[m] \in Nat
  BY TakenFacts
<1>2. MaxRaw \in Nat /\ MaxRaw >= 2
  BY SizeAssumption
<1>3. c[2] > 0 /\ c[2] = sent[m] /\ d = <<m, 0>>
  BY <1>1 DEF Succ
<1>4. /\ sent' = sent /\ raw' = <<>>
      /\ ~Marked(raw) => tokens' = tokens
      /\ Marked(raw) => tokens' = [tokens EXCEPT ![KindOf(raw[1][1])] = raw]
  BY <1>3 DEF CollectSymbol, IsEndOfLine, AfterLine, gpsVars
<1>5. \A n \in Nat : (n < m \/ n = m) <=> n =< m
  BY <1>1
<1>6. /\ m \in 1 .. Len(sent) /\ sent[m] \in Nat /\ KindOf(m) \in Kinds
  BY <1>1, <1>3 DEF KindOf, Kinds
<1>7. DOMAIN tokens' = Kinds
  BY <1>4
<1>8. ASSUME NEW t \in Kinds PROVE LastOf(t, DoneBy(d, t))'
  <2> DEFINE S == DoneBy(c, t)
             T == IF t = KindOf(m) /\ sent[m] =< MaxRaw - 1 THEN S \cup {m} ELSE S
  <2>1. \A n : n \in S => n \in 1 .. Len(sent) /\ n < m
    BY <1>1, <1>3 DEF DoneBy
  <2>2. T = {n \in 1 .. Len(sent) : KindOf(n) = t /\ sent[n] =< MaxRaw - 1 /\ (n < m \/ n = m)}
    BY <1>3, <1>6 DEF DoneBy
  <2>3. DoneBy(d, t) = T
    BY <1>3, <2>2 DEF DoneBy
  <2>4. DoneBy(d, t)' = DoneBy(d, t)
    BY <1>4 DEF DoneBy
  <2>5. LastOf(t, S)
    BY DEF TakenUpTo
  <2>6. \A n \in 1 .. Len(sent) : Sentence(n)' = Sentence(n)
    BY <1>4 DEF Sentence
  <2> DEFINE Now == \/ T = {} /\ tokens'[t] = <<>>
                    \/ \E n \in T : (\A x \in T : x =< n) /\ tokens'[t] = Sentence(n)
  <2>7. \A n \in T : n \in 1 .. Len(sent)
    BY <2>2
  <2> HIDE DEF S, T
  <2>8. Now => LastOf(t, DoneBy(d, t))'
    BY <2>3, <2>4, <2>6, <2>7 DEF LastOf
  <2>9. CASE sent[m] =< MaxRaw - 1
    <3>1. raw = Sentence(m)
      BY <1>3, <2>9 DEF TakenUpTo, Sentence
    <3>2. raw[1] = <<m, 1>> /\ raw # <<>>
      <4>1. raw = [i \in 1 .. sent[m] |-> <<m, i>>] /\ 1 \in 1 .. sent[m]
        BY <1>3, <1>6, <3>1 DEF Sentence
      <4>2. 1 \in DOMAIN raw
        BY <4>1
      <4> QED
        BY <4>1, <4>2
    <3>3. Marked(raw)
      BY <1>6, <3>2 DEF Marked, Junk
    <3>4. tokens' = [tokens EXCEPT ![KindOf(m)] = Sentence(m)]
      BY <1>4, <3>1, <3>2, <3>3
    <3>5. ASSUME t = KindOf(m) PROVE Now
      <4>1. m \in T /\ \A x \in T : x =< m
        BY <1>1, <2>1, <2>9, <3>5, StreamFacts DEF T
      <4>2. tokens'[t] = Sentence(m)
        BY <1>6, <3>4, <3>5
      <4> QED
        BY <4>1, <4>2
    <3>6. ASSUME t # KindOf(m) PROVE Now
      <4>1. T = S /\ tokens'[t] = tokens[t]
        BY <1>6, <3>4, <3>6 DEF T
      <4> QED
        BY <2>5, <4>1 DEF LastOf
    <3> QED
      BY <2>8, <3>5, <3>6
  <2>10. CASE ~(sent[m] =< MaxRaw - 1)
    <3>1. ~Marked(raw) /\ tokens' = tokens
      BY <1>2, <1>3, <1>4, <1>6, <2>10 DEF TakenUpTo
    <3>2. T = S
      BY <2>10 DEF T
    <3> QED
      BY <2>5, <2>8, <3>1, <3>2 DEF LastOf
  <2> QED
    BY <2>9, <2>10
<1> QED
  BY <1>4, <1>7, <1>8

LEMMA SymbolCatches == ASSUME LineInv, CaughtUp, CollectSymbol PROVE CaughtUp'
<1>1. /\ fifo # <<>> /\ fifo' = Tail(fifo) /\ UNCHANGED <<sent, place, damages>>
  BY DEF CollectSymbol, gpsVars
<1>2. DOMAIN tokens = Kinds /\ DOMAIN tokens' = Kinds
  BY DEF CaughtUp, CollectSymbol
<1> SUFFICES ASSUME damages = 0 PROVE \E c \in Nat \X Nat : TakenUpTo(c)'
  BY <1>1, <1>2 DEF CaughtUp
<1>3. PICK c \in Nat \X Nat : TakenUpTo(c)
  BY DEF CaughtUp
<1>4. PICK d \in Symbols : d = fifo[1]
  BY <1>1, StreamFacts
<1>5. d = Succ(c)
  BY <1>1, <1>3, <1>4 DEF TakenUpTo
<1>6. /\ d = <<d[1], d[2]>> /\ d[1] \in 1 .. Len(sent) /\ d[2] \in Nat /\ d[2] =< sent[d[1]]
  BY SymbolFacts
<1>7. d \in Nat \X Nat /\ d[1] =< Len(sent) /\ (d[1] = 0 => d[2] = 0)
  BY <1>6, StreamFacts
<1>8. IF fifo' = <<>> THEN Out' = d ELSE fifo'[1] = Succ(d)'
  <2>1. /\ fifo' \in Seq(Symbols) /\ Len(fifo') = Len(fifo) - 1 /\ Len(fifo) \in Nat \ {0}
        /\ \A i \in 1 .. Len(fifo') : fifo'[i] = fifo[i + 1]
    BY <1>1, StreamFacts, HeadTailProperties DEF LineInv, StreamOK
  <2>2. ~GapAfter(1)
    BY <2>1, Undamaged
  <2>3. Out' = Out /\ Succ(d)' = Succ(d)
    BY <1>1 DEF Out, Succ
  <2>4. CASE fifo' = <<>>
    <3>1. Len(fifo) = 1
      BY <2>1, <2>4, EmptySeq
    <3> QED
      BY <1>4, <2>2, <2>3, <2>4, <3>1 DEF GapAfter
  <2>5. CASE fifo' # <<>>
    <3>1. Len(fifo) # 1 /\ 1 \in 1 .. Len(fifo')
      BY <2>1, <2>5, EmptySeq
    <3>2. fifo'[1] = fifo[1 + 1]
      BY <2>1, <3>1
    <3> QED
      BY <1>4, <2>2, <2>3, <2>5, <3>1, <3>2 DEF GapAfter
  <2> QED
    BY <2>4, <2>5
<1>9. CASE d[2] = 0
  <2>1. raw' = <<>> /\ \A t \in Kinds : LastOf(t, DoneBy(d, t))'
    BY <1>1, <1>2, <1>3, <1>4, <1>5, <1>9, LineCatches
  <2>2. ~(d[2] > 0) /\ ~(d[2] >= MaxRaw)
    BY <1>9, SizeAssumption
  <2>3. TakenUpTo(d)'
    BY <1>1, <1>6, <1>7, <1>8, <2>1, <2>2 DEF TakenUpTo
  <2> QED
    BY <1>7, <2>3
<1>10. CASE d[2] # 0
  <2> DEFINE after == IF Fits(raw) THEN Append(raw, d) ELSE <<>>
  <2>1. raw' = after /\ tokens' = tokens
    BY <1>1, <1>4, <1>10 DEF CollectSymbol, IsEndOfLine, Overflown
  <2>2. /\ \A t \in Kinds : DoneBy(d, t) = DoneBy(c, t)
        /\ d[2] > 0 /\ d[2] =< MaxRaw - 1 => after = [i \in 1 .. d[2] |-> <<d[1], i>>]
        /\ d[2] >= MaxRaw => ~Marked(after)
    BY <1>1, <1>3, <1>4, <1>5, <1>10, InsideCatches
  <2>3. ASSUME NEW t \in Kinds PROVE LastOf(t, DoneBy(d, t))'
    <3>1. DoneBy(d, t)' = DoneBy(c, t)
      BY <1>1, <2>2 DEF DoneBy
    <3>2. LastOf(t, DoneBy(c, t))
      BY <1>3 DEF TakenUpTo
    <3> QED
      BY <1>1, <2>1, <3>1, <3>2 DEF LastOf, Sentence
  <2> HIDE DEF after
  <2>4. /\ d[2] > 0 /\ d[2] =< MaxRaw - 1 => raw' = [i \in 1 .. d[2] |-> <<d[1], i>>]
        /\ d[2] >= MaxRaw => ~Marked(raw)'
    BY <2>1, <2>2 DEF Marked
  <2>5. TakenUpTo(d)'
    BY <1>1, <1>6, <1>7, <1>8, <1>10, <2>3, <2>4 DEF TakenUpTo
  <2> QED
    BY <1>7, <2>5
<1> QED
  BY <1>9, <1>10

LEMMA AlwaysCaughtUp == Spec => []CaughtUp
<1>1. Init => CaughtUp
  <2> SUFFICES ASSUME Init PROVE CaughtUp
    OBVIOUS
  <2>1. sent = <<>> /\ place = 0 /\ fifo = <<>> /\ raw = <<>> /\ tokens = [t \in Kinds |-> <<>>]
    BY DEF Init
  <2>2. Len(sent) = 0 /\ Out = <<0, 0>> /\ ~(0 >= MaxRaw)
    BY <2>1, SizeAssumption, EmptySeq DEF Out
  <2>3. \A t \in Kinds : DoneBy(<<0, 0>>, t) = {}
    BY <2>2 DEF DoneBy
  <2>4. TakenUpTo(<<0, 0>>)
    BY <2>1, <2>2, <2>3 DEF TakenUpTo, LastOf
  <2> QED
    BY <2>1, <2>4 DEF CaughtUp
<1>2. ASSUME LineInv, CaughtUp, [Next]_vars PROVE CaughtUp'
  <2>1. CASE GpsStep
    BY <1>2, <2>1, GpsCatches
  <2>2. CASE CollectSymbol
    BY <1>2, <2>2, SymbolCatches
  <2>3. ASSUME tokens' = tokens, damages' # 0 PROVE CaughtUp'
    BY <1>2, <2>3 DEF CaughtUp
  <2>4. CASE CollectBeginJunk \/ BridgeBegin
    <3>1. tokens' = tokens /\ damages' = damages + 1
      BY <2>4 DEF CollectBeginJunk, BridgeBegin, collector
    <3> QED
      BY <1>2, <2>3, <3>1, StreamFacts
  <2>5. CASE BridgeOpen \/ BridgeSymbol \/ BridgeEnd
    <3>1. tokens' = tokens /\ damages' = damages /\ core0 # "serve"
      BY <2>5 DEF BridgeOpen, BridgeSymbol, BridgeEnd, collector
    <3>2. damages # 0
      BY <1>2, <3>1, Undamaged
    <3> QED
      BY <2>3, <3>1, <3>2
  <2>6. CASE CollectBegin \/ CollectEnd \/ (\E key \in Keys : BridgeKey(key)) \/ Silent \/ UNCHANGED vars
    <3>1. UNCHANGED <<sent, place, fifo, raw, tokens, damages>>
      BY <2>6 DEF CollectBegin, CollectEnd, BridgeKey, Silent, vars, gpsVars, collector
    <3>2. ASSUME NEW c \in Nat \X Nat, TakenUpTo(c) PROVE TakenUpTo(c)'
      <4>1. Out' = Out /\ Succ(c)' = Succ(c)
        BY <3>1 DEF Out, Succ
      <4>2. Marked(raw)' <=> Marked(raw)
        BY <3>1 DEF Marked
      <4>3. ASSUME NEW t \in Kinds PROVE LastOf(t, DoneBy(c, t))'
        <5>1. DoneBy(c, t)' = DoneBy(c, t) /\ \A n : Sentence(n)' = Sentence(n)
          BY <3>1 DEF DoneBy, Sentence
        <5>2. LastOf(t, DoneBy(c, t))
          BY <3>2 DEF TakenUpTo
        <5> QED
          BY <3>1, <5>1, <5>2 DEF LastOf
      <4> QED
        BY <3>1, <3>2, <4>1, <4>2, <4>3 DEF TakenUpTo
    <3> QED
      BY <1>2, <3>1, <3>2 DEF CaughtUp
  <2> QED
    BY <1>2, <2>1, <2>2, <2>4, <2>5, <2>6 DEF Next, GpsStep
<1> QED
  BY <1>1, <1>2, AlwaysLineInv, PTL DEF Spec

\* For every FIFO, buffer and lengths: while nothing was damaged, who has read all
\* has the newest sentence of each kind that fits.
THEOREM Missed == Spec => []NothingMissed
<1>1. ASSUME LineInv, CaughtUp PROVE NothingMissed
  <2> SUFFICES ASSUME damages = 0, fifo = <<>>, NEW t \in Kinds
               PROVE  tokens[t] = IF FittingOf(t) = {} THEN <<>> ELSE Sentence(Max(FittingOf(t)))
    BY DEF NothingMissed
  <2>1. PICK c \in Nat \X Nat : TakenUpTo(c)
    BY <1>1 DEF CaughtUp
  <2>2. c[1] = Len(sent) /\ c[2] = place
    BY <2>1 DEF TakenUpTo, Out
  <2>3. DoneBy(c, t) = FittingOf(t)
    <3>1. Len(sent) \in Nat /\ DOMAIN sent = 1 .. Len(sent)
      BY <1>1, LenProperties DEF LineInv, StreamOK
    <3>2. \A last \in Nat : \A n \in 1 .. last :
             (n < last \/ (n = last /\ place = 0)) <=> (n = last => place = 0)
      OBVIOUS
    <3>3. \A n \in 1 .. Len(sent) :
             (n < c[1] \/ (n = c[1] /\ c[2] = 0)) <=> (n = Len(sent) => place = 0)
      BY <2>2, <3>1, <3>2
    <3> QED
      BY <3>1, <3>3 DEF DoneBy, FittingOf
  <2>4. LastOf(t, FittingOf(t))
    BY <2>1, <2>3 DEF TakenUpTo
  <2>5. ASSUME NEW n \in FittingOf(t), \A x \in FittingOf(t) : x =< n
        PROVE  Max(FittingOf(t)) = n
    <3>1. \A x \in FittingOf(t) : x \in Nat
      BY <1>1, LenProperties DEF FittingOf, LineInv, StreamOK
    <3> DEFINE S == FittingOf(t)
    <3>2. \A x \in S : (\A y \in S : x >= y) => x = n
      BY <2>5, <3>1
    <3>3. n \in S /\ \A y \in S : n >= y
      BY <2>5, <3>1
    <3> HIDE DEF S
    <3>4. Max(S) = n
      BY <3>2, <3>3 DEF Max
    <3> QED
      BY <3>4 DEF S
  <2> QED
    BY <2>4, <2>5 DEF LastOf
<1> QED
  BY <1>1, AlwaysLineInv, AlwaysCaughtUp, PTL
====
