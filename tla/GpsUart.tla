------------------------------- MODULE GpsUart -------------------------------
(***************************************************************************)
(* The two readers of the GPS UART: collect_gps_data, which core 1 calls     *)
(* every 10 ms, and the pass-through of command 7.2 on core 0, which pauses   *)
(* it.  A sentence n is its symbols <<n, 1>> (which holds the mark $GPRMC or  *)
(* $GPGGA), <<n, 2>>, ..., and the end of line <<n, 0>>.                      *)
(***************************************************************************)
EXTENDS Integers, Sequences, SequencesExt, FiniteSetsExt

CONSTANTS
    MaxRaw,       \* MAX_RAW_DATA_LENGTH
    FifoSize,     \* symbols that the UART holds
    ExitSequence, \* EXIT_SEQUENCE, "##EXIT##"
    Keys,         \* what the user may type
    Lengths,      \* lengths of the sentences
    MaxSentences, MaxTyped, MaxSessions, MaxJunk \* bounds of the model

ASSUME SizeAssumption ==
    /\ MaxRaw \in Nat /\ MaxRaw >= 2 /\ FifoSize \in Nat \ {0}
    /\ Lengths \subseteq Nat \ {0}
    /\ MaxSentences \in Nat /\ MaxTyped \in Nat /\ MaxSessions \in Nat /\ MaxJunk \in Nat
ASSUME ExitAssumption == ExitSequence \in Seq(Keys) /\ ExitSequence # <<>>

VARIABLES
    sent,      \* lengths of the sentences begun by the GPS, the current one last
    place,     \* number of symbols of the current one that are out
    fifo,      \* what can be read from GPS_UART_PORT
    core1,     \* "out", or "in" collect_gps_data
    raw,       \* raw_data_buffer up to raw_data_index
    tokens,    \* rmc_tokens_ and gga_tokens_
    core0,     \* "serve", "settle" (its 100 ms) or "bridge"
    paused,    \* is_gps_collection_paused
    input,     \* input_buffer
    exiting,   \* exit_requested
    typed,     \* ghost: what the user typed in this session
    toGps,     \* ghost: what of it went to the GPS
    sessions,  \* ghost: number of sessions
    junked,    \* ghost: calls that found junk in raw_data_buffer
    damages,   \* ghost: these calls, the sessions and the symbols lost
    spoiled    \* ghost: sentences stored that the GPS did not send like that

gpsVars == <<sent, place>>
collector == <<core1, raw, tokens, junked, spoiled>>
bridge == <<core0, paused, input, exiting, typed, toGps, sessions>>
vars == <<gpsVars, fifo, collector, bridge, damages>>

Kinds == {"RMC", "GGA"}
Junk == <<0, 1>>

Init ==
    /\ sent = <<>> /\ place = 0 /\ fifo = <<>>
    /\ core1 = "out" /\ raw = <<>> /\ tokens = [t \in Kinds |-> <<>>]
    /\ core0 = "serve" /\ paused = FALSE /\ input = <<>> /\ exiting = FALSE
    /\ typed = <<>> /\ toGps = <<>>
    /\ sessions = 0 /\ junked = 0 /\ damages = 0 /\ spoiled = 0

-----------------------------------------------------------------------------
(* The GPS module: kinds take turns.  A symbol that finds the FIFO full is lost. *)

KindOf(n) == IF n % 2 = 1 THEN "RMC" ELSE "GGA"
Sentence(n) == [k \in 1 .. sent[n] |-> <<n, k>>]

Arrives(symbol) ==
    IF Len(fifo) < FifoSize
      THEN fifo' = Append(fifo, symbol) /\ UNCHANGED damages
      ELSE damages' = damages + 1 /\ UNCHANGED fifo

BeginSentence(length) ==
    /\ place = 0 /\ Len(sent) < MaxSentences
    /\ sent' = Append(sent, length)
    /\ place' = 1
    /\ Arrives(<<Len(sent'), 1>>)
    /\ UNCHANGED <<collector, bridge>>

ContinueSentence ==
    /\ place > 0
    /\ place' = IF place = Last(sent) THEN 0 ELSE place + 1
    /\ Arrives(<<Len(sent), place'>>)
    /\ UNCHANGED <<sent, collector, bridge>>

-----------------------------------------------------------------------------
(* collect_gps_data.                                                        *)

CollectBegin ==
    /\ core1 = "out" /\ ~paused
    /\ core1' = "in"
    /\ UNCHANGED <<gpsVars, fifo, raw, tokens, junked, spoiled, bridge, damages>>

\* The buffer is a local array and only its index is static: what an earlier call
\* wrote may have been overwritten on the stack.
CollectBeginJunk ==
    /\ core1 = "out" /\ ~paused
    /\ junked < MaxJunk
    /\ core1' = "in"
    /\ \E junk \in SUBSET DOMAIN raw \ {{}} :
          raw' = [i \in DOMAIN raw |-> IF i \in junk THEN Junk ELSE raw[i]]
    /\ junked' = junked + 1
    /\ damages' = damages + 1
    /\ UNCHANGED <<gpsVars, fifo, tokens, spoiled, bridge>>

IsEndOfLine(symbol) == symbol[2] = 0

\* The message begins with $GPRMC or $GPGGA.
Marked(message) == message # <<>> /\ message[1] # Junk /\ message[1][2] = 1

Fits(message) == Len(message) < MaxRaw - 1

\* Mutants: the message is cut off; a message that is not stored stays.
Overflown_CutOff(message) == message
Overflown(message) == <<>>
AfterLine_Kept(message) == IF Marked(message) THEN <<>> ELSE message
AfterLine(message) == <<>>

CollectSymbol ==
    /\ core1 = "in" /\ fifo # <<>>
    /\ fifo' = Tail(fifo)
    /\ LET c == Head(fifo) IN
       \/ /\ IsEndOfLine(c)
          /\ raw' = AfterLine(raw)
          /\ IF ~Marked(raw) THEN UNCHANGED <<tokens, spoiled>>
             ELSE /\ tokens' = [tokens EXCEPT ![KindOf(raw[1][1])] = raw]
                  /\ spoiled' = spoiled + (IF raw = Sentence(raw[1][1]) THEN 0 ELSE 1)
       \/ /\ ~IsEndOfLine(c)
          /\ raw' = IF Fits(raw) THEN Append(raw, c) ELSE Overflown(raw)
          /\ UNCHANGED <<tokens, spoiled>>
    /\ UNCHANGED <<gpsVars, core1, junked, bridge, damages>>

CollectEnd ==
    /\ core1 = "in" /\ fifo = <<>>
    /\ core1' = "out"
    /\ UNCHANGED <<gpsVars, fifo, raw, tokens, junked, spoiled, bridge, damages>>

-----------------------------------------------------------------------------
(* handle_enable_gps_uart_passthrough.                                      *)

BridgeBegin ==
    /\ core0 = "serve" /\ sessions < MaxSessions
    /\ core0' = "settle"
    /\ paused' = TRUE
    /\ sessions' = sessions + 1
    /\ damages' = damages + 1
    /\ UNCHANGED <<gpsVars, fifo, collector, input, exiting, typed, toGps>>

\* Core 1 does not look at the pause again once it is in; the 100 ms outlast its
\* call, which ends when it has caught up with a UART of 9600 baud.
BridgeOpen ==
    /\ core0 = "settle" /\ core1 = "out"
    /\ core0' = "bridge"
    /\ UNCHANGED <<gpsVars, fifo, collector, paused, input, exiting, typed, toGps, sessions, damages>>

IsPrefixOfExit(text) == IsPrefix(text, ExitSequence)

\* Mutant: the search starts afresh after a key that does not fit.
Window_Afresh(text, key) ==
    IF IsPrefixOfExit(Append(text, key)) THEN Append(text, key) ELSE <<>>

\* input_buffer keeps the last keys, as many as the exit sequence has.
Window(text, key) ==
    IF Len(text) < Len(ExitSequence) THEN Append(text, key) ELSE Append(Tail(text), key)

\* Mutant: only the exit sequence as a whole is kept from the GPS.
Withheld_Whole(text) == text = ExitSequence
Withheld(text) == IsPrefixOfExit(text)

BridgeKey(key) ==
    /\ core0 = "bridge" /\ ~exiting /\ Len(typed) < MaxTyped
    /\ input' = Window(input, key)
    /\ exiting' = (input' = ExitSequence)
    /\ toGps' = IF Withheld(input') THEN toGps ELSE Append(toGps, key)
    /\ typed' = Append(typed, key)
    /\ UNCHANGED <<gpsVars, fifo, collector, core0, paused, sessions, damages>>

BridgeSymbol ==
    /\ core0 = "bridge" /\ fifo # <<>>
    /\ fifo' = Tail(fifo)
    /\ UNCHANGED <<gpsVars, collector, bridge, damages>>

\* At the exit sequence, or when the time is over; input_buffer is a local variable.
BridgeEnd ==
    /\ core0 = "bridge"
    /\ core0' = "serve"
    /\ paused' = FALSE
    /\ input' = <<>> /\ exiting' = FALSE /\ typed' = <<>> /\ toGps' = <<>>
    /\ UNCHANGED <<gpsVars, fifo, collector, sessions, damages>>

\* Bound of the model: the GPS falls silent.
Silent == place = 0 /\ Len(sent) = MaxSentences /\ core0 = "serve" /\ UNCHANGED vars

Next ==
    \/ \E length \in Lengths : BeginSentence(length)
    \/ ContinueSentence
    \/ CollectBegin \/ CollectBeginJunk \/ CollectSymbol \/ CollectEnd
    \/ BridgeBegin \/ BridgeOpen \/ (\E key \in Keys : BridgeKey(key))
    \/ BridgeSymbol \/ BridgeEnd
    \/ Silent

Spec == Init /\ [][Next]_vars

-----------------------------------------------------------------------------
(* Properties.                                                             *)

\* The collector falls back into step: a lost symbol, a session and a call that
\* found junk each spoil at most one of the stored sentences, an overlong sentence is
\* never stored in part, and the terminating zero always finds room in the buffer.
DamageConfined == spoiled =< damages /\ Len(raw) =< MaxRaw - 1

\* While nothing was damaged, whoever has read all that was sent has the newest
\* sentence of each kind, whatever calls its symbols came in.
FittingOf(kind) ==
    {n \in DOMAIN sent :
        /\ KindOf(n) = kind /\ sent[n] =< MaxRaw - 1
        /\ n = Len(sent) => place = 0}

NothingMissed ==
    damages = 0 /\ fifo = <<>> =>
        \A t \in Kinds :
            tokens[t] = IF FittingOf(t) = {} THEN <<>> ELSE Sentence(Max(FittingOf(t)))

\* How much of the exit sequence the session begins with.
Begun == Max({k \in 0 .. Len(typed) : IsPrefixOfExit(SubSeq(typed, 1, k))})

\* The session ends when the last keys are the exit sequence, whatever was typed
\* before it (a false start included), and at no other key; the GPS gets what the user
\* typed, except the start of the exit sequence with which a session begins, and the
\* key that completes the sequence.
SessionExact ==
    /\ exiting <=> IsSuffix(ExitSequence, typed)
    /\ toGps = SubSeq(typed, Begun + 1, IF exiting THEN Len(typed) - 1 ELSE Len(typed))
=============================================================================
