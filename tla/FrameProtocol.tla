---------------------------- MODULE FrameProtocol ----------------------------
(***************************************************************************)
(* The text frames of lib/comms: frame_encode, frame_decode and frame_build *)
(* (frame.cpp), the conversions of utils_converters.cpp, and the search for *)
(* frames in received text (extract_and_process_frames, receive.cpp).       *)
(*                                                                         *)
(* Text is a sequence of symbols: the marks KBST and TSBK, the delimiter and *)
(* words without any of these.  A field is the text between two delimiters,  *)
(* so damaged input may well have fields such as <<"1", "KBST">>.            *)
(***************************************************************************)
EXTENDS Integers, Sequences, FiniteSetsExt

CONSTANTS
    Number,    \* what stoi reads from the words that begin with a number
    MaxGroup,  \* greatest group that frame_decode lets pass: 10
    MaxCommand \* greatest command that it lets pass: 10

ASSUME NumberAssumption == \A w \in DOMAIN Number : Number[w] \in Int
ASSUME RangeAssumption == MaxGroup \in Nat /\ MaxCommand \in Nat

FRAME_BEGIN == "KBST"
FRAME_END == "TSBK"
DELIMITER == ";"

Operations == {"GET", "SET", "VAL", "ERR", "RES", "SEQ"}

\* What tells fields and frames apart; a field has none of it.
Marks == {FRAME_BEGIN, FRAME_END, DELIMITER}
Plain(field) ==
    /\ field \in Seq({field[i] : i \in DOMAIN field})
    /\ \A i \in 1 .. Len(field) : field[i] \notin Marks

HasWord(n) == \E w \in DOMAIN Number : Number[w] = n

\* A number is neither a mark nor an operation, and those of a frame can be printed.
ASSUME WordAssumption ==
    /\ \A w \in DOMAIN Number : w \notin Marks \cup Operations
    /\ \A n \in (0 .. 1) \cup (0 .. MaxGroup) \cup (0 .. MaxCommand) : HasWord(n)

\* A frame without the marks, which every frame has.
FrameOf(direction, op, group, command, value, unit) ==
    [direction |-> direction, op |-> op, group |-> group, command |-> command,
     value |-> value, unit |-> unit]

\* frame_build, for the operations that replies are built with.
Build(op, group, command, value, unit) == FrameOf(1, op, group, command, value, unit)

\* The word for a number, as std::to_string prints it.
Word(n) == CHOOSE w \in DOMAIN Number : Number[w] = n

\* Mutant: no delimiter before the mark at the end.
Encode_Unclosed(f) ==
    <<FRAME_BEGIN, DELIMITER, Word(f.direction), DELIMITER, f.op, DELIMITER,
      Word(f.group), DELIMITER, Word(f.command), DELIMITER>>
    \o f.value \o <<FRAME_END>>

\* frame_encode; the delimiter before an empty unit is left out.
Encode(f) ==
    <<FRAME_BEGIN, DELIMITER, Word(f.direction), DELIMITER, f.op, DELIMITER,
      Word(f.group), DELIMITER, Word(f.command), DELIMITER>>
    \o f.value
    \o (IF f.unit = <<>> THEN <<>> ELSE <<DELIMITER>> \o f.unit)
    \o <<DELIMITER, FRAME_END>>

-----------------------------------------------------------------------------
(* frame_decode.                                                           *)

\* The first place of a symbol from some place on, or 0 (std::string::npos).
Find(text, symbol, from) ==
    LET places == {i \in from .. Len(text) : text[i] = symbol}
    IN  IF places = {} THEN 0 ELSE Min(places)

\* The fields of a text, as repeated getline calls return them.
Fields(text) ==
    LET from[i \in 1 .. (Len(text) + 1)] ==
            LET end == Find(text, DELIMITER, i) IN
            IF end = 0 THEN <<SubSeq(text, i, Len(text))>>
            ELSE <<SubSeq(text, i, end - 1)>> \o from[end + 1]
    IN  from[1]

\* stoi takes the number a field begins with, whatever follows; else it throws.
IsNumber(field) == field # <<>> /\ Head(field) \in DOMAIN Number
Stoi(field) == Number[Head(field)]

InRange(field, low, high) == IsNumber(field) /\ Stoi(field) \in low .. high

\* Mutant: what it does not know is a SET.
OperationOf_Set(field) ==
    IF \E op \in Operations : field = <<op>> THEN Head(field) ELSE "SET"

\* string_to_operation_type: what it does not know is a GET.
OperationOf(field) ==
    IF \E op \in Operations : field = <<op>> THEN Head(field) ELSE "GET"

\* A getline that finds nothing leaves the token of the one before it.
Footer(fs) == fs[IF Len(fs) < 8 THEN Len(fs) ELSE 8]

\* Mutant: the mark at the end is not asked for.
WellFormed_NoFooter(fs) ==
    /\ Len(fs) >= 5
    /\ fs[1] = <<FRAME_BEGIN>>
    /\ InRange(fs[2], 0, 1)
    /\ InRange(fs[4], 0, MaxGroup) /\ InRange(fs[5], 0, MaxCommand)

\* Nothing is thrown: op, group and command are there and in range, and the
\* last field read is TSBK.
WellFormed(fs) ==
    /\ Len(fs) >= 5
    /\ fs[1] = <<FRAME_BEGIN>>
    /\ InRange(fs[2], 0, 1)
    /\ InRange(fs[4], 0, MaxGroup) /\ InRange(fs[5], 0, MaxCommand)
    /\ Footer(fs) = <<FRAME_END>>

FieldOr(fs, i) == IF Len(fs) >= i THEN fs[i] ELSE <<>>

\* What is thrown is caught and becomes an error frame of group 0, command 0.
FrameFrom(fs) ==
    IF WellFormed(fs)
      THEN FrameOf(Stoi(fs[2]), OperationOf(fs[3]), Stoi(fs[4]), Stoi(fs[5]),
                   FieldOr(fs, 6), FieldOr(fs, 7))
      ELSE Build("ERR", 0, 0, <<"decode_error">>, <<>>)

Decode(text) == FrameFrom(Fields(text))

-----------------------------------------------------------------------------
(* extract_and_process_frames.                                             *)

\* The texts handed to frame_process, in order: from each KBST to the next TSBK.
Extract(text) ==
    LET from[i \in 1 .. (Len(text) + 1)] ==
            LET begin == Find(text, FRAME_BEGIN, i)
                end == IF begin = 0 THEN 0 ELSE Find(text, FRAME_END, begin)
            IN  IF begin = 0 \/ end = 0 THEN <<>>
                ELSE <<SubSeq(text, begin, end)>> \o from[end + 1]
    IN  from[1]
=============================================================================
