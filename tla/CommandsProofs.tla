--------------------------- MODULE CommandsProofs ---------------------------
(***************************************************************************)
(* Lemmas about FrameProtocol, for texts of any length over any symbols:   *)
(* what the two searches through a text find (Extract, Fields), and that   *)
(* frame_decode reads back what frame_encode wrote; and theorems about     *)
(* Commands, for all frames the ground station may send, any table of      *)
(* numbers, and with or without failures of the clock.                     *)
(***************************************************************************)
EXTENDS Commands, SequenceTheorems, WellFoundedInduction, TLAPS

-----------------------------------------------------------------------------
(* Induction: from the end of a text to its beginning.                     *)

LEMMA LeastOf ==
    ASSUME NEW S \in SUBSET Nat, S # {}
    PROVE  \E i \in S : \A j \in S : i =< j
<1>1. PICK i \in S : \A j \in S : <<j, i>> \notin OpToRel(<, Nat)
  BY NatLessThanWellFounded, WFMin
<1>2. \A j \in S : i =< j
  <2> SUFFICES ASSUME NEW j \in S, ~(i =< j) PROVE FALSE
    OBVIOUS
  <2>1. i \in Nat /\ j \in Nat /\ j < i
    OBVIOUS
  <2>2. <<j, i>> \in OpToRel(<, Nat)
    BY <2>1 DEF OpToRel
  <2> QED
    BY <1>1, <2>2
<1> QED
  BY <1>2

LEMMA FromTheEnd ==
    ASSUME NEW n \in Nat, NEW S,
           \A i \in 1 .. n : (\A j \in (i + 1) .. n : j \in S) => i \in S
    PROVE  \A i \in 1 .. n : i \in S
<1> SUFFICES ASSUME NEW i \in 1 .. n, i \notin S PROVE FALSE
  OBVIOUS
<1> DEFINE Bad == {k \in Nat : k < n /\ n - k \notin S}
<1>1. n - i \in Bad
  OBVIOUS
<1>2. PICK m \in Bad : \A k \in Bad : m =< k
  <2>1. Bad \in SUBSET Nat
    OBVIOUS
  <2> HIDE DEF Bad
  <2> QED
    BY <1>1, <2>1, LeastOf
<1>3. n - m \in 1 .. n /\ n - m \notin S
  BY <1>2
<1>4. ASSUME NEW j \in (n - m + 1) .. n
      PROVE  j \in S
  <2>1. n - j \in Nat /\ n - j < m /\ n - (n - j) = j
    BY <1>2
  <2> QED
    BY <1>2, <2>1
<1> QED
  BY <1>3, <1>4

\* A list that is cut off piece by piece, from every place on, exists: next says where
\* the piece that begins at a place ends, 0 that nothing more can be cut off there.
Cutting(n, next, piece, end, f) ==
    f = [i \in 1 .. n |-> IF next[i] = 0 THEN end[i] ELSE <<piece[i]>> \o f[next[i]]]

LEMMA CuttingExists ==
    ASSUME NEW n \in Nat, NEW next, NEW piece, NEW end,
           \A i \in 1 .. n : next[i] = 0 \/ next[i] \in (i + 1) .. n
    PROVE  \E f : Cutting(n, next, piece, end, f)
<1> DEFINE Part(k, f) ==
             f = [i \in k .. n |-> IF next[i] = 0 THEN end[i] ELSE <<piece[i]>> \o f[next[i]]]
           S == {k \in 1 .. n : \E f : Part(k, f)}
<1>1. ASSUME NEW k \in 1 .. n, \A j \in (k + 1) .. n : j \in S
      PROVE  k \in S
  <2>1. PICK g : Part(k + 1, g)
    <3>1. CASE k < n
      <4>1. k + 1 \in (k + 1) .. n
        BY <3>1
      <4>2. k + 1 \in S
        BY <1>1, <4>1
      <4> QED
        BY <4>2
    <3>2. CASE k = n
      <4> DEFINE g == [i \in (k + 1) .. n |-> <<>>]
      <4>1. Part(k + 1, g)
        BY <3>2
      <4> QED
        BY <4>1
    <3> QED
      BY <3>1, <3>2
  <2> DEFINE f == [i \in k .. n |->
                     IF i = k THEN (IF next[k] = 0 THEN end[k] ELSE <<piece[k]>> \o g[next[k]])
                     ELSE g[i]]
  <2>2. \A i \in (k + 1) .. n : f[i] = g[i]
    OBVIOUS
  <2>3. ASSUME NEW i \in k .. n
        PROVE  f[i] = IF next[i] = 0 THEN end[i] ELSE <<piece[i]>> \o f[next[i]]
    <3>1. next[i] # 0 => next[i] \in (k + 1) .. n
      OBVIOUS
    <3>2. next[i] # 0 => f[next[i]] = g[next[i]]
      BY <2>2, <3>1
    <3>3. CASE i = k
      BY <3>2, <3>3
    <3>4. CASE i # k
      <4>1. i \in (k + 1) .. n
        BY <3>4
      <4>2. g[i] = IF next[i] = 0 THEN end[i] ELSE <<piece[i]>> \o g[next[i]]
        BY <2>1, <4>1
      <4> QED
        BY <2>2, <3>2, <4>1, <4>2
    <3> QED
      BY <3>3, <3>4
  <2>4. Part(k, f)
    BY <2>3
  <2> QED
    BY <2>4
<1> HIDE DEF S
<1>2. \A i \in 1 .. n : i \in S
  BY <1>1, FromTheEnd
<1>3. CASE n = 0
  <2> DEFINE f == [i \in 1 .. n |-> <<>>]
  <2>1. Cutting(n, next, piece, end, f)
    BY <1>3 DEF Cutting
  <2> QED
    BY <2>1
<1>4. CASE n # 0
  <2>1. 1 \in S
    BY <1>2, <1>4
  <2> QED
    BY <2>1 DEF S, Cutting
<1> QED
  BY <1>3, <1>4

-----------------------------------------------------------------------------
(* The search for a symbol.                                                *)

LEMMA FindInside ==
    ASSUME NEW S, NEW text \in Seq(S), NEW symbol, NEW i \in Nat \ {0}
    PROVE  \/ /\ Find(text, symbol, i) = 0
              /\ \A j \in i .. Len(text) : text[j] # symbol
           \/ /\ Find(text, symbol, i) \in i .. Len(text)
              /\ text[Find(text, symbol, i)] = symbol
              /\ \A j \in i .. (Find(text, symbol, i) - 1) : text[j] # symbol
<1> DEFINE places == {j \in i .. Len(text) : text[j] = symbol}
<1>1. CASE places = {}
  BY <1>1 DEF Find
<1>2. CASE places # {}
  <2>1. places \in SUBSET Nat
    OBVIOUS
  <2>2. PICK m \in places : \A j \in places : m =< j
    <3> HIDE DEF places
    <3> QED
      BY <1>2, <2>1, LeastOf
  <2>3. Min(places) \in places /\ \A j \in places : Min(places) =< j
    BY <2>2 DEF Min
  <2>4. Find(text, symbol, i) = Min(places)
    BY <1>2 DEF Find
  <2>5. Min(places) \in i .. Len(text) /\ text[Min(places)] = symbol
    BY <2>3
  <2>6. \A j \in i .. (Min(places) - 1) : text[j] # symbol
    BY <2>3, <2>5
  <2> QED
    BY <2>4, <2>5, <2>6
<1> QED
  BY <1>1, <1>2

LEMMA FindAt ==
    ASSUME NEW S, NEW text \in Seq(S), NEW symbol, NEW i \in Nat \ {0},
           NEW n \in i .. Len(text), text[n] = symbol,
           \A j \in i .. (n - 1) : text[j] # symbol
    PROVE  Find(text, symbol, i) = n
<1>1. CASE Find(text, symbol, i) < n
  BY <1>1, FindInside
<1>2. CASE Find(text, symbol, i) > n
  BY <1>2, FindInside
<1>3. Find(text, symbol, i) \in Int
  BY FindInside
<1> QED
  BY <1>1, <1>2, <1>3

LEMMA FindNothing ==
    ASSUME NEW S, NEW text \in Seq(S), NEW symbol, NEW i \in Nat \ {0},
           \A j \in i .. Len(text) : text[j] # symbol
    PROVE  Find(text, symbol, i) = 0
BY FindInside

-----------------------------------------------------------------------------
(* The fields of a text, from a place on.                                  *)

FieldsFunction(text, f) ==
    f = [i \in 1 .. (Len(text) + 1) |->
           LET end == Find(text, DELIMITER, i) IN
           IF end = 0 THEN <<SubSeq(text, i, Len(text))>>
           ELSE <<SubSeq(text, i, end - 1)>> \o f[end + 1]]

FieldsAt(text, i) == (CHOOSE f : FieldsFunction(text, f))[i]

LEMMA FieldsFromStart == \A text : Fields(text) = FieldsAt(text, 1)
BY DEF Fields, FieldsAt, FieldsFunction

LEMMA FieldsExist ==
    ASSUME NEW S, NEW text \in Seq(S)
    PROVE  FieldsFunction(text, CHOOSE f : FieldsFunction(text, f))
<1> DEFINE n == Len(text) + 1
           next == [i \in 1 .. n |->
                      IF Find(text, DELIMITER, i) = 0 THEN 0
                      ELSE Find(text, DELIMITER, i) + 1]
           piece == [i \in 1 .. n |-> SubSeq(text, i, Find(text, DELIMITER, i) - 1)]
           end == [i \in 1 .. n |-> <<SubSeq(text, i, Len(text))>>]
<1>1. n \in Nat
  OBVIOUS
<1>2. \A i \in 1 .. n : next[i] = 0 \/ next[i] \in (i + 1) .. n
  BY FindInside
<1>3. \E f : Cutting(n, next, piece, end, f)
  <2> HIDE DEF n, next, piece, end
  <2> QED
    BY <1>1, <1>2, CuttingExists
<1>4. PICK f : Cutting(n, next, piece, end, f)
  BY <1>3
<1>5. \A i \in 1 .. n :
          f[i] = IF next[i] = 0 THEN end[i] ELSE <<piece[i]>> \o f[next[i]]
  BY <1>4 DEF Cutting
<1>6. f = [i \in 1 .. n |-> f[i]]
  BY <1>4 DEF Cutting
<1>7. ASSUME NEW i \in 1 .. n
      PROVE  f[i] = IF Find(text, DELIMITER, i) = 0 THEN <<SubSeq(text, i, Len(text))>>
                    ELSE <<SubSeq(text, i, Find(text, DELIMITER, i) - 1)>>
                         \o f[Find(text, DELIMITER, i) + 1]
  <2>1. Find(text, DELIMITER, i) # 0 =>
            /\ Find(text, DELIMITER, i) + 1 # 0
            /\ next[i] = Find(text, DELIMITER, i) + 1
    BY FindInside
  <2> QED
    BY <1>5, <2>1
<1>8. FieldsFunction(text, f)
  BY <1>6, <1>7 DEF FieldsFunction
<1> QED
  BY <1>8

LEMMA FieldsLast ==
    ASSUME NEW S, NEW text \in Seq(S), NEW i \in 1 .. (Len(text) + 1),
           Find(text, DELIMITER, i) = 0
    PROVE  FieldsAt(text, i) = <<SubSeq(text, i, Len(text))>>
<1>1. PICK f : f = CHOOSE g : FieldsFunction(text, g)
  OBVIOUS
<1>2. FieldsFunction(text, f)
  BY <1>1, FieldsExist
<1>3. f[i] = LET end == Find(text, DELIMITER, i) IN
             IF end = 0 THEN <<SubSeq(text, i, Len(text))>>
             ELSE <<SubSeq(text, i, end - 1)>> \o f[end + 1]
  BY <1>2, Zenon DEF FieldsFunction
<1> QED
  BY <1>1, <1>3 DEF FieldsAt

LEMMA FieldsNext ==
    ASSUME NEW S, NEW text \in Seq(S), NEW i \in 1 .. (Len(text) + 1),
           Find(text, DELIMITER, i) # 0
    PROVE  FieldsAt(text, i) = <<SubSeq(text, i, Find(text, DELIMITER, i) - 1)>>
                               \o FieldsAt(text, Find(text, DELIMITER, i) + 1)
<1>1. PICK f : f = CHOOSE g : FieldsFunction(text, g)
  OBVIOUS
<1>2. FieldsFunction(text, f)
  BY <1>1, FieldsExist
<1>3. f[i] = LET end == Find(text, DELIMITER, i) IN
             IF end = 0 THEN <<SubSeq(text, i, Len(text))>>
             ELSE <<SubSeq(text, i, end - 1)>> \o f[end + 1]
  BY <1>2, Zenon DEF FieldsFunction
<1> QED
  BY <1>1, <1>3 DEF FieldsAt

LEMMA FieldsType ==
    ASSUME NEW S, NEW text \in Seq(S)
    PROVE  \A i \in 1 .. (Len(text) + 1) : FieldsAt(text, i) \in Seq(Seq(S))
<1> DEFINE n == Len(text) + 1
           T == {i \in 1 .. n : FieldsAt(text, i) \in Seq(Seq(S))}
<1>1. ASSUME NEW i \in 1 .. n, \A j \in (i + 1) .. n : j \in T
      PROVE  i \in T
  <2>1. CASE Find(text, DELIMITER, i) = 0
    <3>1. FieldsAt(text, i) = <<SubSeq(text, i, Len(text))>>
      BY <2>1, FieldsLast
    <3>2. SubSeq(text, i, Len(text)) \in Seq(S)
      OBVIOUS
    <3>3. <<SubSeq(text, i, Len(text))>> \in Seq(Seq(S))
      BY <3>2
    <3> QED
      BY <3>1, <3>3
  <2>2. CASE Find(text, DELIMITER, i) # 0
    <3>1. PICK e : e = Find(text, DELIMITER, i)
      OBVIOUS
    <3>2. e \in i .. Len(text)
      BY <2>2, <3>1, FindInside
    <3>3. FieldsAt(text, i) = <<SubSeq(text, i, e - 1)>> \o FieldsAt(text, e + 1)
      BY <2>2, <3>1, FieldsNext
    <3>4. FieldsAt(text, e + 1) \in Seq(Seq(S))
      BY <1>1, <3>2
    <3>5. SubSeq(text, i, e - 1) \in Seq(S)
      BY <3>2
    <3>6. <<SubSeq(text, i, e - 1)>> \in Seq(Seq(S))
      BY <3>5
    <3>7. FieldsAt(text, i) \in Seq(Seq(S))
      <4> DEFINE x == <<SubSeq(text, i, e - 1)>>
                 y == FieldsAt(text, e + 1)
      <4>1. x \in Seq(Seq(S)) /\ y \in Seq(Seq(S))
        BY <3>4, <3>6
      <4>2. x \o y \in Seq(Seq(S))
        <5> HIDE DEF x, y
        <5> QED
          BY <4>1
      <4> QED
        BY <3>3, <4>2
    <3> QED
      BY <3>7
  <2> QED
    BY <2>1, <2>2
<1> HIDE DEF T
<1>2. \A i \in 1 .. n : i \in T
  <2>1. n \in Nat
    OBVIOUS
  <2> HIDE DEF n
  <2> QED
    BY <1>1, <2>1, FromTheEnd
<1> QED
  BY <1>2 DEF T

(* The texts of frames, from a place on.                                   *)

ExtractFunction(text, f) ==
    f = [i \in 1 .. (Len(text) + 1) |->
           LET begin == Find(text, FRAME_BEGIN, i)
               end == IF begin = 0 THEN 0 ELSE Find(text, FRAME_END, begin)
           IN  IF begin = 0 \/ end = 0 THEN <<>>
               ELSE <<SubSeq(text, begin, end)>> \o f[end + 1]]

ExtractAt(text, i) == (CHOOSE f : ExtractFunction(text, f))[i]

\* Where the frame that begins next ends, or 0.
EndAfter(text, i) ==
    IF Find(text, FRAME_BEGIN, i) = 0 THEN 0
    ELSE Find(text, FRAME_END, Find(text, FRAME_BEGIN, i))

LEMMA ExtractFromStart == \A text : Extract(text) = ExtractAt(text, 1)
BY DEF Extract, ExtractAt, ExtractFunction

LEMMA EndInside ==
    ASSUME NEW S, NEW text \in Seq(S), NEW i \in Nat \ {0}
    PROVE  \/ EndAfter(text, i) = 0
           \/ /\ Find(text, FRAME_BEGIN, i) \in i .. Len(text)
              /\ EndAfter(text, i) \in Find(text, FRAME_BEGIN, i) .. Len(text)
              /\ EndAfter(text, i) = Find(text, FRAME_END, Find(text, FRAME_BEGIN, i))
<1>1. CASE Find(text, FRAME_BEGIN, i) = 0
  BY <1>1 DEF EndAfter
<1>2. CASE Find(text, FRAME_BEGIN, i) # 0
  <2>1. Find(text, FRAME_BEGIN, i) \in i .. Len(text)
    BY <1>2, FindInside
  <2>2. PICK b \in Nat \ {0} : b = Find(text, FRAME_BEGIN, i)
    BY <2>1
  <2> QED
    BY <1>2, <2>1, <2>2, FindInside DEF EndAfter
<1> QED
  BY <1>1, <1>2

LEMMA ExtractExists ==
    ASSUME NEW S, NEW text \in Seq(S)
    PROVE  ExtractFunction(text, CHOOSE f : ExtractFunction(text, f))
<1> DEFINE n == Len(text) + 1
           next == [i \in 1 .. n |->
                      IF EndAfter(text, i) = 0 THEN 0 ELSE EndAfter(text, i) + 1]
           piece == [i \in 1 .. n |->
                       SubSeq(text, Find(text, FRAME_BEGIN, i), EndAfter(text, i))]
           end == [i \in 1 .. n |-> <<>>]
<1>1. n \in Nat
  OBVIOUS
<1>2. \A i \in 1 .. n : next[i] = 0 \/ next[i] \in (i + 1) .. n
  BY EndInside
<1>3. \E f : Cutting(n, next, piece, end, f)
  <2> HIDE DEF n, next, piece, end
  <2> QED
    BY <1>1, <1>2, CuttingExists
<1>4. PICK f : Cutting(n, next, piece, end, f)
  BY <1>3
<1>5. \A i \in 1 .. n :
          f[i] = IF next[i] = 0 THEN end[i] ELSE <<piece[i]>> \o f[next[i]]
  BY <1>4 DEF Cutting
<1>6. f = [i \in 1 .. n |-> f[i]]
  BY <1>4 DEF Cutting
<1>7. ASSUME NEW i \in 1 .. n
      PROVE  f[i] = IF EndAfter(text, i) = 0 THEN <<>>
                    ELSE <<SubSeq(text, Find(text, FRAME_BEGIN, i), EndAfter(text, i))>>
                         \o f[EndAfter(text, i) + 1]
  <2>1. EndAfter(text, i) # 0 =>
            EndAfter(text, i) + 1 # 0 /\ next[i] = EndAfter(text, i) + 1
    BY EndInside
  <2> QED
    BY <1>5, <2>1
<1>8. \A i \in 1 .. n :
          f[i] = LET begin == Find(text, FRAME_BEGIN, i)
                     last == IF begin = 0 THEN 0 ELSE Find(text, FRAME_END, begin)
                 IN  IF begin = 0 \/ last = 0 THEN <<>>
                     ELSE <<SubSeq(text, begin, last)>> \o f[last + 1]
  BY <1>7 DEF EndAfter
<1>9. ExtractFunction(text, f)
  BY <1>6, <1>8, Zenon DEF ExtractFunction
<1> QED
  BY <1>9

LEMMA ExtractEquation ==
    ASSUME NEW S, NEW text \in Seq(S), NEW i \in 1 .. (Len(text) + 1)
    PROVE  ExtractAt(text, i) =
               IF EndAfter(text, i) = 0 THEN <<>>
               ELSE <<SubSeq(text, Find(text, FRAME_BEGIN, i), EndAfter(text, i))>>
                    \o ExtractAt(text, EndAfter(text, i) + 1)
<1>1. PICK f : f = CHOOSE g : ExtractFunction(text, g)
  OBVIOUS
<1>2. ExtractFunction(text, f)
  BY <1>1, ExtractExists
<1>3. f[i] = LET begin == Find(text, FRAME_BEGIN, i)
                 last == IF begin = 0 THEN 0 ELSE Find(text, FRAME_END, begin)
             IN  IF begin = 0 \/ last = 0 THEN <<>>
                 ELSE <<SubSeq(text, begin, last)>> \o f[last + 1]
  BY <1>2, Zenon DEF ExtractFunction
<1>4. f[i] = IF EndAfter(text, i) = 0 THEN <<>>
             ELSE <<SubSeq(text, Find(text, FRAME_BEGIN, i), EndAfter(text, i))>>
                  \o f[EndAfter(text, i) + 1]
  BY <1>3 DEF EndAfter
<1> QED
  BY <1>1, <1>4 DEF ExtractAt

LEMMA ExtractNothing ==
    ASSUME NEW S, NEW text \in Seq(S), NEW i \in 1 .. (Len(text) + 1),
           EndAfter(text, i) = 0
    PROVE  ExtractAt(text, i) = <<>>
BY ExtractEquation

LEMMA ExtractNext ==
    ASSUME NEW S, NEW text \in Seq(S), NEW i \in 1 .. (Len(text) + 1),
           EndAfter(text, i) # 0
    PROVE  ExtractAt(text, i) =
               <<SubSeq(text, Find(text, FRAME_BEGIN, i), EndAfter(text, i))>>
               \o ExtractAt(text, EndAfter(text, i) + 1)
BY ExtractEquation

LEMMA ExtractType ==
    ASSUME NEW S, NEW text \in Seq(S)
    PROVE  \A i \in 1 .. (Len(text) + 1) : ExtractAt(text, i) \in Seq(Seq(S))
<1> DEFINE n == Len(text) + 1
           T == {i \in 1 .. n : ExtractAt(text, i) \in Seq(Seq(S))}
<1>1. ASSUME NEW i \in 1 .. n, \A j \in (i + 1) .. n : j \in T
      PROVE  i \in T
  <2>1. CASE EndAfter(text, i) = 0
    <3>1. ExtractAt(text, i) = <<>>
      BY <2>1, ExtractNothing
    <3> QED
      BY <3>1
  <2>2. CASE EndAfter(text, i) # 0
    <3>1. PICK b, e : b = Find(text, FRAME_BEGIN, i) /\ e = EndAfter(text, i)
      OBVIOUS
    <3>2. b \in i .. Len(text) /\ e \in b .. Len(text)
      BY <2>2, <3>1, EndInside
    <3>3. ExtractAt(text, i) = <<SubSeq(text, b, e)>> \o ExtractAt(text, e + 1)
      BY <2>2, <3>1, ExtractNext
    <3>4. ExtractAt(text, e + 1) \in Seq(Seq(S))
      BY <1>1, <3>2
    <3>5. SubSeq(text, b, e) \in Seq(S)
      BY <3>2
    <3>6. <<SubSeq(text, b, e)>> \in Seq(Seq(S))
      BY <3>5
    <3>7. ExtractAt(text, i) \in Seq(Seq(S))
      <4> DEFINE x == <<SubSeq(text, b, e)>>
                 y == ExtractAt(text, e + 1)
      <4>1. x \in Seq(Seq(S)) /\ y \in Seq(Seq(S))
        BY <3>4, <3>6
      <4>2. x \o y \in Seq(Seq(S))
        <5> HIDE DEF x, y
        <5> QED
          BY <4>1
      <4> QED
        BY <3>3, <4>2
    <3> QED
      BY <3>7
  <2> QED
    BY <2>1, <2>2
<1> HIDE DEF T
<1>2. \A i \in 1 .. n : i \in T
  <2>1. n \in Nat
    OBVIOUS
  <2> HIDE DEF n
  <2> QED
    BY <1>1, <2>1, FromTheEnd
<1> QED
  BY <1>2 DEF T

LEMMA FindSkip ==
    ASSUME NEW S, NEW text \in Seq(S), NEW symbol, NEW i \in Nat \ {0},
           NEW k \in i .. (Len(text) + 1),
           \A j \in i .. (k - 1) : text[j] # symbol
    PROVE  Find(text, symbol, i) = Find(text, symbol, k)
<1> DEFINE m == Find(text, symbol, k)
<1>1. \/ m = 0 /\ \A j \in k .. Len(text) : text[j] # symbol
      \/ m \in k .. Len(text) /\ text[m] = symbol /\ \A j \in k .. (m - 1) : text[j] # symbol
  BY FindInside
<1> HIDE DEF m
<1>2. CASE m = 0
  <2>1. \A j \in i .. Len(text) : text[j] # symbol
    BY <1>1, <1>2
  <2> QED
    BY <1>2, <2>1, FindNothing DEF m
<1>3. CASE m # 0
  <2>1. m \in i .. Len(text) /\ text[m] = symbol
    BY <1>1, <1>3
  <2>2. \A j \in i .. (m - 1) : text[j] # symbol
    BY <1>1, <1>3
  <2>3. Find(text, symbol, i) = m
    BY <2>1, <2>2, FindAt
  <2> QED
    BY <2>3 DEF m
<1> QED
  BY <1>2, <1>3

LEMMA ExtractSkip ==
    ASSUME NEW S, NEW text \in Seq(S), NEW i \in Nat \ {0},
           NEW k \in i .. (Len(text) + 1),
           \A j \in i .. (k - 1) : text[j] # FRAME_BEGIN
    PROVE  ExtractAt(text, i) = ExtractAt(text, k)
<1>1. Find(text, FRAME_BEGIN, i) = Find(text, FRAME_BEGIN, k)
  BY FindSkip
<1>2. EndAfter(text, i) = EndAfter(text, k)
  BY <1>1 DEF EndAfter
<1>3. i \in 1 .. (Len(text) + 1) /\ k \in 1 .. (Len(text) + 1)
  OBVIOUS
<1>4. ExtractAt(text, i) =
          IF EndAfter(text, i) = 0 THEN <<>>
          ELSE <<SubSeq(text, Find(text, FRAME_BEGIN, i), EndAfter(text, i))>>
               \o ExtractAt(text, EndAfter(text, i) + 1)
  BY <1>3, ExtractEquation
<1>5. ExtractAt(text, k) =
          IF EndAfter(text, k) = 0 THEN <<>>
          ELSE <<SubSeq(text, Find(text, FRAME_BEGIN, k), EndAfter(text, k))>>
               \o ExtractAt(text, EndAfter(text, k) + 1)
  BY <1>3, ExtractEquation
<1> QED
  BY <1>1, <1>2, <1>4, <1>5

\* A frame begins at a place and ends at another one.
LEMMA ExtractOne ==
    ASSUME NEW S, NEW text \in Seq(S), NEW b \in 1 .. Len(text), NEW e \in b .. Len(text),
           text[b] = FRAME_BEGIN, text[e] = FRAME_END,
           \A j \in b .. (e - 1) : text[j] # FRAME_END
    PROVE  ExtractAt(text, b) = <<SubSeq(text, b, e)>> \o ExtractAt(text, e + 1)
<1>1. Find(text, FRAME_BEGIN, b) = b
  BY FindAt
<1>2. Find(text, FRAME_END, b) = e
  BY FindAt
<1>3. EndAfter(text, b) = e /\ e # 0
  BY <1>1, <1>2 DEF EndAfter
<1>4. b \in 1 .. (Len(text) + 1) /\ EndAfter(text, b) # 0
  BY <1>3
<1>5. ExtractAt(text, b) =
          <<SubSeq(text, Find(text, FRAME_BEGIN, b), EndAfter(text, b))>>
          \o ExtractAt(text, EndAfter(text, b) + 1)
  BY <1>4, ExtractNext
<1> QED
  BY <1>1, <1>3, <1>5

-----------------------------------------------------------------------------
(* A text that grows.  Of what has come so far, some frames are complete;   *)
(* behind them either none has begun or one is open.                        *)

NoneBegun(text, p) == \A j \in p .. Len(text) : text[j] # FRAME_BEGIN
OneOpen(text, p) ==
    /\ p =< Len(text) /\ text[p] = FRAME_BEGIN
    /\ \A j \in p .. Len(text) : text[j] # FRAME_END

Scanned(S, text, frames, p) ==
    /\ text \in Seq(S) /\ frames \in Seq(Seq(S)) /\ p \in 1 .. (Len(text) + 1)
    /\ \A more \in Seq(S) : Extract(text \o more) = frames \o ExtractAt(text \o more, p)
    /\ NoneBegun(text, p) \/ OneOpen(text, p)

LEMMA ScannedAll ==
    ASSUME NEW S, NEW text, NEW frames, NEW p, Scanned(S, text, frames, p)
    PROVE  Extract(text) = frames
<1> USE DEF Scanned
<1>1. <<>> \in Seq(S) /\ text \o <<>> = text
  OBVIOUS
<1>2. Extract(text \o <<>>) = frames \o ExtractAt(text \o <<>>, p)
  BY <1>1
<1>3. Extract(text) = frames \o ExtractAt(text, p)
  BY <1>1, <1>2
<1>4. EndAfter(text, p) = 0
  <2>1. CASE NoneBegun(text, p)
    <3>1. Find(text, FRAME_BEGIN, p) = 0
      BY <2>1, FindNothing DEF NoneBegun
    <3> QED
      BY <3>1 DEF EndAfter
  <2>2. CASE OneOpen(text, p)
    <3>1. Find(text, FRAME_BEGIN, p) = p
      BY <2>2, FindAt DEF OneOpen
    <3>2. Find(text, FRAME_END, p) = 0
      BY <2>2, FindNothing DEF OneOpen
    <3> QED
      BY <3>1, <3>2 DEF EndAfter
  <2> QED
    BY <2>1, <2>2
<1>5. ExtractAt(text, p) = <<>>
  BY <1>4, ExtractNothing
<1> QED
  BY <1>3, <1>5

\* A text in which no frame begins.
LEMMA ScannedEnd ==
    ASSUME NEW S, NEW text \in Seq(S), \A j \in 1 .. Len(text) : text[j] # FRAME_BEGIN
    PROVE  Scanned(S, text, <<>>, 1) /\ NoneBegun(text, 1)
<1>1. ASSUME NEW more \in Seq(S)
      PROVE  Extract(text \o more) = <<>> \o ExtractAt(text \o more, 1)
  <2>1. Extract(text \o more) = ExtractAt(text \o more, 1)
    BY FieldsFromStart, ExtractFromStart
  <2>2. text \o more \in Seq(S) /\ 1 \in 1 .. (Len(text \o more) + 1)
    OBVIOUS
  <2>3. ExtractAt(text \o more, 1) \in Seq(Seq(S))
    BY <2>2, ExtractType
  <2> QED
    BY <2>1, <2>3
<1> QED
  BY <1>1 DEF Scanned, NoneBegun

\* The symbols of two texts in a row.
Joined(S, text, more, all) ==
    /\ all \in Seq(S)
    /\ Len(all) = Len(text) + Len(more) /\ Len(text) \in Nat /\ Len(more) \in Nat
    /\ \A j \in 1 .. Len(text) : all[j] = text[j]
    /\ \A j \in (Len(text) + 1) .. Len(all) : all[j] = more[j - Len(text)]
    /\ \A j \in 1 .. Len(more) : all[Len(text) + j] = more[j]

LEMMA InARow ==
    ASSUME NEW S, NEW text \in Seq(S), NEW more \in Seq(S)
    PROVE  Joined(S, text, more, text \o more)
BY DEF Joined

LEMMA ThreeInARow ==
    ASSUME NEW S, NEW a \in Seq(S), NEW b \in Seq(S), NEW c \in Seq(S)
    PROVE  (a \o b) \o c = a \o (b \o c)
OBVIOUS

Associates(T) == \A a, b, c \in Seq(T) : (a \o b) \o c = a \o (b \o c)

LEMMA AllAssociate == \A T : Associates(T)
<1> SUFFICES ASSUME NEW T, NEW a \in Seq(T), NEW b \in Seq(T), NEW c \in Seq(T)
             PROVE  (a \o b) \o c = a \o (b \o c)
  BY DEF Associates
<1> QED
  BY ThreeInARow

\* Behind the complete frames a frame begins, whose end has not come.
LEMMA ScannedBegin ==
    ASSUME NEW S, NEW text, NEW frames, NEW p, Scanned(S, text, frames, p),
           NEW piece \in Seq(S), piece # <<>>, piece[1] = FRAME_BEGIN,
           \A j \in 1 .. Len(piece) : piece[j] # FRAME_END
    PROVE  \E q : Scanned(S, text \o piece, frames, q)
<1> PICK long : long = text \o piece
  OBVIOUS
<1>1. text \in Seq(S) /\ frames \in Seq(Seq(S)) /\ p \in 1 .. (Len(text) + 1)
  BY DEF Scanned
<1>2. /\ long \in Seq(S)
      /\ Len(long) = Len(text) + Len(piece) /\ Len(piece) \in Nat \ {0}
      /\ \A j \in 1 .. Len(text) : long[j] = text[j]
      /\ \A j \in (Len(text) + 1) .. Len(long) : long[j] = piece[j - Len(text)]
  <2>1. Len(piece) \in Nat \ {0}
    OBVIOUS
  <2> QED
    BY <1>1, <2>1, InARow DEF Joined
<1>3. ASSUME NEW more \in Seq(S)
      PROVE  /\ piece \o more \in Seq(S)
             /\ long \o more = text \o (piece \o more)
             /\ Extract(long \o more) = frames \o ExtractAt(long \o more, p)
  <2>1. piece \o more \in Seq(S)
    OBVIOUS
  <2>2. long \o more = text \o (piece \o more)
    BY <1>1, ThreeInARow
  <2>3. Extract(text \o (piece \o more)) = frames \o ExtractAt(text \o (piece \o more), p)
    BY <2>1 DEF Scanned
  <2> QED
    BY <2>1, <2>2, <2>3
<1>4. long[Len(text) + 1] = FRAME_BEGIN
  <2>1. Len(text) + 1 \in (Len(text) + 1) .. Len(long) /\ (Len(text) + 1) - Len(text) = 1
    BY <1>1, <1>2
  <2> QED
    BY <1>2, <2>1
<1>5. \A j \in (Len(text) + 1) .. Len(long) : long[j] # FRAME_END
  BY <1>1, <1>2
<1>6. CASE OneOpen(text, p)
  <2>1. \A j \in p .. Len(text) : long[j] = text[j] /\ text[j] # FRAME_END
    BY <1>1, <1>2, <1>6 DEF OneOpen
  <2>2. OneOpen(long, p)
    <3>1. p =< Len(long) /\ long[p] = FRAME_BEGIN
      BY <1>1, <1>2, <1>6 DEF OneOpen
    <3>2. ASSUME NEW j \in p .. Len(long)
          PROVE  long[j] # FRAME_END
      <4>1. CASE j =< Len(text)
        BY <1>1, <2>1, <4>1
      <4>2. CASE j > Len(text)
        BY <1>1, <1>5, <4>2
      <4> QED
        BY <1>1, <4>1, <4>2
    <3> QED
      BY <3>1, <3>2 DEF OneOpen
  <2>3. p \in 1 .. (Len(long) + 1)
    BY <1>1, <1>2
  <2>4. Scanned(S, long, frames, p)
    BY <1>1, <1>2, <1>3, <2>2, <2>3 DEF Scanned
  <2> QED
    BY <2>4
<1>7. CASE NoneBegun(text, p)
  <2> DEFINE q == Len(text) + 1
  <2>1. ASSUME NEW more \in Seq(S)
        PROVE  ExtractAt(long \o more, p) = ExtractAt(long \o more, q)
    <3> PICK all : all = long \o more
      OBVIOUS
    <3>1. /\ all \in Seq(S)
          /\ Len(all) = Len(long) + Len(more) /\ Len(more) \in Nat
          /\ \A j \in 1 .. Len(long) : all[j] = long[j]
      BY <1>2, InARow DEF Joined
    <3>2. p \in Nat \ {0} /\ q \in p .. (Len(all) + 1)
      BY <1>1, <1>2, <3>1
    <3>3. ASSUME NEW j \in p .. (q - 1)
          PROVE  all[j] # FRAME_BEGIN
      <4>1. j \in p .. Len(text) /\ j \in 1 .. Len(text) /\ j \in 1 .. Len(long)
        BY <1>1, <1>2
      <4> QED
        BY <1>2, <1>7, <3>1, <4>1 DEF NoneBegun
    <3> QED
      BY <3>1, <3>2, <3>3, ExtractSkip
  <2>2. OneOpen(long, q) /\ q \in 1 .. (Len(long) + 1)
    BY <1>1, <1>2, <1>4, <1>5 DEF OneOpen
  <2>3. ASSUME NEW more \in Seq(S)
        PROVE  Extract(long \o more) = frames \o ExtractAt(long \o more, q)
    BY <1>3, <2>1
  <2>4. Scanned(S, long, frames, q)
    BY <1>1, <1>2, <2>2, <2>3 DEF Scanned
  <2> QED
    BY <2>4
<1> QED
  BY <1>6, <1>7 DEF Scanned

\* A text that is one frame.
OneFrame(text) ==
    /\ Len(text) > 1
    /\ text[1] = FRAME_BEGIN /\ text[Len(text)] = FRAME_END
    /\ \A j \in 2 .. Len(text) : text[j] # FRAME_BEGIN
    /\ \A j \in 1 .. (Len(text) - 1) : text[j] # FRAME_END

\* What a frame that comes whole is taken to be the end of.
OpenPart(text, p) == IF NoneBegun(text, p) THEN <<>> ELSE SubSeq(text, p, Len(text))

LEMMA ScannedWhole ==
    ASSUME NEW S, NEW text, NEW frames, NEW p, Scanned(S, text, frames, p),
           NEW t \in Seq(S), OneFrame(t)
    PROVE  LET new == frames \o <<OpenPart(text, p) \o t>>
               q == Len(text \o t) + 1
           IN  Scanned(S, text \o t, new, q) /\ NoneBegun(text \o t, q)
<1> PICK long : long = text \o t
  OBVIOUS
<1> DEFINE q == Len(long) + 1
           open == OpenPart(text, p)
           b == IF NoneBegun(text, p) THEN Len(text) + 1 ELSE p
<1>1. text \in Seq(S) /\ frames \in Seq(Seq(S)) /\ p \in 1 .. (Len(text) + 1)
  BY DEF Scanned
<1>2. /\ long \in Seq(S)
      /\ Len(long) = Len(text) + Len(t) /\ Len(t) \in Nat /\ Len(t) > 1
      /\ \A j \in 1 .. Len(text) : long[j] = text[j]
      /\ \A j \in (Len(text) + 1) .. Len(long) : long[j] = t[j - Len(text)]
  <2>1. Len(t) \in Nat /\ Len(t) > 1
    BY DEF OneFrame
  <2> QED
    BY <1>1, <2>1, InARow DEF Joined
<1>3. ASSUME NEW more \in Seq(S)
      PROVE  Extract(long \o more) = frames \o ExtractAt(long \o more, p)
  <2>1. t \o more \in Seq(S)
    OBVIOUS
  <2>2. long \o more = text \o (t \o more)
    BY <1>1, ThreeInARow
  <2>3. Extract(text \o (t \o more)) = frames \o ExtractAt(text \o (t \o more), p)
    BY <2>1 DEF Scanned
  <2> QED
    BY <2>2, <2>3
<1>4. open \in Seq(S)
  BY <1>1 DEF OpenPart
<1>5. b \in p .. (Len(text) + 1) /\ (~NoneBegun(text, p) => b =< Len(text))
  BY <1>1 DEF Scanned, OneOpen
<1>6. open \o t = SubSeq(long, b, Len(long))
  <2>1. CASE NoneBegun(text, p)
    <3>1. open \o t = t /\ b = Len(text) + 1
      BY <2>1 DEF OpenPart
    <3>2. SubSeq(long, Len(text) + 1, Len(long)) = t
      BY <1>1, <1>2
    <3> QED
      BY <3>1, <3>2
  <2>2. CASE ~NoneBegun(text, p)
    <3>1. open = SubSeq(text, p, Len(text)) /\ b = p /\ p =< Len(text)
      BY <1>5, <2>2 DEF OpenPart
    <3>2. SubSeq(long, p, Len(long)) = SubSeq(text, p, Len(text)) \o t
      BY <1>1, <1>2, <3>1, SMTT(60)
    <3> QED
      BY <3>1, <3>2
  <2> QED
    BY <2>1, <2>2
<1>7. long[b] = FRAME_BEGIN /\ \A j \in b .. (Len(long) - 1) : long[j] # FRAME_END
  <2>1. \A j \in (Len(text) + 1) .. (Len(long) - 1) : long[j] # FRAME_END
    BY <1>1, <1>2 DEF OneFrame
  <2>2. CASE NoneBegun(text, p)
    BY <1>1, <1>2, <2>1, <2>2 DEF OneFrame
  <2>3. CASE ~NoneBegun(text, p)
    <3>1. OneOpen(text, p) /\ b = p
      BY <2>3 DEF Scanned
    <3>2. \A j \in p .. Len(text) : long[j] # FRAME_END
      BY <1>1, <1>2, <3>1 DEF OneOpen
    <3>3. \A j \in b .. (Len(long) - 1) : long[j] # FRAME_END
      BY <1>1, <1>2, <2>1, <3>1, <3>2
    <3>4. long[b] = FRAME_BEGIN
      BY <1>1, <1>2, <3>1 DEF OneOpen
    <3> QED
      BY <3>3, <3>4
  <2> QED
    BY <2>2, <2>3
<1>8. long[Len(long)] = FRAME_END /\ b \in 1 .. Len(long)
  BY <1>1, <1>2, <1>5 DEF OneFrame
<1>9. \A j \in p .. (b - 1) : long[j] # FRAME_BEGIN
  BY <1>1, <1>2, <1>5 DEF NoneBegun
<1> HIDE DEF b, open
<1>10. ASSUME NEW more \in Seq(S)
       PROVE  ExtractAt(long \o more, p) = <<open \o t>> \o ExtractAt(long \o more, q)
  <2> PICK all : all = long \o more
    OBVIOUS
  <2>1. /\ all \in Seq(S)
        /\ Len(all) = Len(long) + Len(more) /\ Len(long) \in Nat /\ Len(more) \in Nat
        /\ \A j \in 1 .. Len(long) : all[j] = long[j]
    BY <1>2, InARow DEF Joined
  <2>2. SubSeq(all, b, Len(long)) = SubSeq(long, b, Len(long))
    BY <1>2, <1>8
  <2>3. ExtractAt(all, p) = ExtractAt(all, b)
    <3>1. p \in Nat \ {0} /\ b \in p .. (Len(all) + 1)
      BY <1>1, <1>5, <1>8, <2>1
    <3>2. ASSUME NEW j \in p .. (b - 1)
          PROVE  all[j] # FRAME_BEGIN
      <4>1. j \in 1 .. Len(long)
        BY <1>1, <1>5, <1>8, <2>1
      <4> QED
        BY <1>9, <2>1, <4>1
    <3> QED
      BY <2>1, <3>1, <3>2, ExtractSkip
  <2>4. ExtractAt(all, b) = <<SubSeq(all, b, Len(long))>> \o ExtractAt(all, Len(long) + 1)
    <3>1. b \in 1 .. Len(all) /\ Len(long) \in b .. Len(all)
      BY <1>8, <2>1
    <3>2. all[b] = FRAME_BEGIN /\ all[Len(long)] = FRAME_END
      BY <1>7, <1>8, <2>1
    <3>3. ASSUME NEW j \in b .. (Len(long) - 1)
          PROVE  all[j] # FRAME_END
      <4>1. j \in 1 .. Len(long)
        BY <1>8, <2>1
      <4> QED
        BY <1>7, <2>1, <4>1
    <3> QED
      BY <2>1, <3>1, <3>2, <3>3, ExtractOne
  <2> QED
    BY <1>6, <2>2, <2>3, <2>4
<1>11. open \o t \in Seq(S)
  BY <1>4
<1>12. frames \o <<open \o t>> \in Seq(Seq(S))
  BY <1>1, <1>11
<1>13. ASSUME NEW more \in Seq(S)
       PROVE  Extract(long \o more) =
                  (frames \o <<open \o t>>) \o ExtractAt(long \o more, q)
  <2>1. ExtractAt(long \o more, q) \in Seq(Seq(S))
    <3>1. long \o more \in Seq(S) /\ q \in 1 .. (Len(long \o more) + 1)
      BY <1>2
    <3> QED
      BY <3>1, ExtractType
  <2>2. <<open \o t>> \in Seq(Seq(S))
    BY <1>11
  <2> DEFINE x == <<open \o t>>
             y == ExtractAt(long \o more, q)
  <2>3. frames \o (x \o y) = (frames \o x) \o y
    <3>1. x \in Seq(Seq(S)) /\ y \in Seq(Seq(S))
      BY <2>1, <2>2
    <3> HIDE DEF x, y
    <3> QED
      <4>1. Associates(Seq(S))
        BY AllAssociate
      <4> QED
        BY <1>1, <3>1, <4>1 DEF Associates
  <2>4. Extract(long \o more) = frames \o (x \o y)
    BY <1>3, <1>10
  <2> QED
    BY <2>3, <2>4
<1>14. NoneBegun(long, q) /\ q \in 1 .. (Len(long) + 1)
  BY <1>2 DEF NoneBegun
<1>15. Scanned(S, long, frames \o <<open \o t>>, q)
  BY <1>2, <1>12, <1>13, <1>14 DEF Scanned
<1> QED
  BY <1>14, <1>15 DEF open

-----------------------------------------------------------------------------
(* frame_encode, and what frame_decode makes of it.                        *)

\* A frame of which every part is text without a mark.
Written(f) ==
    /\ Word(f.direction) \notin Marks /\ f.op \notin Marks
    /\ Word(f.group) \notin Marks /\ Word(f.command) \notin Marks
    /\ Plain(f.value) /\ Plain(f.unit)

\* A sequence is one over its own symbols, and over more than these.
LEMMA OwnSymbols ==
    ASSUME NEW S, NEW s \in Seq(S)
    PROVE  s \in Seq({s[i] : i \in DOMAIN s})
<1>1. \A i \in 1 .. Len(s) : s[i] \in {s[j] : j \in DOMAIN s}
  OBVIOUS
<1> QED
  BY <1>1

LEMMA MoreSymbols ==
    ASSUME NEW S, NEW s \in Seq(S), NEW T, \A i \in 1 .. Len(s) : s[i] \in T
    PROVE  s \in Seq(T)
OBVIOUS

\* Where the parts of a frame are in its text.
Layout(f, t) ==
    /\ t[1] = FRAME_BEGIN /\ t[2] = DELIMITER /\ t[3] = Word(f.direction)
    /\ t[4] = DELIMITER /\ t[5] = f.op /\ t[6] = DELIMITER
    /\ t[7] = Word(f.group) /\ t[8] = DELIMITER
    /\ t[9] = Word(f.command) /\ t[10] = DELIMITER
    /\ \A j \in 1 .. Len(f.value) : t[10 + j] = f.value[j]
    /\ t[11 + Len(f.value)] = DELIMITER
    /\ IF f.unit = <<>> THEN Len(t) = 12 + Len(f.value)
       ELSE /\ Len(t) = 13 + Len(f.value) + Len(f.unit)
            /\ \A j \in 1 .. Len(f.unit) : t[11 + Len(f.value) + j] = f.unit[j]
            /\ t[12 + Len(f.value) + Len(f.unit)] = DELIMITER
    /\ t[Len(t)] = FRAME_END

LEMMA EncodeLayout ==
    ASSUME NEW f, Plain(f.value), Plain(f.unit)
    PROVE  /\ Encode(f) \in Seq({Encode(f)[i] : i \in DOMAIN Encode(f)})
           /\ Layout(f, Encode(f))
<1> DEFINE head == <<FRAME_BEGIN, DELIMITER, Word(f.direction), DELIMITER, f.op, DELIMITER,
                     Word(f.group), DELIMITER, Word(f.command), DELIMITER>>
           close == <<DELIMITER, FRAME_END>>
           middle == IF f.unit = <<>> THEN <<>> ELSE <<DELIMITER>> \o f.unit
<1>1. PICK A, B : f.value \in Seq(A) /\ f.unit \in Seq(B)
  BY DEF Plain
<1>2. PICK S : S = A \cup B \cup {FRAME_BEGIN, DELIMITER, FRAME_END, Word(f.direction), f.op,
                                  Word(f.group), Word(f.command)}
  OBVIOUS
<1>3. f.value \in Seq(S) /\ f.unit \in Seq(S)
  BY <1>1, <1>2
<1>4. head \in Seq(S) /\ close \in Seq(S) /\ <<DELIMITER>> \in Seq(S) /\ <<>> \in Seq(S)
  BY <1>2
<1>5. PICK h : h = head
  OBVIOUS
<1>6. /\ h \in Seq(S) /\ Len(h) = 10
      /\ h[1] = FRAME_BEGIN /\ h[2] = DELIMITER /\ h[3] = Word(f.direction)
      /\ h[4] = DELIMITER /\ h[5] = f.op /\ h[6] = DELIMITER
      /\ h[7] = Word(f.group) /\ h[8] = DELIMITER
      /\ h[9] = Word(f.command) /\ h[10] = DELIMITER
  BY <1>4, <1>5
<1>7. PICK e : e = close
  OBVIOUS
<1>8. e \in Seq(S) /\ Len(e) = 2 /\ e[1] = DELIMITER /\ e[2] = FRAME_END
  BY <1>4, <1>7
<1>9. PICK m : m = middle
  OBVIOUS
<1>10. /\ m \in Seq(S)
       /\ IF f.unit = <<>> THEN Len(m) = 0
          ELSE /\ Len(m) = 1 + Len(f.unit) /\ m[1] = DELIMITER
               /\ \A j \in 1 .. Len(f.unit) : m[1 + j] = f.unit[j]
  BY <1>3, <1>4, <1>9
<1>11. PICK t : t = h \o f.value \o m \o e
  OBVIOUS
<1>12. Encode(f) = t
  BY <1>5, <1>7, <1>9, <1>11 DEF Encode
<1> HIDE DEF head, close, middle
<1>13. PICK v, u : v = Len(f.value) /\ u = Len(f.unit)
  OBVIOUS
<1>14. v \in Nat /\ u \in Nat /\ (f.unit = <<>> <=> u = 0)
  BY <1>3, <1>13
<1>15. PICK a : a = h \o f.value
  OBVIOUS
<1>16. /\ a \in Seq(S) /\ Len(a) = 10 + v
       /\ \A j \in 1 .. 10 : a[j] = h[j]
       /\ \A j \in 1 .. v : a[10 + j] = f.value[j]
  <2>0. h \in Seq(S) /\ f.value \in Seq(S)
    BY <1>3, <1>6
  <2>1. /\ a \in Seq(S) /\ Len(a) = Len(h) + Len(f.value)
        /\ \A j \in 1 .. Len(h) : a[j] = h[j]
        /\ \A j \in 1 .. Len(f.value) : a[Len(h) + j] = f.value[j]
    BY <2>0, <1>15, InARow DEF Joined
  <2>2. Len(h) = 10
    BY <1>6
  <2> QED
    BY <1>13, <2>1, <2>2
<1>17. PICK b : b = a \o m
  OBVIOUS
<1>18. PICK k \in Nat : k = Len(m)
  BY <1>10
<1>19. /\ b \in Seq(S) /\ Len(b) = 10 + v + k
       /\ \A j \in 1 .. (10 + v) : b[j] = a[j]
       /\ \A j \in 1 .. k : b[10 + v + j] = m[j]
  <2>1. /\ b \in Seq(S) /\ Len(b) = Len(a) + Len(m)
        /\ \A j \in 1 .. Len(a) : b[j] = a[j]
        /\ \A j \in 1 .. Len(m) : b[Len(a) + j] = m[j]
    <3>1. a \in Seq(S) /\ m \in Seq(S)
      BY <1>10, <1>16
    <3> QED
      BY <3>1, <1>17, InARow DEF Joined
  <2>2. Len(a) = 10 + v /\ Len(m) = k
    BY <1>16, <1>18
  <2> QED
    BY <2>1, <2>2
<1>20. t = b \o e
  BY <1>11, <1>15, <1>17
<1>21. /\ t \in Seq(S) /\ Len(t) = 12 + v + k
       /\ \A j \in 1 .. (10 + v + k) : t[j] = b[j]
       /\ t[11 + v + k] = DELIMITER /\ t[12 + v + k] = FRAME_END
  <2>1. /\ t \in Seq(S) /\ Len(t) = Len(b) + 2
        /\ \A j \in 1 .. Len(b) : t[j] = b[j]
        /\ \A j \in 1 .. 2 : t[Len(b) + j] = e[j]
    <3>1. Len(e) = 2 /\ e \in Seq(S)
      BY <1>8
    <3>2. /\ t \in Seq(S) /\ Len(t) = Len(b) + Len(e)
          /\ \A j \in 1 .. Len(b) : t[j] = b[j]
          /\ \A j \in 1 .. Len(e) : t[Len(b) + j] = e[j]
      <4>1. b \in Seq(S) /\ e \in Seq(S)
        BY <1>19, <3>1
      <4> QED
        BY <4>1, <1>20, InARow DEF Joined
    <3> QED
      BY <3>1, <3>2
  <2>2. t[Len(b) + 1] = e[1] /\ t[Len(b) + 2] = e[2]
    BY <2>1
  <2>3. Len(b) + 1 = 11 + v + k /\ Len(b) + 2 = 12 + v + k
    BY <1>14, <1>18, <1>19
  <2> QED
    BY <1>8, <1>19, <2>1, <2>2, <2>3
<1>22. ASSUME NEW j \in 1 .. 10
       PROVE  t[j] = h[j]
  <2>1. j \in 1 .. (10 + v) /\ j \in 1 .. (10 + v + k)
    BY <1>14, <1>18
  <2> QED
    BY <1>16, <1>19, <1>21, <2>1
<1>23. ASSUME NEW j \in 1 .. v
       PROVE  t[10 + j] = f.value[j]
  <2>1. 10 + j \in 1 .. (10 + v) /\ 10 + j \in 1 .. (10 + v + k)
    BY <1>14, <1>18
  <2> QED
    BY <1>16, <1>19, <1>21, <2>1
<1>24. ASSUME NEW j \in 1 .. k
       PROVE  t[10 + v + j] = m[j]
  <2>1. 10 + v + j \in 1 .. (10 + v + k)
    BY <1>14, <1>18
  <2> QED
    BY <1>19, <1>21, <2>1
<1>25. /\ t[11 + v] = DELIMITER
       /\ IF f.unit = <<>> THEN Len(t) = 12 + v
          ELSE /\ Len(t) = 13 + v + u
               /\ \A j \in 1 .. u : t[11 + v + j] = f.unit[j]
               /\ t[12 + v + u] = DELIMITER
  <2>1. CASE f.unit = <<>>
    <3>1. k = 0
      BY <1>10, <1>18, <2>1
    <3> QED
      BY <1>14, <1>21, <2>1, <3>1
  <2>2. CASE f.unit # <<>>
    <3>1. /\ k = 1 + u /\ m[1] = DELIMITER
          /\ \A j \in 1 .. u : m[1 + j] = f.unit[j]
      BY <1>10, <1>13, <1>18, <2>2
    <3>2. t[11 + v] = DELIMITER
      <4>1. 1 \in 1 .. k /\ 10 + v + 1 = 11 + v
        BY <1>14, <3>1
      <4> QED
        BY <1>24, <3>1, <4>1
    <3>3. ASSUME NEW j \in 1 .. u
          PROVE  t[11 + v + j] = f.unit[j]
      <4>1. 1 + j \in 1 .. k /\ 10 + v + (1 + j) = 11 + v + j
        BY <1>14, <3>1
      <4> QED
        BY <1>24, <3>1, <4>1
    <3>4. t[12 + v + u] = DELIMITER /\ Len(t) = 13 + v + u
      <4>0. k = 1 + u
        BY <3>1
      <4>1. 11 + v + k = 12 + v + u /\ 12 + v + k = 13 + v + u
        BY <1>14, <4>0
      <4> QED
        BY <1>21, <4>1
    <3> QED
      BY <2>2, <3>2, <3>3, <3>4
  <2> QED
    BY <2>1, <2>2
<1>26. t[Len(t)] = FRAME_END
  BY <1>21
<1>27. /\ t[1] = FRAME_BEGIN /\ t[2] = DELIMITER /\ t[3] = Word(f.direction)
       /\ t[4] = DELIMITER /\ t[5] = f.op /\ t[6] = DELIMITER
       /\ t[7] = Word(f.group) /\ t[8] = DELIMITER
       /\ t[9] = Word(f.command) /\ t[10] = DELIMITER
  BY <1>6, <1>22
<1>28. Layout(f, t)
  BY <1>13, <1>23, <1>25, <1>26, <1>27 DEF Layout
<1>29. t \in Seq({t[i] : i \in DOMAIN t})
  BY <1>21, OwnSymbols
<1> QED
  BY <1>12, <1>28, <1>29

\* A field that is followed by a delimiter.
LEMMA FieldRead ==
    ASSUME NEW S, NEW text \in Seq(S), NEW R, NEW field \in Seq(R),
           NEW i \in Nat \ {0}, i + Len(field) =< Len(text),
           \A j \in 1 .. Len(field) : text[i - 1 + j] = field[j] /\ field[j] # DELIMITER,
           text[i + Len(field)] = DELIMITER
    PROVE  FieldsAt(text, i) = <<field>> \o FieldsAt(text, i + Len(field) + 1)
<1>1. PICK n : n = i + Len(field)
  OBVIOUS
<1>2. n \in i .. Len(text) /\ Len(field) \in Nat /\ Len(field) = n - i
  BY <1>1
<1>3. ASSUME NEW j \in i .. (n - 1)
      PROVE  text[j] = field[j - i + 1] /\ text[j] # DELIMITER
  <2>1. j - i + 1 \in 1 .. Len(field) /\ i - 1 + (j - i + 1) = j
    BY <1>2
  <2> QED
    BY <2>1
<1>4. Find(text, DELIMITER, i) = n
  BY <1>1, <1>2, <1>3, FindAt
<1>5. SubSeq(text, i, n - 1) = field
  <2>1. PICK s : s = SubSeq(text, i, n - 1)
    OBVIOUS
  <2>2. s \in Seq(S) /\ Len(s) = n - i /\ \A j \in 1 .. (n - i) : s[j] = text[i - 1 + j]
    BY <1>2, <2>1
  <2>3. Len(s) = Len(field) /\ \A j \in 1 .. Len(field) : s[j] = field[j]
    BY <1>2, <2>2
  <2> QED
    BY <2>1, <2>2, <2>3
<1>6. i \in 1 .. (Len(text) + 1) /\ Find(text, DELIMITER, i) # 0
  BY <1>2, <1>4
<1>7. FieldsAt(text, i) = <<SubSeq(text, i, Find(text, DELIMITER, i) - 1)>>
                          \o FieldsAt(text, Find(text, DELIMITER, i) + 1)
  BY <1>6, FieldsNext
<1> QED
  BY <1>1, <1>4, <1>5, <1>7

LEMMA WordRead ==
    ASSUME NEW S, NEW text \in Seq(S), NEW i \in Nat \ {0}, i < Len(text),
           text[i] # DELIMITER, text[i + 1] = DELIMITER
    PROVE  FieldsAt(text, i) = <<<<text[i]>>>> \o FieldsAt(text, i + 2)
<1>1. PICK w : w = text[i]
  OBVIOUS
<1>2. <<w>> \in Seq({w}) /\ Len(<<w>>) = 1 /\ <<w>>[1] = w
  OBVIOUS
<1>3. \A j \in 1 .. Len(<<w>>) : text[i - 1 + j] = <<w>>[j] /\ <<w>>[j] # DELIMITER
  BY <1>1, <1>2
<1>4. i + Len(<<w>>) =< Len(text) /\ text[i + Len(<<w>>)] = DELIMITER
  BY <1>2
<1>5. FieldsAt(text, i) = <<<<w>>>> \o FieldsAt(text, i + Len(<<w>>) + 1)
  BY <1>2, <1>3, <1>4, FieldRead
<1>6. i + Len(<<w>>) + 1 = i + 2
  BY <1>2
<1> QED
  BY <1>1, <1>5, <1>6

LEMMA MarkRead ==
    ASSUME NEW S, NEW text \in Seq(S), Len(text) > 0, text[Len(text)] # DELIMITER
    PROVE  FieldsAt(text, Len(text)) = <<<<text[Len(text)]>>>>
<1>1. Find(text, DELIMITER, Len(text)) = 0
  BY FindNothing
<1>2. Len(text) \in 1 .. (Len(text) + 1)
  OBVIOUS
<1>3. FieldsAt(text, Len(text)) = <<SubSeq(text, Len(text), Len(text))>>
  BY <1>1, <1>2, FieldsLast
<1>4. SubSeq(text, Len(text), Len(text)) = <<text[Len(text)]>>
  <2>1. PICK s : s = SubSeq(text, Len(text), Len(text))
    OBVIOUS
  <2>2. s \in Seq(S) /\ Len(s) = 1 /\ s[1] = text[Len(text)]
    BY <2>1
  <2>3. s = <<text[Len(text)]>>
    BY <2>2
  <2> QED
    BY <2>1, <2>3
<1> QED
  BY <1>3, <1>4

\* The fields behind the mark at the beginning.
FieldsBehindMark(f) ==
    <<<<Word(f.direction)>>, <<f.op>>, <<Word(f.group)>>, <<Word(f.command)>>, f.value>>
    \o (IF f.unit = <<>> THEN <<<<FRAME_END>>>> ELSE <<f.unit, <<FRAME_END>>>>)

LEMMA InFront ==
    ASSUME NEW S, NEW p \in S, NEW c \in Seq(S), NEW d, d = <<p>> \o c
    PROVE  /\ d \in Seq(S) /\ Len(d) = Len(c) + 1 /\ d[1] = p
           /\ \A j \in 1 .. Len(c) : d[j + 1] = c[j]
OBVIOUS

AtOnce(p, q, r, s, x, end) ==
    <<p>> \o (<<q>> \o (<<r>> \o (<<s>> \o (<<x>> \o end)))) = <<p, q, r, s, x>> \o end

LEMMA OneByOne ==
    ASSUME NEW S, NEW p \in S, NEW q \in S, NEW r \in S, NEW s \in S, NEW x \in S,
           NEW end \in Seq(S)
    PROVE  AtOnce(p, q, r, s, x, end)
<1>1. PICK n \in Nat : n = Len(end)
  OBVIOUS
<1>2. PICK a : a = <<x>> \o end
  OBVIOUS
<1>3. a \in Seq(S) /\ Len(a) = n + 1 /\ a[1] = x /\ \A j \in 1 .. n : a[j + 1] = end[j]
  BY <1>1, <1>2, InFront
<1>4. PICK b : b = <<s>> \o a
  OBVIOUS
<1>5. /\ b \in Seq(S) /\ Len(b) = n + 2 /\ b[1] = s /\ b[2] = x
      /\ \A j \in 1 .. n : b[j + 2] = end[j]
  BY <1>3, <1>4, InFront
<1>6. PICK c : c = <<r>> \o b
  OBVIOUS
<1>7. /\ c \in Seq(S) /\ Len(c) = n + 3 /\ c[1] = r /\ c[2] = s /\ c[3] = x
      /\ \A j \in 1 .. n : c[j + 3] = end[j]
  BY <1>5, <1>6, InFront
<1>8. PICK d : d = <<q>> \o c
  OBVIOUS
<1>9. /\ d \in Seq(S) /\ Len(d) = n + 4
      /\ d[1] = q /\ d[2] = r /\ d[3] = s /\ d[4] = x
      /\ \A j \in 1 .. n : d[j + 4] = end[j]
  BY <1>7, <1>8, InFront
<1>10. PICK e : e = <<p>> \o d
  OBVIOUS
<1>11. /\ e \in Seq(S) /\ Len(e) = n + 5
       /\ e[1] = p /\ e[2] = q /\ e[3] = r /\ e[4] = s /\ e[5] = x
       /\ \A j \in 1 .. n : e[j + 5] = end[j]
  BY <1>9, <1>10, InFront
<1>12. PICK w : w = <<p, q, r, s, x>> \o end
  OBVIOUS
<1>13. /\ w \in Seq(S) /\ Len(w) = n + 5
       /\ w[1] = p /\ w[2] = q /\ w[3] = r /\ w[4] = s /\ w[5] = x
       /\ \A j \in 1 .. n : w[j + 5] = end[j]
  BY <1>1, <1>12
<1>14. ASSUME NEW j \in 1 .. (n + 5)
       PROVE  e[j] = w[j]
  <2>1. CASE j =< 5
    BY <1>11, <1>13, <2>1
  <2>2. CASE j > 5
    <3>1. j - 5 \in 1 .. n /\ (j - 5) + 5 = j
      BY <2>2
    <3> QED
      BY <1>11, <1>13, <3>1
  <2> QED
    BY <2>1, <2>2
<1>15. e = w
  BY <1>11, <1>13, <1>14
<1> QED
  BY <1>2, <1>4, <1>6, <1>8, <1>10, <1>12, <1>15 DEF AtOnce

\* Whatever stands before a frame, its own fields are read from it.
LEMMA FieldsOfEncoded ==
    ASSUME NEW S, NEW c \in Seq(S), NEW f, Written(f), Encode(f) \in Seq(S)
    PROVE  FieldsAt(c \o Encode(f), Len(c) + 3) = FieldsBehindMark(f)
<1>1. PICK t : t = Encode(f)
  OBVIOUS
<1>2. PICK z : z = c \o t
  OBVIOUS
<1>3. PICK n, v, u : n = Len(c) /\ v = Len(f.value) /\ u = Len(f.unit)
  OBVIOUS
<1>4. PICK A, B : f.value \in Seq(A) /\ f.unit \in Seq(B)
  BY DEF Written, Plain
<1>5. n \in Nat /\ v \in Nat /\ u \in Nat
  BY <1>3, <1>4
<1>6. PICK k \in Nat : k = Len(t)
  BY <1>1
<1>7. Layout(f, t)
  BY <1>1, EncodeLayout DEF Written
<1>8. k = IF f.unit = <<>> THEN 12 + v ELSE 13 + v + u
  BY <1>3, <1>6, <1>7 DEF Layout
<1>9. z \in Seq(S) /\ Len(z) = n + k /\ \A j \in 1 .. k : z[n + j] = t[j]
  BY <1>1, <1>2, <1>3, <1>6, InARow DEF Joined
<1>10. /\ z[n + 3] = Word(f.direction) /\ z[n + 4] = DELIMITER
       /\ z[n + 5] = f.op /\ z[n + 6] = DELIMITER
       /\ z[n + 7] = Word(f.group) /\ z[n + 8] = DELIMITER
       /\ z[n + 9] = Word(f.command) /\ z[n + 10] = DELIMITER
  <2>1. \A j \in 1 .. 10 : z[n + j] = t[j]
    <3>1. k > 10
      BY <1>5, <1>8
    <3> QED
      BY <1>9, <3>1
  <2>2. /\ t[3] = Word(f.direction) /\ t[4] = DELIMITER
        /\ t[5] = f.op /\ t[6] = DELIMITER
        /\ t[7] = Word(f.group) /\ t[8] = DELIMITER
        /\ t[9] = Word(f.command) /\ t[10] = DELIMITER
    BY <1>7 DEF Layout
  <2> QED
    BY <2>1, <2>2
<1>11. /\ Word(f.direction) # DELIMITER /\ f.op # DELIMITER
       /\ Word(f.group) # DELIMITER /\ Word(f.command) # DELIMITER
  BY DEF Written, Marks
<1>12. n + 10 < Len(z)
  BY <1>5, <1>8, <1>9
<1>13. FieldsAt(z, n + 3) = <<<<Word(f.direction)>>>> \o FieldsAt(z, n + 5)
  <2>1. /\ n + 3 \in Nat \ {0} /\ n + 3 < Len(z)
        /\ (n + 3) + 1 = n + 4 /\ (n + 3) + 2 = n + 5
    BY <1>5, <1>9, <1>12
  <2>2. FieldsAt(z, n + 3) = <<<<z[n + 3]>>>> \o FieldsAt(z, (n + 3) + 2)
    BY <1>9, <1>10, <1>11, <2>1, WordRead
  <2> QED
    BY <1>10, <2>1, <2>2
<1>14. FieldsAt(z, n + 5) = <<<<f.op>>>> \o FieldsAt(z, n + 7)
  <2>1. /\ n + 5 \in Nat \ {0} /\ n + 5 < Len(z)
        /\ (n + 5) + 1 = n + 6 /\ (n + 5) + 2 = n + 7
    BY <1>5, <1>9, <1>12
  <2>2. FieldsAt(z, n + 5) = <<<<z[n + 5]>>>> \o FieldsAt(z, (n + 5) + 2)
    BY <1>9, <1>10, <1>11, <2>1, WordRead
  <2> QED
    BY <1>10, <2>1, <2>2
<1>15. FieldsAt(z, n + 7) = <<<<Word(f.group)>>>> \o FieldsAt(z, n + 9)
  <2>1. /\ n + 7 \in Nat \ {0} /\ n + 7 < Len(z)
        /\ (n + 7) + 1 = n + 8 /\ (n + 7) + 2 = n + 9
    BY <1>5, <1>9, <1>12
  <2>2. FieldsAt(z, n + 7) = <<<<z[n + 7]>>>> \o FieldsAt(z, (n + 7) + 2)
    BY <1>9, <1>10, <1>11, <2>1, WordRead
  <2> QED
    BY <1>10, <2>1, <2>2
<1>16. FieldsAt(z, n + 9) = <<<<Word(f.command)>>>> \o FieldsAt(z, n + 11)
  <2>1. /\ n + 9 \in Nat \ {0} /\ n + 9 < Len(z)
        /\ (n + 9) + 1 = n + 10 /\ (n + 9) + 2 = n + 11
    BY <1>5, <1>9, <1>12
  <2>2. FieldsAt(z, n + 9) = <<<<z[n + 9]>>>> \o FieldsAt(z, (n + 9) + 2)
    BY <1>9, <1>10, <1>11, <2>1, WordRead
  <2> QED
    BY <1>10, <2>1, <2>2
<1>17. FieldsAt(z, n + 11) = <<f.value>> \o FieldsAt(z, n + 12 + v)
  <2>1. \A j \in 1 .. v : t[10 + j] = f.value[j] /\ f.value[j] # DELIMITER
    BY <1>3, <1>7 DEF Layout, Written, Plain, Marks
  <2>2. ASSUME NEW j \in 1 .. v
        PROVE  z[(n + 11) - 1 + j] = f.value[j] /\ f.value[j] # DELIMITER
    <3>1. 10 + j \in 1 .. k /\ (n + 11) - 1 + j = n + (10 + j)
      BY <1>5, <1>8
    <3> QED
      BY <1>9, <2>1, <3>1
  <2>3. z[n + 11 + v] = DELIMITER
    <3>1. 11 + v \in 1 .. k /\ n + 11 + v = n + (11 + v)
      BY <1>5, <1>8
    <3> QED
      BY <1>3, <1>7, <1>9, <3>1 DEF Layout
  <2>4. (n + 11) + v =< Len(z)
    BY <1>5, <1>8, <1>9
  <2>5. n + 11 \in Nat \ {0}
    BY <1>5
  <2>6. FieldsAt(z, n + 11) = <<f.value>> \o FieldsAt(z, (n + 11) + v + 1)
    <3>1. PICK i \in Nat \ {0} : i = n + 11
      BY <2>5
    <3>2. /\ i + v =< Len(z) /\ z[i + v] = DELIMITER
          /\ \A j \in 1 .. v : z[i - 1 + j] = f.value[j] /\ f.value[j] # DELIMITER
      BY <2>2, <2>3, <2>4, <3>1
    <3>3. FieldsAt(z, i) = <<f.value>> \o FieldsAt(z, i + v + 1)
      <4>1. PICK w \in Seq(A) : w = f.value /\ v = Len(w)
        BY <1>3, <1>4
      <4>2. /\ i + Len(w) =< Len(z) /\ z[i + Len(w)] = DELIMITER
            /\ \A j \in 1 .. Len(w) : z[i - 1 + j] = w[j] /\ w[j] # DELIMITER
        BY <3>2, <4>1
      <4>3. FieldsAt(z, i) = <<w>> \o FieldsAt(z, i + Len(w) + 1)
        BY <1>9, <4>2, FieldRead
      <4> QED
        BY <4>1, <4>3
    <3> QED
      BY <3>1, <3>3
  <2>7. (n + 11) + v + 1 = n + 12 + v
    BY <1>5
  <2> QED
    BY <2>6, <2>7
<1>18. FieldsAt(z, Len(z)) = <<<<FRAME_END>>>>
  <2>1. k \in 1 .. k /\ Len(z) = n + k /\ Len(z) > 0
    BY <1>5, <1>8, <1>9
  <2>2. z[Len(z)] = FRAME_END
    BY <1>6, <1>7, <1>9, <2>1 DEF Layout
  <2>3. z[Len(z)] # DELIMITER
    BY <2>2 DEF FRAME_END, DELIMITER
  <2> QED
    BY <1>9, <2>1, <2>2, <2>3, MarkRead
<1>19. FieldsAt(z, n + 12 + v) =
           IF f.unit = <<>> THEN <<<<FRAME_END>>>> ELSE <<f.unit, <<FRAME_END>>>>
  <2>1. CASE f.unit = <<>>
    <3>1. Len(z) = n + 12 + v
      BY <1>5, <1>8, <1>9, <2>1
    <3> QED
      BY <1>18, <2>1, <3>1
  <2>2. CASE f.unit # <<>>
    <3>1. k = 13 + v + u
      BY <1>8, <2>2
    <3>2. \A j \in 1 .. u : t[11 + v + j] = f.unit[j] /\ f.unit[j] # DELIMITER
      BY <1>3, <1>7, <2>2 DEF Layout, Written, Plain, Marks
    <3>3. ASSUME NEW j \in 1 .. u
          PROVE  z[(n + 12 + v) - 1 + j] = f.unit[j] /\ f.unit[j] # DELIMITER
      <4>1. 11 + v + j \in 1 .. k /\ (n + 12 + v) - 1 + j = n + (11 + v + j)
        BY <1>5, <3>1
      <4> QED
        BY <1>9, <3>2, <4>1
    <3>4. z[(n + 12 + v) + u] = DELIMITER
      <4>1. 12 + v + u \in 1 .. k /\ (n + 12 + v) + u = n + (12 + v + u)
        BY <1>5, <3>1
      <4>2. t[12 + v + u] = DELIMITER
        BY <1>3, <1>7, <2>2 DEF Layout
      <4> QED
        BY <1>9, <4>1, <4>2
    <3>5. (n + 12 + v) + u =< Len(z) /\ n + 12 + v \in Nat \ {0}
      BY <1>5, <1>9, <3>1
    <3>6. FieldsAt(z, n + 12 + v) = <<f.unit>> \o FieldsAt(z, (n + 12 + v) + u + 1)
      <4>1. PICK i \in Nat \ {0} : i = n + 12 + v
        BY <3>5
      <4>2. /\ i + u =< Len(z) /\ z[i + u] = DELIMITER
            /\ \A j \in 1 .. u : z[i - 1 + j] = f.unit[j] /\ f.unit[j] # DELIMITER
        BY <3>3, <3>4, <3>5, <4>1
      <4>3. FieldsAt(z, i) = <<f.unit>> \o FieldsAt(z, i + u + 1)
        BY <1>3, <1>4, <1>9, <4>2, FieldRead
      <4> QED
        BY <4>1, <4>3
    <3>7. (n + 12 + v) + u + 1 = Len(z)
      BY <1>5, <1>9, <3>1
    <3>8. FieldsAt(z, n + 12 + v) = <<f.unit>> \o <<<<FRAME_END>>>>
      BY <1>18, <3>6, <3>7
    <3> QED
      BY <2>2, <3>8
  <2> QED
    BY <2>1, <2>2
<1>20. PICK end : /\ end = FieldsAt(z, n + 12 + v)
                  /\ end = IF f.unit = <<>> THEN <<<<FRAME_END>>>>
                           ELSE <<f.unit, <<FRAME_END>>>>
  BY <1>19
<1>21. FieldsAt(z, n + 3) =
           <<<<Word(f.direction)>>>> \o (<<<<f.op>>>> \o (<<<<Word(f.group)>>>>
           \o (<<<<Word(f.command)>>>> \o (<<f.value>> \o end))))
  BY <1>13, <1>14, <1>15, <1>16, <1>17, <1>20
<1>22. FieldsAt(z, n + 3) =
           <<<<Word(f.direction)>>, <<f.op>>, <<Word(f.group)>>, <<Word(f.command)>>, f.value>>
           \o end
  <2>1. PICK P, Q, R, T : /\ P = <<Word(f.direction)>> /\ Q = <<f.op>>
                          /\ R = <<Word(f.group)>> /\ T = <<Word(f.command)>>
    OBVIOUS
  <2>2. PICK E : E = {P, Q, R, T, f.value, f.unit, <<FRAME_END>>}
    OBVIOUS
  <2>3. end \in Seq(E)
    <3>1. PICK M : M = <<FRAME_END>>
      OBVIOUS
    <3>2. M \in E /\ f.unit \in E
      BY <2>2, <3>1
    <3>3. <<M>> \in Seq(E) /\ <<f.unit, M>> \in Seq(E)
      BY <3>2
    <3>4. end = <<M>> \/ end = <<f.unit, M>>
      BY <1>20, <3>1
    <3> QED
      BY <3>3, <3>4
  <2>4. P \in E /\ Q \in E /\ R \in E /\ T \in E /\ f.value \in E
    BY <2>2
  <2>5. AtOnce(P, Q, R, T, f.value, end)
    BY <2>3, <2>4, OneByOne
  <2> QED
    BY <1>21, <2>1, <2>5 DEF AtOnce
<1> QED
  BY <1>1, <1>2, <1>3, <1>20, <1>22 DEF FieldsBehindMark

\* A frame's text begins and ends with its marks and has no others.
LEMMA EncodedIsOneFrame ==
    ASSUME NEW f, Written(f)
    PROVE  OneFrame(Encode(f))
<1>1. PICK t : t = Encode(f)
  OBVIOUS
<1>2. Layout(f, t)
  BY <1>1, EncodeLayout DEF Written
<1>3. PICK v, u : v = Len(f.value) /\ u = Len(f.unit)
  OBVIOUS
<1>4. v \in Nat /\ u \in Nat
  BY <1>3 DEF Written, Plain
<1>5. PICK k \in Nat : k = Len(t) /\ k = IF f.unit = <<>> THEN 12 + v ELSE 13 + v + u
  <2>1. Len(t) = IF f.unit = <<>> THEN 12 + v ELSE 13 + v + u
    BY <1>2, <1>3 DEF Layout
  <2> QED
    BY <1>4, <2>1
<1>6. /\ t[1] = FRAME_BEGIN /\ t[2] = DELIMITER /\ t[3] = Word(f.direction)
      /\ t[4] = DELIMITER /\ t[5] = f.op /\ t[6] = DELIMITER
      /\ t[7] = Word(f.group) /\ t[8] = DELIMITER
      /\ t[9] = Word(f.command) /\ t[10] = DELIMITER /\ t[11 + v] = DELIMITER
      /\ t[k] = FRAME_END
  BY <1>2, <1>3, <1>5 DEF Layout
<1>7. ASSUME NEW j \in 2 .. (k - 1)
      PROVE  t[j] # FRAME_BEGIN /\ t[j] # FRAME_END
  <2> USE DEF Marks, FRAME_BEGIN, FRAME_END, DELIMITER
  <2>1. CASE j =< 10
    <3>1. j \in {2, 3, 4, 5, 6, 7, 8, 9, 10}
      BY <2>1
    <3> QED
      BY <1>6, <3>1 DEF Written
  <2>2. CASE j > 10 /\ j < 11 + v
    <3>1. j - 10 \in 1 .. v /\ 10 + (j - 10) = j
      BY <1>4, <2>2
    <3>2. t[j] = f.value[j - 10]
      BY <1>2, <1>3, <3>1 DEF Layout
    <3>3. f.value[j - 10] \notin Marks
      BY <1>3, <3>1 DEF Written, Plain
    <3> QED
      BY <3>2, <3>3
  <2>3. CASE j = 11 + v
    BY <1>6, <2>3
  <2>4. CASE j > 11 + v
    <3>1. f.unit # <<>> /\ k = 13 + v + u
      BY <1>4, <1>5, <2>4
    <3>2. CASE j < 12 + v + u
      <4>1. j - (11 + v) \in 1 .. u /\ 11 + v + (j - (11 + v)) = j
        BY <1>4, <2>4, <3>2
      <4>2. t[j] = f.unit[j - (11 + v)]
        BY <1>2, <1>3, <3>1, <4>1 DEF Layout
      <4>3. f.unit[j - (11 + v)] \notin Marks
        BY <1>3, <4>1 DEF Written, Plain
      <4> QED
        BY <4>2, <4>3
    <3>3. CASE j = 12 + v + u
      <4>1. t[12 + v + u] = DELIMITER
        BY <1>2, <1>3, <3>1 DEF Layout
      <4> QED
        BY <3>3, <4>1
    <3> QED
      BY <1>4, <3>1, <3>2, <3>3
  <2> QED
    BY <1>4, <2>1, <2>2, <2>3, <2>4
<1>8. FRAME_BEGIN # FRAME_END /\ k > 1
  BY <1>4, <1>5 DEF FRAME_BEGIN, FRAME_END
<1>9. \A j \in 2 .. k : t[j] # FRAME_BEGIN
  <2> SUFFICES ASSUME NEW j \in 2 .. k PROVE t[j] # FRAME_BEGIN
    OBVIOUS
  <2>1. CASE j = k
    BY <1>6, <1>8, <2>1
  <2>2. CASE j # k
    BY <1>7, <2>2
  <2> QED
    BY <2>1, <2>2
<1>10. \A j \in 1 .. (k - 1) : t[j] # FRAME_END
  <2> SUFFICES ASSUME NEW j \in 1 .. (k - 1) PROVE t[j] # FRAME_END
    OBVIOUS
  <2>1. CASE j = 1
    BY <1>6, <1>8, <2>1
  <2>2. CASE j # 1
    BY <1>7, <2>2
  <2> QED
    BY <2>1, <2>2
<1> QED
  BY <1>1, <1>5, <1>6, <1>8, <1>9, <1>10 DEF OneFrame

LEMMA FieldsOfFrame ==
    ASSUME NEW f, Written(f)
    PROVE  Fields(Encode(f)) = <<<<FRAME_BEGIN>>>> \o FieldsBehindMark(f)
<1>1. PICK t, S : t = Encode(f) /\ t \in Seq(S)
  BY EncodeLayout DEF Written
<1>2. Layout(f, t)
  BY <1>1, EncodeLayout DEF Written
<1>3. t[1] = FRAME_BEGIN /\ t[2] = DELIMITER
  BY <1>2 DEF Layout
<1>4. Len(t) > 1
  BY <1>1, EncodedIsOneFrame DEF OneFrame
<1>5. t[1] # DELIMITER /\ 1 + 1 = 2 /\ 1 + 2 = 3
  <2>1. FRAME_BEGIN # DELIMITER
    BY DEF FRAME_BEGIN, DELIMITER
  <2> QED
    BY <1>3, <2>1
<1>6. FieldsAt(t, 1) = <<<<t[1]>>>> \o FieldsAt(t, 3)
  BY <1>1, <1>3, <1>4, <1>5, WordRead
<1>7. FieldsAt(t, 3) = FieldsBehindMark(f)
  <2>1. <<>> \in Seq(S) /\ <<>> \o t = t /\ Len(<<>>) + 3 = 3
    BY <1>1
  <2>2. FieldsAt(<<>> \o Encode(f), Len(<<>>) + 3) = FieldsBehindMark(f)
    BY <1>1, <2>1, FieldsOfEncoded
  <2> QED
    BY <1>1, <2>1, <2>2
<1> QED
  BY <1>1, <1>3, <1>6, <1>7, FieldsFromStart

LEMMA FieldsBehindMarkAre ==
    ASSUME NEW f, NEW g, g = FieldsBehindMark(f)
    PROVE  /\ g \in Seq({g[i] : i \in DOMAIN g})
           /\ Len(g) = IF f.unit = <<>> THEN 6 ELSE 7
           /\ g[1] = <<Word(f.direction)>> /\ g[2] = <<f.op>>
           /\ g[3] = <<Word(f.group)>> /\ g[4] = <<Word(f.command)>> /\ g[5] = f.value
           /\ g[Len(g)] = <<FRAME_END>>
           /\ g[6] = IF f.unit = <<>> THEN <<FRAME_END>> ELSE f.unit
<1>1. PICK P, Q, R, T, M, v, u :
          /\ P = <<Word(f.direction)>> /\ Q = <<f.op>> /\ M = <<FRAME_END>>
          /\ R = <<Word(f.group)>> /\ T = <<Word(f.command)>> /\ v = f.value /\ u = f.unit
  OBVIOUS
<1>2. PICK E : E = {P, Q, R, T, M, v, u}
  OBVIOUS
<1>3. <<P, Q, R, T, v>> \in Seq(E) /\ <<M>> \in Seq(E) /\ <<u, M>> \in Seq(E)
  BY <1>2
<1>4. PICK h : h = <<P, Q, R, T, v>>
  OBVIOUS
<1>5. /\ h \in Seq(E) /\ Len(h) = 5
      /\ h[1] = P /\ h[2] = Q /\ h[3] = R /\ h[4] = T /\ h[5] = v
  BY <1>3, <1>4
<1>6. PICK e : e = IF f.unit = <<>> THEN <<M>> ELSE <<u, M>>
  OBVIOUS
<1>7. /\ e \in Seq(E) /\ Len(e) = IF f.unit = <<>> THEN 1 ELSE 2
      /\ e[1] = (IF f.unit = <<>> THEN M ELSE u) /\ e[Len(e)] = M
  BY <1>3, <1>6
<1>8. g = h \o e
  BY <1>1, <1>4, <1>6 DEF FieldsBehindMark
<1>9. /\ g \in Seq(E) /\ Len(g) = 5 + Len(e)
      /\ g[1] = P /\ g[2] = Q /\ g[3] = R /\ g[4] = T /\ g[5] = v
      /\ g[6] = e[1] /\ g[5 + Len(e)] = e[Len(e)]
  <2>1. Joined(E, h, e, g)
    BY <1>5, <1>7, <1>8, InARow
  <2>2. /\ g \in Seq(E) /\ Len(g) = 5 + Len(e)
        /\ \A j \in 1 .. 5 : g[j] = h[j]
        /\ \A j \in 1 .. Len(e) : g[5 + j] = e[j]
    BY <1>5, <2>1 DEF Joined
  <2>3. Len(e) \in 1 .. 2 /\ 1 \in 1 .. Len(e) /\ Len(e) \in 1 .. Len(e)
    BY <1>7
  <2>4. g[6] = e[1]
    <3>1. 5 + 1 = 6
      OBVIOUS
    <3> QED
      BY <2>2, <2>3, <3>1
  <2> QED
    BY <1>5, <2>2, <2>3, <2>4
<1>10. g \in Seq({g[i] : i \in DOMAIN g})
  BY <1>9, OwnSymbols
<1> QED
  BY <1>1, <1>7, <1>9, <1>10

LEMMA WordIs ==
    ASSUME NEW n, HasWord(n)
    PROVE  /\ Word(n) \in DOMAIN Number /\ Number[Word(n)] = n
           /\ Word(n) \notin Marks \cup Operations
BY WordAssumption DEF HasWord, Word

\* frame_decode reads back what frame_encode wrote.
LEMMA ReadsBack ==
    ASSUME NEW f, Written(f), f.op \in Operations,
           HasWord(f.direction), HasWord(f.group), HasWord(f.command),
           f.direction \in 0 .. 1, f.group \in 0 .. MaxGroup, f.command \in 0 .. MaxCommand
    PROVE  LET g == Decode(Encode(f)) IN
           /\ g.op = f.op /\ g.direction = f.direction
           /\ g.group = f.group /\ g.command = f.command /\ g.value = f.value
<1>1. PICK b : b = FieldsBehindMark(f)
  OBVIOUS
<1>2. PICK fs : fs = Fields(Encode(f))
  OBVIOUS
<1>3. fs = <<<<FRAME_BEGIN>>>> \o b
  BY <1>1, <1>2, FieldsOfFrame
<1>4. PICK E : b \in Seq(E) /\ <<FRAME_BEGIN>> \in E
  <2>1. PICK D : b \in Seq(D)
    BY <1>1, FieldsBehindMarkAre
  <2>2. b \in Seq(D \cup {<<FRAME_BEGIN>>})
    BY <2>1
  <2> QED
    BY <2>2
<1>5. /\ fs \in Seq(E) /\ Len(fs) = Len(b) + 1 /\ fs[1] = <<FRAME_BEGIN>>
      /\ \A j \in 1 .. Len(b) : fs[j + 1] = b[j]
  BY <1>3, <1>4, InFront
<1>6. /\ Len(b) = IF f.unit = <<>> THEN 6 ELSE 7
      /\ b[1] = <<Word(f.direction)>> /\ b[2] = <<f.op>>
      /\ b[3] = <<Word(f.group)>> /\ b[4] = <<Word(f.command)>> /\ b[5] = f.value
      /\ b[Len(b)] = <<FRAME_END>>
  BY <1>1, FieldsBehindMarkAre
<1>7. /\ fs[2] = <<Word(f.direction)>> /\ fs[3] = <<f.op>>
      /\ fs[4] = <<Word(f.group)>> /\ fs[5] = <<Word(f.command)>> /\ fs[6] = f.value
  BY <1>5, <1>6
<1>8. Footer(fs) = <<FRAME_END>> /\ Len(fs) \in {7, 8}
  BY <1>5, <1>6 DEF Footer
<1>9. ASSUME NEW n, HasWord(n)
      PROVE  IsNumber(<<Word(n)>>) /\ Stoi(<<Word(n)>>) = n
  BY <1>9, WordIs DEF IsNumber, Stoi
<1>10. WellFormed(fs)
  BY <1>5, <1>7, <1>8, <1>9 DEF WellFormed, InRange
<1>11. OperationOf(fs[3]) = f.op
  BY <1>7 DEF OperationOf
<1>12. FrameFrom(fs) = FrameOf(f.direction, f.op, f.group, f.command, f.value, FieldOr(fs, 7))
  BY <1>7, <1>8, <1>9, <1>10, <1>11 DEF FrameFrom, FieldOr
<1> QED
  BY <1>2, <1>12 DEF Decode, FrameOf

\* What stands before a frame is cut into fields of its own; the last of them ends with
\* the mark at the beginning of the frame, and none is the mark at the end.
Before(S, z, i, n, A) ==
    /\ A \in Seq(Seq(S)) /\ A # <<>>
    /\ FieldsAt(z, i) = A \o FieldsAt(z, n + 3)
    /\ \A j \in 1 .. Len(A) : A[j] # <<FRAME_END>>
    /\ Len(A) = 1 => Len(A[1]) = n + 2 - i

LEMMA FieldsBefore ==
    ASSUME NEW S, NEW z \in Seq(S), NEW n \in Nat, n + 2 =< Len(z),
           \A j \in 1 .. (n + 1) : z[j] # FRAME_END,
           z[n + 1] # DELIMITER, z[n + 2] = DELIMITER
    PROVE  \A i \in 1 .. (n + 1) : \E A : Before(S, z, i, n, A)
<1> DEFINE T == {i \in 1 .. (n + 1) : \E A : Before(S, z, i, n, A)}
<1>1. ASSUME NEW i \in 1 .. (n + 1), \A j \in (i + 1) .. (n + 1) : j \in T
      PROVE  i \in T
  <2>1. PICK m : m = Find(z, DELIMITER, i)
    OBVIOUS
  <2>2. m \in i .. (n + 2) /\ m # n + 1
    BY <2>1, FindInside
  <2>3. PICK field : field = SubSeq(z, i, m - 1)
    OBVIOUS
  <2>4. /\ field \in Seq(S) /\ Len(field) = m - i
        /\ \A j \in 1 .. (m - i) : field[j] = z[i - 1 + j]
    BY <2>2, <2>3
  <2>5. field # <<FRAME_END>>
    <3> SUFFICES ASSUME field = <<FRAME_END>> PROVE FALSE
      OBVIOUS
    <3>1. Len(field) = 1 /\ field[1] = FRAME_END
      OBVIOUS
    <3>2. m - i = 1 /\ 1 \in 1 .. (m - i) /\ i - 1 + 1 = i
      BY <2>2, <2>4, <3>1
    <3>3. z[i] = FRAME_END
      BY <2>4, <3>1, <3>2
    <3> QED
      BY <3>3
  <2>6. FieldsAt(z, i) = <<field>> \o FieldsAt(z, m + 1)
    <3>1. i \in 1 .. (Len(z) + 1) /\ Find(z, DELIMITER, i) # 0
      BY <2>1, <2>2
    <3> QED
      BY <2>1, <2>3, <3>1, FieldsNext
  <2>7. CASE m = n + 2
    <3>1. PICK A : A = <<field>>
      OBVIOUS
    <3>2. A \in Seq(Seq(S)) /\ A # <<>> /\ Len(A) = 1 /\ A[1] = field
      BY <2>4, <3>1
    <3>3. FieldsAt(z, i) = A \o FieldsAt(z, n + 3)
      <4>1. m + 1 = n + 3
        BY <2>7
      <4> QED
        BY <2>6, <3>1, <4>1
    <3>4. Len(A[1]) = n + 2 - i
      BY <2>4, <2>7, <3>2
    <3>5. Before(S, z, i, n, A)
      BY <2>5, <3>2, <3>3, <3>4 DEF Before
    <3> QED
      BY <3>5
  <2>8. CASE m # n + 2
    <3>1. m + 1 \in (i + 1) .. (n + 1)
      BY <2>2, <2>8
    <3>2. m + 1 \in T
      BY <1>1, <3>1
    <3>3. PICK B : Before(S, z, m + 1, n, B)
      BY <3>2
    <3>4. PICK G : G = FieldsAt(z, n + 3)
      OBVIOUS
    <3>5. PICK A : A = <<field>> \o B
      OBVIOUS
    <3>6. B \in Seq(Seq(S)) /\ B # <<>> /\ \A j \in 1 .. Len(B) : B[j] # <<FRAME_END>>
      BY <3>3 DEF Before
    <3>7. field \in Seq(S)
      BY <2>4
    <3>8. /\ A \in Seq(Seq(S)) /\ Len(A) = Len(B) + 1 /\ A[1] = field
          /\ \A j \in 1 .. Len(B) : A[j + 1] = B[j]
      BY <3>5, <3>6, <3>7, InFront
    <3>9. Len(A) > 1
      BY <3>6, <3>8
    <3>10. ASSUME NEW j \in 1 .. Len(A)
           PROVE  A[j] # <<FRAME_END>>
      <4>1. CASE j = 1
        BY <2>5, <3>8, <4>1
      <4>2. CASE j # 1
        <5>1. j - 1 \in 1 .. Len(B) /\ (j - 1) + 1 = j
          BY <3>6, <3>8, <4>2
        <5> QED
          BY <3>6, <3>8, <5>1
      <4> QED
        BY <4>1, <4>2
    <3>11. FieldsAt(z, i) = A \o FieldsAt(z, n + 3)
      <4>1. FieldsAt(z, m + 1) = B \o G
        BY <3>3, <3>4 DEF Before
      <4>2. <<field>> \o (B \o G) = (<<field>> \o B) \o G
        <5>1. G \in Seq(Seq(S))
          <6>1. n + 3 \in 1 .. (Len(z) + 1)
            OBVIOUS
          <6> QED
            BY <3>4, <6>1, FieldsType
        <5>2. <<field>> \in Seq(Seq(S))
          BY <3>7
        <5>3. PICK u : u = <<field>>
          OBVIOUS
        <5>4. u \in Seq(Seq(S)) /\ B \in Seq(Seq(S)) /\ G \in Seq(Seq(S))
          BY <3>6, <5>1, <5>2, <5>3
        <5>5. (u \o B) \o G = u \o (B \o G)
          <6>1. Associates(Seq(S))
            BY AllAssociate
          <6>2. PICK b, g : b = B /\ g = G
            OBVIOUS
          <6>3. b \in Seq(Seq(S)) /\ g \in Seq(Seq(S))
            BY <5>4, <6>2
          <6>4. (u \o b) \o g = u \o (b \o g)
            BY <5>4, <6>1, <6>3 DEF Associates
          <6> QED
            BY <6>2, <6>4, Zenon
        <5> QED
          BY <5>3, <5>5
      <4> QED
        BY <2>6, <3>4, <3>5, <4>1, <4>2
    <3>12. Before(S, z, i, n, A)
      BY <3>6, <3>8, <3>9, <3>10, <3>11 DEF Before
    <3> QED
      BY <3>12
  <2> QED
    BY <2>7, <2>8
<1>2. \A i \in 1 .. (n + 1) : i \in T
  <2>1. n + 1 \in Nat
    OBVIOUS
  <2>2. PICK k \in Nat : k = n + 1
    BY <2>1
  <2> HIDE DEF T
  <2>3. \A i \in 1 .. k : (\A j \in (i + 1) .. k : j \in T) => i \in T
    BY <1>1, <2>2
  <2>4. \A i \in 1 .. k : i \in T
    BY <2>3, FromTheEnd
  <2> QED
    BY <2>2, <2>4
<1> QED
  BY <1>2

\* A frame whose end was lost, and whatever else has come before the next frame is
\* complete, does not decode.
LEMMA Swallowed ==
    ASSUME NEW S, NEW c \in Seq(S), c # <<>>, \A j \in 1 .. Len(c) : c[j] # FRAME_END,
           NEW f, Written(f), Encode(f) \in Seq(S), f.op \notin DOMAIN Number
    PROVE  ~WellFormed(Fields(c \o Encode(f)))
<1>1. PICK t : t = Encode(f)
  OBVIOUS
<1>2. PICK z : z = c \o t
  OBVIOUS
<1>3. PICK n \in Nat : n = Len(c) /\ n > 0
  <2>1. Len(c) \in Nat /\ Len(c) > 0
    OBVIOUS
  <2> QED
    BY <2>1
<1>4. Layout(f, t)
  BY <1>1, EncodeLayout DEF Written
<1>5. t[1] = FRAME_BEGIN /\ t[2] = DELIMITER
  BY <1>4 DEF Layout
<1>6. Len(t) > 1 /\ Len(t) \in Nat
  BY <1>1, EncodedIsOneFrame DEF OneFrame
<1>7. /\ z \in Seq(S) /\ Len(z) = n + Len(t)
      /\ \A j \in 1 .. n : z[j] = c[j]
      /\ \A j \in 1 .. Len(t) : z[n + j] = t[j]
  BY <1>1, <1>2, <1>3, InARow DEF Joined
<1>8. z[n + 1] = FRAME_BEGIN /\ z[n + 2] = DELIMITER
  BY <1>5, <1>6, <1>7
<1>9. FRAME_BEGIN # DELIMITER /\ FRAME_BEGIN # FRAME_END
  BY DEF FRAME_BEGIN, DELIMITER, FRAME_END
<1>10. \A j \in 1 .. (n + 1) : z[j] # FRAME_END
  <2> SUFFICES ASSUME NEW j \in 1 .. (n + 1) PROVE z[j] # FRAME_END
    OBVIOUS
  <2>1. CASE j = n + 1
    BY <1>8, <1>9, <2>1
  <2>2. CASE j # n + 1
    BY <1>3, <1>7, <2>2
  <2> QED
    BY <2>1, <2>2
<1>11. n + 2 =< Len(z) /\ 1 \in 1 .. (n + 1)
  BY <1>6, <1>7
<1>12. PICK A : Before(S, z, 1, n, A)
  BY <1>7, <1>8, <1>9, <1>10, <1>11, FieldsBefore
<1>13. PICK b : b = FieldsBehindMark(f)
  OBVIOUS
<1>14. FieldsAt(z, n + 3) = b
  BY <1>1, <1>2, <1>3, <1>13, FieldsOfEncoded
<1>15. PICK fs : fs = Fields(z)
  OBVIOUS
<1>16. fs = A \o b
  BY <1>12, <1>14, <1>15, FieldsFromStart DEF Before
<1>17. PICK k \in Nat : k = Len(A) /\ k > 0
  <2>1. Len(A) \in Nat /\ Len(A) > 0
    BY <1>12 DEF Before
  <2> QED
    BY <2>1
<1>18. /\ Len(b) >= 6 /\ Len(b) \in Nat /\ b[2] = <<f.op>>
       /\ \A j \in 1 .. 5 : b[j] # <<FRAME_END>>
  <2>1. /\ Len(b) = IF f.unit = <<>> THEN 6 ELSE 7
        /\ b[1] = <<Word(f.direction)>> /\ b[2] = <<f.op>>
        /\ b[3] = <<Word(f.group)>> /\ b[4] = <<Word(f.command)>> /\ b[5] = f.value
    BY <1>13, FieldsBehindMarkAre
  <2>2. \A w : w \notin Marks => <<w>> # <<FRAME_END>>
    <3> SUFFICES ASSUME NEW w, w \notin Marks, <<w>> = <<FRAME_END>> PROVE FALSE
      OBVIOUS
    <3>1. <<w>>[1] = <<FRAME_END>>[1]
      OBVIOUS
    <3> QED
      BY <3>1 DEF Marks
  <2>3. f.value # <<FRAME_END>>
    <3> SUFFICES ASSUME f.value = <<FRAME_END>> PROVE FALSE
      OBVIOUS
    <3>1. Len(f.value) = 1 /\ f.value[1] = FRAME_END
      OBVIOUS
    <3>2. f.value[1] \notin Marks
      BY <3>1 DEF Written, Plain
    <3> QED
      BY <3>1, <3>2 DEF Marks
  <2>4. /\ b[1] # <<FRAME_END>> /\ b[2] # <<FRAME_END>> /\ b[3] # <<FRAME_END>>
        /\ b[4] # <<FRAME_END>> /\ b[5] # <<FRAME_END>>
    BY <2>1, <2>2, <2>3 DEF Written
  <2> QED
    BY <2>1, <2>4
<1>19. /\ Len(fs) = k + Len(b)
       /\ \A j \in 1 .. k : fs[j] = A[j]
       /\ \A j \in 1 .. Len(b) : fs[k + j] = b[j]
  <2>1. PICK D : b \in Seq(D)
    BY <1>13, FieldsBehindMarkAre
  <2>2. PICK X : X = Seq(S) \cup D
    OBVIOUS
  <2>3. A \in Seq(X) /\ b \in Seq(X)
    BY <1>12, <2>1, <2>2 DEF Before
  <2>4. Joined(X, A, b, fs)
    BY <1>16, <2>3, InARow
  <2> QED
    BY <1>17, <2>4 DEF Joined
<1>20. CASE k = 1
  <2>1. Len(A[1]) = n + 1
    BY <1>12, <1>17, <1>20 DEF Before
  <2>2. fs[1] = A[1]
    BY <1>17, <1>19
  <2>3. Len(<<FRAME_BEGIN>>) = 1
    OBVIOUS
  <2>4. fs[1] # <<FRAME_BEGIN>>
    BY <1>3, <2>1, <2>2, <2>3
  <2> QED
    BY <1>1, <1>2, <1>15, <2>4 DEF WellFormed
<1>21. CASE k = 2
  <2>1. fs[4] = <<f.op>>
    <3>1. 2 \in 1 .. Len(b) /\ k + 2 = 4
      BY <1>18, <1>21
    <3> QED
      BY <1>18, <1>19, <3>1
  <2>2. ~IsNumber(fs[4])
    BY <2>1 DEF IsNumber
  <2> QED
    BY <1>1, <1>2, <1>15, <2>2 DEF WellFormed, InRange
<1>22. CASE k > 2
  <2>1. Footer(fs) = fs[8]
    BY <1>18, <1>19, <1>22 DEF Footer
  <2>2. fs[8] # <<FRAME_END>>
    <3>1. CASE k >= 8
      <4>1. 8 \in 1 .. k
        BY <3>1
      <4> QED
        BY <1>12, <1>17, <1>19, <4>1 DEF Before
    <3>2. CASE k < 8
      <4>1. PICK j : j = 8 - k
        OBVIOUS
      <4>2. j \in 1 .. 5 /\ j \in 1 .. Len(b) /\ k + j = 8
        BY <1>18, <1>22, <3>2, <4>1
      <4>3. fs[k + j] = b[j] /\ b[j] # <<FRAME_END>>
        BY <1>18, <1>19, <4>2
      <4> QED
        BY <4>2, <4>3
    <3> QED
      BY <3>1, <3>2
  <2> QED
    BY <1>1, <1>2, <1>15, <2>1, <2>2 DEF WellFormed
<1> QED
  BY <1>17, <1>20, <1>21, <1>22

\* What decodes of a frame's text is that frame, its operation apart.
LEMMA DecodedFrame ==
    ASSUME NEW f, Written(f)
    PROVE  LET g == Decode(Encode(f)) IN
           \/ g = Build("ERR", 0, 0, <<"decode_error">>, <<>>)
           \/ /\ g.op = OperationOf(<<f.op>>) /\ g.value = f.value
              /\ g.group \in 0 .. MaxGroup /\ g.command \in 0 .. MaxCommand
<1>1. PICK b : b = FieldsBehindMark(f)
  OBVIOUS
<1>2. PICK fs : fs = Fields(Encode(f))
  OBVIOUS
<1>3. fs = <<<<FRAME_BEGIN>>>> \o b
  BY <1>1, <1>2, FieldsOfFrame
<1>4. PICK E : b \in Seq(E) /\ <<FRAME_BEGIN>> \in E
  <2>1. PICK D : b \in Seq(D)
    BY <1>1, FieldsBehindMarkAre
  <2>2. b \in Seq(D \cup {<<FRAME_BEGIN>>})
    BY <2>1
  <2> QED
    BY <2>2
<1>5. Len(fs) = Len(b) + 1 /\ \A j \in 1 .. Len(b) : fs[j + 1] = b[j]
  BY <1>3, <1>4, InFront
<1>6. /\ Len(b) = IF f.unit = <<>> THEN 6 ELSE 7
      /\ b[2] = <<f.op>> /\ b[5] = f.value
  BY <1>1, FieldsBehindMarkAre
<1>7. fs[3] = <<f.op>> /\ fs[6] = f.value /\ Len(fs) >= 6
  BY <1>5, <1>6
<1>8. CASE WellFormed(fs)
  <2>1. Stoi(fs[4]) \in 0 .. MaxGroup /\ Stoi(fs[5]) \in 0 .. MaxCommand
    BY <1>8 DEF WellFormed, InRange
  <2>2. FieldOr(fs, 6) = f.value
    BY <1>7 DEF FieldOr
  <2>3. FrameFrom(fs) = FrameOf(Stoi(fs[2]), OperationOf(<<f.op>>), Stoi(fs[4]), Stoi(fs[5]),
                                f.value, FieldOr(fs, 7))
    BY <1>7, <1>8, <2>2 DEF FrameFrom
  <2>4. PICK g : g = Decode(Encode(f))
    OBVIOUS
  <2>5. g = FrameOf(Stoi(fs[2]), OperationOf(<<f.op>>), Stoi(fs[4]), Stoi(fs[5]),
                    f.value, FieldOr(fs, 7))
    BY <1>2, <2>3, <2>4 DEF Decode
  <2>6. /\ g.op = OperationOf(<<f.op>>) /\ g.value = f.value
        /\ g.group = Stoi(fs[4]) /\ g.command = Stoi(fs[5])
    BY <2>5 DEF FrameOf
  <2> QED
    BY <2>1, <2>4, <2>6
<1>9. CASE ~WellFormed(fs)
  BY <1>2, <1>9 DEF Decode, FrameFrom
<1> QED
  BY <1>8, <1>9

-----------------------------------------------------------------------------
(* The commands.                                                           *)

\* What the flight mode locks.
Locked == gpsPower = 1 /\ core0 # "bridge" /\ ~pending /\ core1 = "loop"

\* A step that keeps the mode, and what it locks in flight.
Guarded == mode' = mode /\ (mode = "BATTERY" /\ Locked => Locked')

\* An answer changes neither the mode nor what it locks, unless the handler does.
LEMMA RepliesGuarded ==
    ASSUME NEW frames, Replies(frames), UNCHANGED <<gpsPower, pending>>
    PROVE  Guarded
BY DEF Replies, Locked, Guarded

LEMMA ReplyGuarded ==
    ASSUME NEW op, NEW value, Reply(op, value), UNCHANGED <<gpsPower, pending>>
    PROVE  Guarded
BY RepliesGuarded DEF Reply

LEMMA RefuseGuarded ==
    ASSUME NEW code, Refuse(code)
    PROVE  Guarded
BY ReplyGuarded DEF Refuse, settings

\* GET without a parameter, whatever the answer is.
LEMMA ReadOnlyGuarded ==
    ASSUME NEW group, NEW command, NEW frames, ReadOnly(group, command, Replies(frames))
    PROVE  Guarded
BY RefuseGuarded, RepliesGuarded DEF ReadOnly, settings

\* Every handler is guarded: the three that would open the lock ask for the mode first.
LEMMA ExecuteGuarded ==
    ASSUME Execute
    PROVE  Guarded
<1>1. CASE GetCommandsList \/ GetBuildVersion \/ GetPowerMode \/ GetUptime
  BY <1>1, ReadOnlyGuarded
     DEF GetCommandsList, GetBuildVersion, GetPowerMode, GetUptime, SeqDone, Reply
<1>2. CASE Verbosity
  BY <1>2, RefuseGuarded, ReplyGuarded DEF Verbosity, settings
<1>3. CASE EnterBootloaderMode
  <2>1. CASE OnGround
    BY <1>3, <2>1, RefuseGuarded
       DEF EnterBootloaderMode, OnGround, Reply, Replies, Guarded, Locked
  <2>2. CASE ~OnGround
    BY <1>3, <2>2, RefuseGuarded DEF EnterBootloaderMode
  <2> QED
    BY <2>1, <2>2
<1>4. CASE Time
  BY <1>4, RefuseGuarded, ReplyGuarded DEF Time, settings
<1>5. CASE TimezoneOffset
  BY <1>5, RefuseGuarded, ReplyGuarded DEF TimezoneOffset, settings
<1>6. CASE GetInternalTemperature
  BY <1>6, RefuseGuarded, RepliesGuarded, ReplyGuarded DEF GetInternalTemperature, settings
<1>7. CASE GetLastEvents
  BY <1>7, RefuseGuarded, RepliesGuarded DEF GetLastEvents, SeqDone, settings
<1>12. CASE GetEventCount
  BY <1>12, RefuseGuarded, ReplyGuarded DEF GetEventCount, settings
<1>8. CASE GpsPowerStatus
  <2>1. CASE OnGround
    BY <1>8, <2>1, RefuseGuarded, ReplyGuarded
       DEF GpsPowerStatus, OnGround, Reply, Replies, Guarded, Locked, settings
  <2>2. CASE ~OnGround
    BY <1>8, <2>2, RefuseGuarded, ReplyGuarded DEF GpsPowerStatus, settings
  <2> QED
    BY <2>1, <2>2
<1>9. CASE EnableGpsUartPassthrough
  BY <1>9, RefuseGuarded
     DEF EnableGpsUartPassthrough, OnGround, Guarded, Locked
<1>10. CASE GetLastTelemetryRecord \/ GetLastSensorRecord
  BY <1>10, RepliesGuarded, ReplyGuarded
     DEF GetLastTelemetryRecord, GetLastSensorRecord, LastRecord, settings
<1>11. CASE InvalidCommand
  BY <1>11, RepliesGuarded DEF InvalidCommand, settings
<1> QED
  BY <1>1, <1>2, <1>3, <1>4, <1>5, <1>6, <1>7, <1>8, <1>9, <1>10, <1>11, <1>12 DEF Execute

\* And so is every other step of the two cores.
LEMMA StepGuarded ==
    ASSUME [Next]_vars
    PROVE  Guarded
<1>1. CASE Execute
  BY <1>1, ExecuteGuarded
<1>2. CASE Receive
  <2>1. ASSUME NEW t, NEW kind, NEW frames, Arrives(t, kind, frames)
        PROVE  Guarded
    BY <2>1 DEF Arrives, Guarded, Locked, settings
  <2>2. CASE UartEndOfLine
    BY <2>2 DEF UartEndOfLine, Process, Guarded, Locked, settings
  <2>3. ASSUME NEW t, LoraPacket(t)
        PROVE  Guarded
    BY <2>3 DEF LoraPacket, Process, Guarded, Locked, settings
  <2> QED
    BY <1>2, <2>1, <2>2, <2>3 DEF Receive, UartFrame, UartBegin, UartEnd
<1>3. CASE FrameDecode
  BY <1>3 DEF FrameDecode, Guarded, Locked, settings
<1>4. CASE SendReply
  BY <1>4 DEF SendReply, Guarded, Locked, settings
<1>5. CASE UserExit \/ BridgeTimeout
  BY <1>5, ReplyGuarded DEF UserExit, BridgeTimeout, BridgeExit, settings
<1>6. CASE NoticeReset \/ ResetUsbBoot
  BY <1>6 DEF NoticeReset, ResetUsbBoot, Others, Guarded, Locked, settings
<1>7. CASE Booted \/ UNCHANGED vars
  BY <1>7 DEF Booted, vars, Guarded, Locked, settings
<1> QED
  BY <1>1, <1>2, <1>3, <1>4, <1>5, <1>6, <1>7 DEF Next

\* In flight no sequence of frames, whole or cut, cuts the power of the GPS, takes core
\* 0 away from the radio or resets the satellite: the checks of the mode in
\* diagnostic_commands.cpp and gps_commands.cpp.
THEOREM FlightStaysLocked == Spec => []FlightLocked
<1>1. Init => FlightLocked
  BY DEF Init, FlightLocked
<1>2. FlightLocked /\ [Next]_vars => FlightLocked'
  BY StepGuarded DEF FlightLocked, Guarded, Locked
<1> QED
  BY <1>1, <1>2, PTL DEF Spec

-----------------------------------------------------------------------------
(* The text that has come, and what is executed of it.                     *)

Symbol == UNION {{Encode(f)[i] : i \in DOMAIN Encode(f)} : f \in Requests \cup Cuts}

LEMMA AllWritten ==
    ASSUME NEW f \in Requests \cup Cuts
    PROVE  /\ Written(f) /\ f.op \notin DOMAIN Number
           /\ Encode(f) \in Seq(Symbol) /\ OneFrame(Encode(f))
<1>1. Sendable(f)
  BY RequestAssumption
<1>2. Written(f) /\ f.op \notin DOMAIN Number
  BY <1>1, WordIs DEF Sendable, Written
<1>3. Encode(f) \in Seq({Encode(f)[i] : i \in DOMAIN Encode(f)})
  BY <1>2, EncodeLayout DEF Written
<1>4. \A i \in 1 .. Len(Encode(f)) : Encode(f)[i] \in Symbol
  <2> SUFFICES ASSUME NEW i \in 1 .. Len(Encode(f)) PROVE Encode(f)[i] \in Symbol
    OBVIOUS
  <2>1. i \in DOMAIN Encode(f)
    BY <1>3
  <2> QED
    BY <2>1 DEF Symbol
<1>5. Encode(f) \in Seq(Symbol)
  BY <1>3, <1>4, MoreSymbols
<1> QED
  BY <1>2, <1>5, EncodedIsOneFrame

\* A text that is executed: a frame that came whole, or one that does not decode.
Damaged(x) ==
    \E c \in Seq(Symbol), f \in Requests :
        /\ c # <<>> /\ \A j \in 1 .. Len(c) : c[j] # FRAME_END
        /\ x = c \o Encode(f)

Taken(x, w) == (\E i \in 1 .. Len(w) : x = w[i]) \/ Damaged(x)

Unbroken(ps) == \A i \in 1 .. Len(ps) : ps[i] # "begin"

\* The line l was put together of the pieces ps, among them the whole frames w.
Heard(l, ps, w) ==
    /\ ps \in Seq({"whole", "begin", "end"}) /\ w \in Seq(RequestTexts)
    /\ \E frames, p :
          /\ Scanned(Symbol, l, frames, p)
          /\ \A i \in 1 .. Len(frames) : Taken(frames[i], w)
          /\ Unbroken(ps) => frames = w /\ NoneBegun(l, p)

LEMMA HeardNothing == Heard(<<>>, <<>>, <<>>)
<1>1. Scanned(Symbol, <<>>, <<>>, 1) /\ NoneBegun(<<>>, 1)
  <2>1. <<>> \in Seq(Symbol) /\ \A j \in 1 .. Len(<<>>) : <<>>[j] # FRAME_BEGIN
    OBVIOUS
  <2> QED
    BY <2>1, ScannedEnd
<1>2. <<>> \in Seq({"whole", "begin", "end"}) /\ <<>> \in Seq(RequestTexts)
  OBVIOUS
<1>3. \A i \in 1 .. Len(<<>>) : Taken(<<>>[i], <<>>)
  OBVIOUS
<1> QED
  BY <1>1, <1>2, <1>3 DEF Heard

LEMMA HeardAll ==
    ASSUME NEW l, NEW ps, NEW w, Heard(l, ps, w)
    PROVE  /\ Extract(l) \in Seq(Seq(Symbol))
           /\ \A i \in 1 .. Len(Extract(l)) : Taken(Extract(l)[i], w)
           /\ Unbroken(ps) => Extract(l) = w
<1>1. PICK frames, p :
          /\ Scanned(Symbol, l, frames, p)
          /\ \A i \in 1 .. Len(frames) : Taken(frames[i], w)
          /\ Unbroken(ps) => frames = w /\ NoneBegun(l, p)
  BY DEF Heard
<1>2. Extract(l) = frames
  BY <1>1, ScannedAll
<1> QED
  BY <1>1, <1>2 DEF Scanned

LEMMA HeardWhole ==
    ASSUME NEW l, NEW ps, NEW w, Heard(l, ps, w), NEW f \in Requests
    PROVE  Heard(l \o Encode(f), Append(ps, "whole"), w \o <<Encode(f)>>)
<1>1. PICK frames, p :
          /\ Scanned(Symbol, l, frames, p)
          /\ \A i \in 1 .. Len(frames) : Taken(frames[i], w)
          /\ Unbroken(ps) => frames = w /\ NoneBegun(l, p)
  BY DEF Heard
<1>2. PICK t : t = Encode(f)
  OBVIOUS
<1>3. t \in Seq(Symbol) /\ OneFrame(t) /\ t \in RequestTexts
  BY <1>2, AllWritten DEF RequestTexts, Texts
<1>4. PICK x : x = OpenPart(l, p) \o t
  OBVIOUS
<1>5. PICK all, new, q : all = l \o t /\ new = frames \o <<x>> /\ q = Len(l \o t) + 1
  OBVIOUS
<1>6. Scanned(Symbol, all, new, q) /\ NoneBegun(all, q)
  BY <1>1, <1>3, <1>4, <1>5, ScannedWhole
<1>7. PICK v : v = w \o <<t>>
  OBVIOUS
<1>8. ps \in Seq({"whole", "begin", "end"}) /\ w \in Seq(RequestTexts)
  BY DEF Heard
<1>9. /\ v \in Seq(RequestTexts) /\ Len(v) = Len(w) + 1 /\ v[Len(w) + 1] = t
      /\ \A i \in 1 .. Len(w) : v[i] = w[i]
  BY <1>3, <1>7, <1>8
<1>10. frames \in Seq(Seq(Symbol)) /\ l \in Seq(Symbol) /\ p \in 1 .. (Len(l) + 1)
  BY <1>1 DEF Scanned
<1>11. x = t \/ Damaged(x)
  <2>1. CASE NoneBegun(l, p)
    BY <1>3, <1>4, <2>1 DEF OpenPart
  <2>2. CASE ~NoneBegun(l, p)
    <3>1. OneOpen(l, p)
      BY <1>1, <2>2 DEF Scanned
    <3>2. PICK c : c = SubSeq(l, p, Len(l))
      OBVIOUS
    <3>3. /\ c \in Seq(Symbol) /\ Len(c) = Len(l) - p + 1 /\ p =< Len(l)
          /\ \A j \in 1 .. Len(c) : c[j] = l[p + j - 1]
      BY <1>10, <3>1, <3>2 DEF OneOpen
    <3>4. c # <<>>
      BY <1>10, <3>3
    <3>5. ASSUME NEW j \in 1 .. Len(c)
          PROVE  c[j] # FRAME_END
      <4>1. p + j - 1 \in p .. Len(l)
        BY <1>10, <3>3
      <4> QED
        BY <3>1, <3>3, <4>1 DEF OneOpen
    <3>6. x = c \o Encode(f)
      BY <1>2, <1>4, <2>2, <3>2 DEF OpenPart
    <3> QED
      BY <3>3, <3>4, <3>5, <3>6 DEF Damaged
  <2> QED
    BY <2>1, <2>2
<1>12. Taken(x, v)
  <2>1. Len(w) + 1 \in 1 .. Len(v)
    BY <1>8, <1>9
  <2> QED
    BY <1>9, <1>11, <2>1 DEF Taken
<1>13. ASSUME NEW i \in 1 .. Len(new)
       PROVE  Taken(new[i], v)
  <2>1. Len(new) = Len(frames) + 1 /\ Len(frames) \in Nat
    BY <1>5, <1>10
  <2>2. CASE i = Len(frames) + 1
    <3>1. new[i] = x
      BY <1>5, <1>10, <2>2
    <3> QED
      BY <1>12, <3>1
  <2>3. CASE i # Len(frames) + 1
    <3>1. i \in 1 .. Len(frames) /\ new[i] = frames[i]
      BY <1>5, <1>10, <2>1, <2>3
    <3>2. Taken(frames[i], w)
      BY <1>1, <3>1
    <3>3. \A k \in 1 .. Len(w) : k \in 1 .. Len(v) /\ v[k] = w[k]
      BY <1>8, <1>9
    <3> QED
      BY <3>1, <3>2, <3>3 DEF Taken
  <2> QED
    BY <2>2, <2>3
<1>14. PICK pp : pp = Append(ps, "whole")
  OBVIOUS
<1>15. /\ pp \in Seq({"whole", "begin", "end"}) /\ Len(pp) = Len(ps) + 1
       /\ \A i \in 1 .. Len(ps) : pp[i] = ps[i]
  BY <1>8, <1>14
<1>16. Unbroken(pp) => Unbroken(ps)
  <2>1. \A i \in 1 .. Len(ps) : i \in 1 .. Len(pp) /\ pp[i] = ps[i]
    BY <1>8, <1>15
  <2> QED
    BY <2>1 DEF Unbroken
<1>17. Unbroken(pp) => new = v
  <2> SUFFICES ASSUME Unbroken(pp) PROVE new = v
    OBVIOUS
  <2>1. frames = w /\ NoneBegun(l, p)
    BY <1>1, <1>16
  <2>2. x = t
    BY <1>3, <1>4, <2>1 DEF OpenPart
  <2> QED
    BY <1>5, <1>7, <2>1, <2>2
<1>18. Heard(all, pp, v)
  BY <1>6, <1>9, <1>13, <1>15, <1>17 DEF Heard
<1> QED
  BY <1>2, <1>5, <1>7, <1>14, <1>18

LEMMA HeardBegin ==
    ASSUME NEW l, NEW ps, NEW w, Heard(l, ps, w), NEW f \in Cuts,
           NEW n \in 1 .. (Len(Encode(f)) - 1)
    PROVE  Heard(l \o SubSeq(Encode(f), 1, n), Append(ps, "begin"), w)
<1>1. PICK frames, p :
          /\ Scanned(Symbol, l, frames, p)
          /\ \A i \in 1 .. Len(frames) : Taken(frames[i], w)
          /\ Unbroken(ps) => frames = w /\ NoneBegun(l, p)
  BY DEF Heard
<1>2. PICK t : t = Encode(f)
  OBVIOUS
<1>3. t \in Seq(Symbol) /\ OneFrame(t)
  BY <1>2, AllWritten
<1>4. PICK piece : piece = SubSeq(t, 1, n)
  OBVIOUS
<1>5. /\ piece \in Seq(Symbol) /\ Len(piece) = n
      /\ \A j \in 1 .. n : piece[j] = t[j]
  BY <1>2, <1>3, <1>4
<1>6. piece # <<>> /\ piece[1] = FRAME_BEGIN
  BY <1>3, <1>5 DEF OneFrame
<1>7. \A j \in 1 .. Len(piece) : piece[j] # FRAME_END
  <2>1. \A j \in 1 .. n : j \in 1 .. (Len(t) - 1)
    BY <1>2, <1>3
  <2> QED
    BY <1>3, <1>5, <2>1 DEF OneFrame
<1>8. PICK q : Scanned(Symbol, l \o piece, frames, q)
  BY <1>1, <1>5, <1>6, <1>7, ScannedBegin
<1>9. PICK pp : pp = Append(ps, "begin")
  OBVIOUS
<1>10. /\ pp \in Seq({"whole", "begin", "end"})
       /\ Len(ps) + 1 \in 1 .. Len(pp) /\ pp[Len(ps) + 1] = "begin"
  BY <1>9 DEF Heard
<1>11. ~Unbroken(pp)
  BY <1>10 DEF Unbroken
<1>12. Heard(l \o piece, pp, w)
  BY <1>1, <1>8, <1>10, <1>11 DEF Heard
<1> QED
  BY <1>2, <1>4, <1>9, <1>12

LEMMA HeardEnd ==
    ASSUME NEW f \in Cuts, NEW n \in 2 .. Len(Encode(f))
    PROVE  Heard(SubSeq(Encode(f), n, Len(Encode(f))), <<"end">>, <<>>)
<1>1. PICK t : t = Encode(f)
  OBVIOUS
<1>2. t \in Seq(Symbol) /\ OneFrame(t)
  BY <1>1, AllWritten
<1>3. PICK piece : piece = SubSeq(t, n, Len(t))
  OBVIOUS
<1>4. /\ piece \in Seq(Symbol) /\ Len(piece) = Len(t) - n + 1
      /\ \A j \in 1 .. Len(piece) : piece[j] = t[n + j - 1]
  BY <1>1, <1>2, <1>3
<1>5. ASSUME NEW j \in 1 .. Len(piece)
      PROVE  piece[j] # FRAME_BEGIN
  <2>1. n + j - 1 \in 2 .. Len(t)
    BY <1>1, <1>2, <1>4
  <2> QED
    BY <1>2, <1>4, <2>1 DEF OneFrame
<1>6. Scanned(Symbol, piece, <<>>, 1) /\ NoneBegun(piece, 1)
  BY <1>4, <1>5, ScannedEnd
<1>7. <<"end">> \in Seq({"whole", "begin", "end"}) /\ <<>> \in Seq(RequestTexts)
  OBVIOUS
<1>8. \A i \in 1 .. Len(<<>>) : Taken(<<>>[i], <<>>)
  OBVIOUS
<1>9. Heard(piece, <<"end">>, <<>>)
  BY <1>6, <1>7, <1>8 DEF Heard
<1> QED
  BY <1>1, <1>3, <1>9


\* The texts q that are still to be executed, after so many of the line.
Queued(q, done, ps, w) ==
    /\ q \in Seq(Seq(Symbol)) /\ ps \in Seq({"whole", "begin", "end"})
    /\ w \in Seq(RequestTexts) /\ done \in Nat
    /\ \A i \in 1 .. Len(q) : Taken(q[i], w)
    /\ Unbroken(ps) =>
          done + Len(q) = Len(w) /\ \A i \in 1 .. Len(q) : q[i] = w[done + i]

TextOK ==
    /\ ~missed
    /\ core0 = "idle" =>
          /\ handled = 0 /\ Heard(line, pieces, whole)
          /\ pieces = <<>> => line = <<>> /\ whole = <<>>
    /\ core0 # "idle" =>
          line = <<>> /\ queue # <<>> /\ Queued(queue, handled, pieces, whole)
    /\ core0 \notin {"idle", "decode"} => request = Decode(Head(queue))

LEMMA HeardIsQueued ==
    ASSUME NEW l, NEW ps, NEW w, Heard(l, ps, w)
    PROVE  Queued(Extract(l), 0, ps, w)
<1>1. /\ Extract(l) \in Seq(Seq(Symbol))
      /\ \A i \in 1 .. Len(Extract(l)) : Taken(Extract(l)[i], w)
      /\ Unbroken(ps) => Extract(l) = w
  BY HeardAll
<1>2. ps \in Seq({"whole", "begin", "end"}) /\ w \in Seq(RequestTexts)
  BY DEF Heard
<1>3. Unbroken(ps) => 0 + Len(Extract(l)) = Len(w)
  BY <1>1, <1>2
<1>4. ASSUME Unbroken(ps), NEW i \in 1 .. Len(Extract(l))
      PROVE  Extract(l)[i] = w[0 + i]
  BY <1>1, <1>4
<1> QED
  BY <1>1, <1>2, <1>3, <1>4 DEF Queued

LEMMA QueuedNext ==
    ASSUME NEW q, NEW done, NEW ps, NEW w, Queued(q, done, ps, w), q # <<>>
    PROVE  /\ Queued(Tail(q), done + 1, ps, w)
           /\ Tail(q) = <<>> /\ Unbroken(ps) => done + 1 = Len(w)
<1>1. PICK r : r = Tail(q)
  OBVIOUS
<1>2. /\ r \in Seq(Seq(Symbol)) /\ Len(q) = Len(r) + 1 /\ Len(r) \in Nat
      /\ \A i \in 1 .. Len(r) : r[i] = q[i + 1]
  BY <1>1 DEF Queued
<1>3. done \in Nat
  BY DEF Queued
<1>4. \A i \in 1 .. Len(r) : i + 1 \in 1 .. Len(q)
  BY <1>2
<1>5. \A i \in 1 .. Len(r) : Taken(r[i], w)
  BY <1>2, <1>4 DEF Queued
<1>6. ASSUME Unbroken(ps)
      PROVE  /\ (done + 1) + Len(r) = Len(w)
             /\ \A i \in 1 .. Len(r) : r[i] = w[(done + 1) + i]
  <2>1. done + Len(q) = Len(w) /\ \A i \in 1 .. Len(q) : q[i] = w[done + i]
    BY <1>6 DEF Queued
  <2>2. ASSUME NEW i \in 1 .. Len(r)
        PROVE  r[i] = w[(done + 1) + i]
    <3>1. done + (i + 1) = (done + 1) + i
      BY <1>3
    <3>2. q[i + 1] = w[done + (i + 1)]
      BY <1>4, <2>1
    <3> QED
      BY <1>2, <3>1, <3>2
  <2> QED
    BY <1>2, <1>3, <2>1, <2>2
<1>7. Queued(r, done + 1, ps, w)
  BY <1>2, <1>3, <1>5, <1>6 DEF Queued
<1>8. r = <<>> /\ Unbroken(ps) => done + 1 = Len(w)
  BY <1>3, <1>6
<1> QED
  BY <1>1, <1>7, <1>8

LEMMA InitText == Init => TextOK
BY HeardNothing DEF Init, TextOK

\* Receiving keeps it.
LEMMA ReceiveText ==
    ASSUME TextOK, Receive
    PROVE  TextOK'
<1>1. ASSUME NEW t \in RequestTexts, UartFrame(t)
      PROVE  TextOK'
  <2>1. PICK f \in Requests : t = Encode(f)
    BY DEF RequestTexts, Texts
  <2>2. core0 = "idle" /\ handled = 0 /\ Heard(line, pieces, whole)
    BY <1>1 DEF UartFrame, Arrives, Listening, TextOK
  <2>3. Heard(line \o t, Append(pieces, "whole"), whole \o <<t>>)
    BY <2>1, <2>2, HeardWhole
  <2>4. /\ line' = line \o t /\ pieces' = Append(pieces, "whole")
        /\ whole' = whole \o <<t>> /\ core0' = core0 /\ handled' = handled /\ missed' = missed
    BY <1>1 DEF UartFrame, Arrives
  <2>5. pieces' # <<>>
    <3>1. pieces \in Seq({"whole", "begin", "end"})
      BY <2>2 DEF Heard
    <3>2. Append(pieces, "whole") # <<>>
      BY <3>1
    <3> QED
      BY <2>4, <3>2
  <2> QED
    BY <2>2, <2>3, <2>4, <2>5 DEF TextOK
<1>2. ASSUME NEW t \in CutTexts, UartBegin(t)
      PROVE  TextOK'
  <2>1. PICK f \in Cuts : t = Encode(f)
    BY DEF CutTexts, Texts
  <2>2. PICK n \in 1 .. (Len(t) - 1) : Arrives(SubSeq(t, 1, n), "begin", <<>>)
    BY <1>2 DEF UartBegin
  <2>3. core0 = "idle" /\ handled = 0 /\ Heard(line, pieces, whole)
    BY <2>2 DEF Arrives, Listening, TextOK
  <2>4. Heard(line \o SubSeq(t, 1, n), Append(pieces, "begin"), whole)
    BY <2>1, <2>3, HeardBegin
  <2>5. /\ line' = line \o SubSeq(t, 1, n) /\ pieces' = Append(pieces, "begin")
        /\ whole' = whole \o <<>> /\ core0' = core0 /\ handled' = handled /\ missed' = missed
    BY <2>2 DEF Arrives
  <2>6. pieces' # <<>> /\ whole' = whole
    <3>1. pieces \in Seq({"whole", "begin", "end"}) /\ whole \in Seq(RequestTexts)
      BY <2>3 DEF Heard
    <3> QED
      BY <2>5, <3>1
  <2> QED
    BY <2>3, <2>4, <2>5, <2>6 DEF TextOK
<1>3. ASSUME NEW t \in CutTexts, UartEnd(t)
      PROVE  TextOK'
  <2>1. PICK f \in Cuts : t = Encode(f)
    BY DEF CutTexts, Texts
  <2>2. PICK n \in 2 .. Len(t) : Arrives(SubSeq(t, n, Len(t)), "end", <<>>)
    BY <1>3 DEF UartEnd
  <2>3. core0 = "idle" /\ handled = 0 /\ pieces = <<>> /\ line = <<>> /\ whole = <<>>
    BY <1>3, <2>2 DEF UartEnd, Arrives, Listening, TextOK
  <2>4. PICK e : e = SubSeq(t, n, Len(t))
    OBVIOUS
  <2>5. Heard(e, <<"end">>, <<>>)
    BY <2>1, <2>4, HeardEnd
  <2>6. /\ line' = <<>> \o e /\ pieces' = Append(<<>>, "end")
        /\ whole' = <<>> \o <<>> /\ core0' = core0 /\ handled' = handled /\ missed' = missed
    BY <2>2, <2>3, <2>4 DEF Arrives
  <2>7. e \in Seq(Symbol)
    BY <2>5 DEF Heard, Scanned
  <2>8. line' = e /\ pieces' = <<"end">> /\ whole' = <<>>
    BY <2>6, <2>7
  <2>9. pieces' # <<>>
    BY <2>8
  <2> QED
    BY <2>3, <2>5, <2>6, <2>8, <2>9 DEF TextOK
<1>4. CASE UartEndOfLine
  <2>1. core0 = "idle" /\ handled = 0 /\ Heard(line, pieces, whole) /\ ~missed
    BY <1>4 DEF UartEndOfLine, Listening, TextOK
  <2>2. Queued(Extract(line), 0, pieces, whole)
    BY <2>1, HeardIsQueued
  <2>3. CASE Extract(line) = <<>>
    <3>1. /\ core0' = "idle" /\ line' = <<>> /\ pieces' = <<>> /\ whole' = <<>> /\ handled' = 0
          /\ missed' = (missed \/ (Undamaged /\ 0 # Len(whole)))
      BY <1>4, <2>3 DEF UartEndOfLine, Process, LineDone
    <3>2. Undamaged => Len(whole) = 0
      BY <2>2, <2>3 DEF Queued, Undamaged, Unbroken
    <3> QED
      BY <2>1, <3>1, <3>2, HeardNothing DEF TextOK
  <2>4. CASE Extract(line) # <<>>
    <3>1. /\ core0' = "decode" /\ line' = <<>> /\ queue' = Extract(line)
          /\ UNCHANGED ghosts
      BY <1>4, <2>4 DEF UartEndOfLine, Process
    <3> QED
      BY <2>1, <2>2, <2>4, <3>1 DEF TextOK, ghosts
  <2> QED
    BY <2>3, <2>4
<1>5. ASSUME NEW t \in RadioTexts, LoraPacket(t)
      PROVE  TextOK'
  <2>1. PICK f \in Requests : t = Encode(f)
    BY PieceAssumption DEF RadioTexts, Texts
  <2>2. /\ core0 = "idle" /\ handled = 0 /\ ~missed /\ line = <<>>
        /\ queue' = Extract(t) /\ core0' = IF Extract(t) = <<>> THEN "idle" ELSE "decode"
        /\ pieces' = <<"whole">> /\ whole' = <<t>> /\ line' = line
        /\ handled' = handled /\ missed' = missed
    BY <1>5 DEF LoraPacket, Listening, Process, TextOK
  <2>3. Heard(t, <<"whole">>, <<t>>)
    <3>1. Heard(<<>> \o t, Append(<<>>, "whole"), <<>> \o <<t>>)
      BY <2>1, HeardNothing, HeardWhole
    <3>2. t \in Seq(Symbol)
      BY <2>1, AllWritten
    <3>3. <<>> \o t = t /\ Append(<<>>, "whole") = <<"whole">> /\ <<>> \o <<t>> = <<t>>
      BY <3>2
    <3> QED
      BY <3>1, <3>3
  <2>4. Queued(Extract(t), 0, <<"whole">>, <<t>>)
    BY <2>3, HeardIsQueued
  <2>5. Extract(t) # <<>>
    <3>1. Unbroken(<<"whole">>)
      BY DEF Unbroken
    <3>2. Extract(t) = <<t>>
      BY <2>3, <3>1, HeardAll
    <3> QED
      BY <3>2
  <2> QED
    BY <2>2, <2>4, <2>5 DEF TextOK
<1> QED
  BY <1>1, <1>2, <1>3, <1>4, <1>5 DEF Receive


-----------------------------------------------------------------------------
(* The answers.                                                            *)

SettingsOK ==
    /\ HasWord(verbosity) /\ HasWord(gpsPower) /\ HasWord(offset)
    /\ mode \in {"BATTERY", "USB"}

RequestOK(r) ==
    /\ r.group \in 0 .. MaxGroup /\ r.command \in 0 .. MaxCommand
    /\ Plain(r.value)

\* A reply f that the ground station can read, to the request r.
Fitting(f, r) ==
    /\ f = Build(f.op, f.group, f.command, f.value, f.unit)
    /\ f.op \in Operations
    /\ f.group \in 0 .. MaxGroup /\ f.command \in 0 .. MaxCommand
    /\ Plain(f.value) /\ Plain(f.unit)
    /\ \/ Key(f) = (IF Key(r) \in Known THEN Key(r) ELSE <<0, 0>>)
       \/ Key(r) = <<8, 3>> /\ r.op # "GET"

\* A reply f to the request r that is true of the settings verb, gps, clk, off and reset.
Truthful(f, r, verb, gps, clk, off, reset) ==
    f.op = "RES" =>
        CASE Key(r) = <<1, 8>> -> f.value = <<"LEVEL_SET">> /\ verb = Stoi(r.value)
          [] Key(r) = <<1, 9>> -> f.value = <<"REBOOT_BOOTSEL">> /\ reset
          [] Key(r) = <<3, 0>> ->
                clk = Stoi(r.value) /\ (f.value = NotRead \/ Stoi(f.value) = clk)
          [] Key(r) = <<3, 1>> -> off = Stoi(f.value)
          [] Key(r) = <<7, 1>> -> gps = Stoi(f.value)
          [] OTHER -> TRUE

\* Any number of SEQ frames, then one of the others, that is true.
Answered(out, r, verb, gps, clk, off, reset) ==
    /\ \E S : out \in Seq(S)
    /\ out # <<>>
    /\ \A i \in 1 .. Len(out) :
          Fitting(out[i], r) /\ (out[i].op \in Terminal <=> i = Len(out))
    /\ Truthful(out[Len(out)], r, verb, gps, clk, off, reset)

AnswersOK ==
    /\ SettingsOK
    /\ core0 = "send" => Answered(outbox, request, verbosity, gpsPower, clock, offset, pending)
    /\ core0 = "bridge" => Key(request) = <<7, 2>>

\* A text of one word.
LEMMA OneWord ==
    ASSUME NEW w, w \notin Marks
    PROVE  Plain(<<w>>)
<1>1. PICK v : v = <<w>>
  OBVIOUS
<1>2. v \in Seq({w}) /\ \A i \in 1 .. Len(v) : v[i] = w
  BY <1>1
<1>3. v \in Seq({v[i] : i \in DOMAIN v})
  BY <1>2, OwnSymbols
<1> QED
  BY <1>1, <1>2, <1>3 DEF Plain

LEMMA NoWord == Plain(<<>>)
BY DEF Plain

\* What is executed is a frame that came whole, or it does not decode.
LEMMA Undecoded ==
    ASSUME NEW x, Damaged(x)
    PROVE  Decode(x) = Build("ERR", 0, 0, <<"decode_error">>, <<>>)
<1>1. PICK c \in Seq(Symbol), f \in Requests :
          /\ c # <<>> /\ \A j \in 1 .. Len(c) : c[j] # FRAME_END
          /\ x = c \o Encode(f)
  BY DEF Damaged
<1>2. Written(f) /\ Encode(f) \in Seq(Symbol) /\ f.op \notin DOMAIN Number
  BY AllWritten
<1>3. ~WellFormed(Fields(x))
  BY <1>1, <1>2, Swallowed
<1> QED
  BY <1>3 DEF Decode, FrameFrom

LEMMA ErrorKey ==
    ASSUME NEW r, r = Build("ERR", 0, 0, <<"decode_error">>, <<>>)
    PROVE  Key(r) = <<0, 0>> /\ Key(r) \notin Known /\ r.op = "ERR" /\ RequestOK(r)
<1>1. /\ r.op = "ERR" /\ r.group = 0 /\ r.command = 0 /\ r.value = <<"decode_error">>
  BY DEF Build, FrameOf
<1>2. Key(r) = <<0, 0>>
  BY <1>1 DEF Key
<1>3. <<0, 0>> \notin Known
  <2> SUFFICES ASSUME <<0, 0>> \in Known PROVE FALSE
    OBVIOUS
  <2>1. PICK k : k = <<0, 0>>
    OBVIOUS
  <2>2. k[1] = 0
    BY <2>1
  <2>3. PICK c : k \in {<<1, c>>, <<3, c>>, <<5, c>>, <<7, c>>, <<8, c>>}
    BY <2>1 DEF Known
  <2>4. k[1] # 0
    BY <2>3
  <2> QED
    BY <2>2, <2>4
<1>4. Plain(r.value)
  <2>1. "decode_error" \notin Marks
    BY DEF Marks, FRAME_BEGIN, FRAME_END, DELIMITER
  <2>2. Plain(<<"decode_error">>)
    BY <2>1, OneWord
  <2> QED
    BY <1>1, <2>2
<1>5. RequestOK(r)
  <2>1. 0 \in 0 .. MaxGroup /\ 0 \in 0 .. MaxCommand
    BY RangeAssumption
  <2> QED
    BY <1>1, <1>4, <2>1 DEF RequestOK
<1> QED
  BY <1>1, <1>2, <1>3, <1>5

LEMMA WhatIsExecuted ==
    ASSUME TextOK, core0 \notin {"idle", "decode"}
    PROVE  /\ RequestOK(request)
           /\ Key(request) \in Known =>
                \E i \in 1 .. Len(whole), f \in Requests :
                    /\ whole[i] = Head(queue) /\ Head(queue) = Encode(f)
                    /\ request.op = OperationOf(<<f.op>>) /\ request.value = f.value
<1>1. /\ request = Decode(Head(queue)) /\ queue # <<>>
      /\ Queued(queue, handled, pieces, whole)
  BY DEF TextOK
<1>2. PICK x : x = Head(queue)
  OBVIOUS
<1>3. Taken(x, whole)
  <2>1. 1 \in 1 .. Len(queue) /\ Head(queue) = queue[1]
    BY <1>1 DEF Queued
  <2> QED
    BY <1>1, <1>2, <2>1 DEF Queued
<1>4. CASE Damaged(x)
  BY <1>1, <1>2, <1>4, Undecoded, ErrorKey
<1>5. CASE ~Damaged(x)
  <2>1. PICK i \in 1 .. Len(whole) : x = whole[i]
    BY <1>3, <1>5 DEF Taken
  <2>2. whole[i] \in RequestTexts
    BY <1>1, <2>1 DEF Queued
  <2>3. PICK f \in Requests : x = Encode(f)
    BY <2>1, <2>2 DEF RequestTexts, Texts
  <2>4. Written(f)
    BY AllWritten
  <2>5. PICK g : g = Decode(Encode(f))
    OBVIOUS
  <2>6. \/ g = Build("ERR", 0, 0, <<"decode_error">>, <<>>)
        \/ /\ g.op = OperationOf(<<f.op>>) /\ g.value = f.value
           /\ g.group \in 0 .. MaxGroup /\ g.command \in 0 .. MaxCommand
    BY <2>4, <2>5, DecodedFrame
  <2>7. request = g
    BY <1>1, <1>2, <2>3, <2>5
  <2>8. CASE g = Build("ERR", 0, 0, <<"decode_error">>, <<>>)
    BY <2>7, <2>8, ErrorKey
  <2>9. CASE /\ g.op = OperationOf(<<f.op>>) /\ g.value = f.value
             /\ g.group \in 0 .. MaxGroup /\ g.command \in 0 .. MaxCommand
    <3>1. RequestOK(g)
      BY <2>4, <2>9 DEF RequestOK, Written
    <3> QED
      BY <1>2, <2>1, <2>3, <2>7, <2>9, <3>1
  <2> QED
    BY <2>6, <2>8, <2>9
<1> QED
  BY <1>4, <1>5


\* A step that answers the request, or enters the pass-through.
Answering ==
    /\ UNCHANGED <<core1, line, queue, request, mode, ghosts>>
    /\ SettingsOK'
    /\ \/ /\ core0' = "send"
          /\ Answered(outbox', request, verbosity', gpsPower', clock', offset', pending')
       \/ core0' = "bridge" /\ Key(request) = <<7, 2>>

\* A request that a handler takes.
Asked == RequestOK(request) /\ Key(request) \in Known /\ SettingsOK

LEMMA ReplyFits ==
    ASSUME NEW r, RequestOK(r), Key(r) \in Known,
           NEW op \in Operations, NEW value, Plain(value),
           NEW f, f = Build(op, r.group, r.command, value, <<>>)
    PROVE  Fitting(f, r) /\ f.op = op /\ f.value = value
<1>1. /\ f.op = op /\ f.value = value /\ f.unit = <<>>
      /\ f.group = r.group /\ f.command = r.command
  BY DEF Build, FrameOf
<1>2. f = Build(f.op, f.group, f.command, f.value, f.unit)
  BY <1>1
<1>3. f.group \in 0 .. MaxGroup /\ f.command \in 0 .. MaxCommand
  BY <1>1 DEF RequestOK
<1>4. Key(f) = Key(r)
  BY <1>1 DEF Key
<1> QED
  BY <1>1, <1>2, <1>3, <1>4, NoWord DEF Fitting

LEMMA SingleAnswers ==
    ASSUME NEW f, NEW r, NEW verb, NEW gps, NEW clk, NEW off, NEW reset,
           f.op \in Terminal, Fitting(f, r),
           Truthful(f, r, verb, gps, clk, off, reset)
    PROVE  Answered(<<f>>, r, verb, gps, clk, off, reset)
<1>1. PICK out : out = <<f>>
  OBVIOUS
<1>2. /\ out \in Seq({f}) /\ out # <<>> /\ Len(out) = 1 /\ out[1] = f
      /\ \A i \in 1 .. Len(out) : i = 1
  BY <1>1
<1>3. Answered(out, r, verb, gps, clk, off, reset)
  <2>1. \E S : out \in Seq(S)
    BY <1>2
  <2> QED
    BY <1>2, <2>1, Zenon DEF Answered
<1> QED
  BY <1>1, <1>3

LEMMA ReplyAnswers ==
    ASSUME Asked, SettingsOK',
           NEW op \in Terminal, NEW value, Plain(value), Reply(op, value),
           Truthful(Build(op, request.group, request.command, value, <<>>), request,
                    verbosity', gpsPower', clock', offset', pending')
    PROVE  Answering
<1>1. PICK f : f = Build(op, request.group, request.command, value, <<>>)
  OBVIOUS
<1>2. op \in Operations
  BY DEF Terminal, Operations
<1>3. Fitting(f, request) /\ f.op = op
  BY <1>1, <1>2, ReplyFits DEF Asked
<1>4. outbox' = <<f>> /\ core0' = "send"
      /\ UNCHANGED <<core1, line, queue, request, mode, ghosts>>
  BY <1>1 DEF Reply, Replies
<1>5. Answered(outbox', request, verbosity', gpsPower', clock', offset', pending')
  BY <1>1, <1>3, <1>4, SingleAnswers
<1> QED
  BY <1>4, <1>5 DEF Answering

\* An answer that confirms nothing and leaves the settings alone.
LEMMA QuietAnswers ==
    ASSUME Asked, UNCHANGED settings,
           NEW op \in {"VAL", "ERR"}, NEW value, Plain(value), Reply(op, value)
    PROVE  Answering
<1>1. op \in Terminal /\ op # "RES"
  BY DEF Terminal
<1>2. SettingsOK'
  BY DEF Asked, SettingsOK, settings, Reply, Replies
<1>3. Truthful(Build(op, request.group, request.command, value, <<>>), request,
               verbosity', gpsPower', clock', offset', pending')
  BY <1>1 DEF Truthful, Build, FrameOf
<1> QED
  BY <1>1, <1>2, <1>3, ReplyAnswers

LEMMA RefuseAnswers ==
    ASSUME Asked, NEW code, code \notin Marks, Refuse(code)
    PROVE  Answering
BY OneWord, QuietAnswers DEF Refuse

LEMMA SeqAnswers ==
    ASSUME Asked, UNCHANGED settings, NEW word, word \notin Marks, NEW n \in Nat,
           SeqDone(word, n)
    PROVE  Answering
<1>1. PICK f, g : /\ f = Build("SEQ", request.group, request.command, <<word>>, <<>>)
                  /\ g = Build("VAL", request.group, request.command, <<"SEQ_DONE">>, <<>>)
  OBVIOUS
<1>2. "SEQ_DONE" \notin Marks
  BY DEF Marks, FRAME_BEGIN, FRAME_END, DELIMITER
<1>3. Plain(<<word>>) /\ Plain(<<"SEQ_DONE">>)
  BY <1>2, OneWord
<1>4. "SEQ" \in Operations /\ "VAL" \in Operations /\ "VAL" \in Terminal /\ "VAL" # "RES"
      /\ "SEQ" \notin Terminal
  BY DEF Operations, Terminal
<1>5. Fitting(f, request) /\ f.op = "SEQ"
  BY <1>1, <1>3, <1>4, ReplyFits DEF Asked
<1>6. Fitting(g, request) /\ g.op = "VAL"
  BY <1>1, <1>3, <1>4, ReplyFits DEF Asked
<1>7. PICK out : out = [i \in 1 .. n |-> f] \o <<g>>
  OBVIOUS
<1>8. /\ outbox' = out /\ core0' = "send"
      /\ UNCHANGED <<core1, line, queue, request, mode, ghosts>>
  BY <1>1, <1>7 DEF SeqDone, Replies
<1>9. /\ out \in Seq({f, g}) /\ Len(out) = n + 1 /\ out[n + 1] = g
      /\ \A i \in 1 .. n : out[i] = f
  <2>1. PICK s : s = [i \in 1 .. n |-> f]
    OBVIOUS
  <2>2. s \in Seq({f, g}) /\ Len(s) = n /\ \A i \in 1 .. n : s[i] = f
    BY <2>1
  <2>3. out = s \o <<g>> /\ <<g>> \in Seq({f, g}) /\ Len(<<g>>) = 1 /\ <<g>>[1] = g
    BY <1>7, <2>1
  <2> QED
    BY <2>2, <2>3
<1>10. SettingsOK'
  BY <1>8 DEF Asked, SettingsOK, settings
<1>11. Truthful(g, request, verbosity', gpsPower', clock', offset', pending')
  BY <1>4, <1>6 DEF Truthful
<1>12. ASSUME NEW i \in 1 .. Len(out)
       PROVE  Fitting(out[i], request) /\ (out[i].op \in Terminal <=> i = Len(out))
  <2>1. CASE i = n + 1
    BY <1>4, <1>6, <1>9, <2>1
  <2>2. CASE i # n + 1
    <3>1. i \in 1 .. n
      BY <1>9, <2>2
    <3> QED
      BY <1>4, <1>5, <1>9, <2>2, <3>1
  <2> QED
    BY <2>1, <2>2
<1>13. Answered(outbox', request, verbosity', gpsPower', clock', offset', pending')
  <2>1. out # <<>> /\ out[Len(out)] = g
    BY <1>9
  <2>2. \E S : out \in Seq(S)
    BY <1>9
  <2> QED
    BY <1>8, <1>11, <1>12, <2>1, <2>2, Zenon DEF Answered
<1> QED
  BY <1>8, <1>10, <1>13 DEF Answering

\* The error codes and the words of the answers are text.
LEMMA Codes ==
    /\ "INVALID_OPERATION" \notin Marks /\ "PARAM_UNNECESSARY" \notin Marks
    /\ "INVALID_FORMAT" \notin Marks /\ "PARAM_INVALID" \notin Marks
    /\ "PARAM_REQUIRED" \notin Marks /\ "INVALID_VALUE" \notin Marks
    /\ "FAIL_TO_SET" \notin Marks /\ "INTERNAL_FAIL_TO_READ" \notin Marks
    /\ "LEVEL_SET" \notin Marks /\ "REBOOT_BOOTSEL" \notin Marks
    /\ "build" \notin Marks /\ "uptime" \notin Marks /\ "commands" \notin Marks
    /\ "BATTERY" \notin Marks /\ "USB" \notin Marks
    /\ "time" \notin Marks /\ "4294967295" \notin Marks /\ "-1" \notin Marks
    /\ "temperature" \notin Marks /\ "C" \notin Marks /\ "events" \notin Marks
    /\ "count" \notin Marks /\ "record" \notin Marks /\ "INVALID_COMMAND" \notin Marks
    /\ "USER_EXIT" \notin Marks /\ "TIMEOUT" \notin Marks
BY DEF Marks, FRAME_BEGIN, FRAME_END, DELIMITER

LEMMA NumberWord ==
    ASSUME NEW n, HasWord(n)
    PROVE  Plain(<<Word(n)>>) /\ Stoi(<<Word(n)>>) = n
<1>1. PICK w : w = Word(n)
  OBVIOUS
<1>2. w \notin Marks /\ Number[w] = n
  BY <1>1, WordIs
<1>3. Head(<<w>>) = w
  OBVIOUS
<1> QED
  BY <1>1, <1>2, <1>3, OneWord DEF Stoi

LEMMA ParamHasWord ==
    ASSUME NumberParam
    PROVE  HasWord(Param)
BY DEF NumberParam, IsNumber, Param, Stoi, HasWord

LEMMA ReadOnlyAnswers ==
    ASSUME Asked, NEW group, NEW command, NEW op \in {"VAL", "ERR"}, NEW value, Plain(value),
           ReadOnly(group, command, Reply(op, value))
    PROVE  Answering
<1>1. CASE NotGet
  BY <1>1, Codes, RefuseAnswers DEF ReadOnly
<1>2. CASE ~NotGet /\ HasParam
  BY <1>2, Codes, RefuseAnswers DEF ReadOnly
<1>3. CASE ~NotGet /\ ~HasParam
  BY <1>3, QuietAnswers DEF ReadOnly
<1> QED
  BY <1>1, <1>2, <1>3


\* What a RES of each command says.
LEMMA Truths ==
    ASSUME NEW f, NEW r, NEW verb, NEW gps, NEW clk, NEW off, NEW reset,
           \/ Key(r) = <<1, 8>> /\ f.value = <<"LEVEL_SET">> /\ verb = Stoi(r.value)
           \/ Key(r) = <<1, 9>> /\ f.value = <<"REBOOT_BOOTSEL">> /\ reset
           \/ /\ Key(r) = <<3, 0>> /\ clk = Stoi(r.value)
              /\ f.value = NotRead \/ Stoi(f.value) = clk
           \/ Key(r) = <<3, 1>> /\ off = Stoi(f.value)
           \/ Key(r) = <<7, 1>> /\ gps = Stoi(f.value)
           \/ Key(r) = <<7, 2>>
    PROVE  Truthful(f, r, verb, gps, clk, off, reset)
<1>1. PICK k : k = Key(r)
  OBVIOUS
<1>2. CASE k = <<1, 8>> /\ f.value = <<"LEVEL_SET">> /\ verb = Stoi(r.value)
  <2>1. k # <<1, 9>> /\ k # <<3, 0>> /\ k # <<3, 1>> /\ k # <<7, 1>>
    BY <1>2
  <2> QED
    BY <1>1, <1>2, <2>1, Zenon DEF Truthful
<1>3. CASE k = <<1, 9>> /\ f.value = <<"REBOOT_BOOTSEL">> /\ reset
  <2>1. k # <<1, 8>> /\ k # <<3, 0>> /\ k # <<3, 1>> /\ k # <<7, 1>>
    BY <1>3
  <2> QED
    BY <1>1, <1>3, <2>1, Zenon DEF Truthful
<1>4. CASE /\ k = <<3, 0>> /\ clk = Stoi(r.value)
           /\ f.value = NotRead \/ Stoi(f.value) = clk
  <2>1. k # <<1, 8>> /\ k # <<1, 9>> /\ k # <<3, 1>> /\ k # <<7, 1>>
    BY <1>4
  <2> QED
    BY <1>1, <1>4, <2>1, Zenon DEF Truthful
<1>5. CASE k = <<3, 1>> /\ off = Stoi(f.value)
  <2>1. k # <<1, 8>> /\ k # <<1, 9>> /\ k # <<3, 0>> /\ k # <<7, 1>>
    BY <1>5
  <2> QED
    BY <1>1, <1>5, <2>1, Zenon DEF Truthful
<1>6. CASE k = <<7, 1>> /\ gps = Stoi(f.value)
  <2>1. k # <<1, 8>> /\ k # <<1, 9>> /\ k # <<3, 0>> /\ k # <<3, 1>>
    BY <1>6
  <2> QED
    BY <1>1, <1>6, <2>1, Zenon DEF Truthful
<1>7. CASE k = <<7, 2>>
  <2>1. k # <<1, 8>> /\ k # <<1, 9>> /\ k # <<3, 0>> /\ k # <<3, 1>> /\ k # <<7, 1>>
    BY <1>7
  <2> QED
    BY <1>1, <2>1, Zenon DEF Truthful
<1> QED
  BY <1>1, <1>2, <1>3, <1>4, <1>5, <1>6, <1>7

LEMMA SettingsStay ==
    ASSUME SettingsOK, UNCHANGED <<settings, mode>>
    PROVE  SettingsOK'
BY DEF SettingsOK, settings

\* Every handler answers what it is asked; the six that confirm something have done it.
LEMMA VerbosityAnswers ==
    ASSUME Asked, Verbosity
    PROVE  Answering
<1>1. Key(request) = <<1, 8>>
  BY DEF Verbosity, Running, Key
<1>2. CASE request.op = "GET" /\ HasParam
  BY <1>2, Codes, RefuseAnswers DEF Verbosity
<1>3. CASE request.op = "GET" /\ ~HasParam
  <2>1. Reply("VAL", <<Word(verbosity)>>) /\ UNCHANGED settings
    BY <1>3 DEF Verbosity
  <2>2. Plain(<<Word(verbosity)>>)
    BY NumberWord DEF Asked, SettingsOK
  <2> QED
    BY <2>1, <2>2, QuietAnswers
<1>4. CASE request.op = "SET"
  <2>1. CASE ~NumberParam
    BY <1>4, <2>1, Codes, RefuseAnswers DEF Verbosity
  <2>2. CASE NumberParam /\ Param \notin Levels
    BY <1>4, <2>2, Codes, RefuseAnswers DEF Verbosity
  <2>3. CASE NumberParam /\ Param \in Levels
    <3>1. /\ verbosity' = Param /\ Reply("RES", <<"LEVEL_SET">>)
          /\ UNCHANGED <<gpsPower, clock, offset, pending>>
      BY <1>4, <2>3 DEF Verbosity
    <3>2. mode' = mode
      BY <3>1 DEF Reply, Replies
    <3>3. HasWord(Param)
      BY <2>3, ParamHasWord
    <3>4. SettingsOK'
      BY <3>1, <3>2, <3>3 DEF Asked, SettingsOK
    <3>5. Truthful(Build("RES", request.group, request.command, <<"LEVEL_SET">>, <<>>), request,
                   verbosity', gpsPower', clock', offset', pending')
      <4>1. PICK f : f = Build("RES", request.group, request.command, <<"LEVEL_SET">>, <<>>)
        OBVIOUS
      <4>2. f.value = <<"LEVEL_SET">>
        BY <4>1 DEF Build, FrameOf
      <4> QED
        BY <1>1, <3>1, <4>1, <4>2, Truths DEF Param
    <3>6. "RES" \in Terminal /\ Plain(<<"LEVEL_SET">>)
      BY Codes, OneWord DEF Terminal
    <3> QED
      BY <3>1, <3>4, <3>5, <3>6, ReplyAnswers
  <2> QED
    BY <2>1, <2>2, <2>3
<1>5. CASE request.op \notin {"GET", "SET"}
  BY <1>5, Codes, RefuseAnswers DEF Verbosity
<1> QED
  BY <1>2, <1>3, <1>4, <1>5

LEMMA BootloaderAnswers ==
    ASSUME Asked, EnterBootloaderMode
    PROVE  Answering
<1>1. Key(request) = <<1, 9>>
  BY DEF EnterBootloaderMode, Running, Key
<1>2. CASE request.op # "SET" \/ ~OnGround
  BY <1>2, Codes, RefuseAnswers DEF EnterBootloaderMode
<1>3. CASE ~(request.op # "SET" \/ ~OnGround) /\ request.value # <<"USB">>
  BY <1>3, Codes, RefuseAnswers DEF EnterBootloaderMode
<1>4. CASE ~(request.op # "SET" \/ ~OnGround) /\ request.value = <<"USB">>
  <2>1. /\ pending' = TRUE /\ Reply("RES", <<"REBOOT_BOOTSEL">>)
        /\ UNCHANGED <<verbosity, gpsPower, clock, offset>>
    BY <1>4 DEF EnterBootloaderMode, ResetFlag
  <2>2. SettingsOK'
    BY <2>1 DEF Asked, SettingsOK, Reply, Replies
  <2>3. Truthful(Build("RES", request.group, request.command, <<"REBOOT_BOOTSEL">>, <<>>),
                 request, verbosity', gpsPower', clock', offset', pending')
    <3>1. PICK f : f = Build("RES", request.group, request.command, <<"REBOOT_BOOTSEL">>, <<>>)
      OBVIOUS
    <3>2. f.value = <<"REBOOT_BOOTSEL">>
      BY <3>1 DEF Build, FrameOf
    <3> QED
      BY <1>1, <2>1, <3>1, <3>2, Truths
  <2>4. "RES" \in Terminal /\ Plain(<<"REBOOT_BOOTSEL">>)
    BY Codes, OneWord DEF Terminal
  <2> QED
    BY <2>1, <2>2, <2>3, <2>4, ReplyAnswers
<1> QED
  BY <1>2, <1>3, <1>4

LEMMA TimeAnswers ==
    ASSUME Asked, Time
    PROVE  Answering
<1>1. Key(request) = <<3, 0>>
  BY DEF Time, Running, Key
<1>2. CASE request.op = "SET"
  <2>1. CASE ~HasParam
    BY <1>2, <2>1, Codes, RefuseAnswers DEF Time
  <2>2. CASE HasParam /\ ~NumberParam
    BY <1>2, <2>2, Codes, RefuseAnswers DEF Time
  <2>3. CASE HasParam /\ NumberParam /\ (Param =< 1742487032 \/ Param >= 1893520044)
    BY <1>2, <2>3, Codes, RefuseAnswers DEF Time
  <2>4. CASE HasParam /\ NumberParam /\ ~(Param =< 1742487032 \/ Param >= 1893520044)
    <3>1. CASE Refuse("FAIL_TO_SET")
      BY <3>1, Codes, RefuseAnswers
    <3>2. CASE ~Refuse("FAIL_TO_SET")
      <4>1. /\ clock' = Param
            /\ \E ok \in Answers : Reply("RES", IF ok THEN <<Word(Param)>> ELSE NotRead)
            /\ UNCHANGED <<verbosity, gpsPower, offset, pending>>
        BY <1>2, <2>4, <3>2 DEF Time
      <4>2. PICK value : Reply("RES", value) /\ (value = <<Word(Param)>> \/ value = NotRead)
        BY <4>1
      <4>3. Plain(value) /\ (value = NotRead \/ Stoi(value) = clock')
        <5>1. Plain(<<Word(Param)>>) /\ Stoi(<<Word(Param)>>) = Param
          BY <2>4, ParamHasWord, NumberWord
        <5>2. Plain(NotRead)
          BY Codes, OneWord DEF NotRead
        <5> QED
          BY <4>1, <4>2, <5>1, <5>2
      <4>4. SettingsOK'
        BY <4>1, <4>2 DEF Asked, SettingsOK, Reply, Replies
      <4>5. Truthful(Build("RES", request.group, request.command, value, <<>>), request,
                     verbosity', gpsPower', clock', offset', pending')
        <5>1. PICK f : f = Build("RES", request.group, request.command, value, <<>>)
          OBVIOUS
        <5>2. f.value = value
          BY <5>1 DEF Build, FrameOf
        <5>3. clock' = Stoi(request.value)
          BY <4>1 DEF Param
        <5> QED
          BY <1>1, <4>3, <5>1, <5>2, <5>3, Truths
      <4>6. "RES" \in Terminal
        BY DEF Terminal
      <4> QED
        BY <4>2, <4>3, <4>4, <4>5, <4>6, ReplyAnswers
    <3> QED
      BY <3>1, <3>2
  <2> QED
    BY <2>1, <2>2, <2>3, <2>4
<1>3. CASE request.op = "GET" /\ HasParam
  BY <1>3, Codes, RefuseAnswers DEF Time
<1>4. CASE request.op = "GET" /\ ~HasParam
  <2>1. PICK ok \in Answers : Reply("VAL", LocalTime(ok)) /\ UNCHANGED settings
    BY <1>4 DEF Time
  <2>2. Plain(LocalTime(ok))
    BY Codes, OneWord DEF LocalTime
  <2> QED
    BY <2>1, <2>2, QuietAnswers
<1>5. CASE request.op \notin {"GET", "SET"}
  BY <1>5, Codes, RefuseAnswers DEF Time
<1> QED
  BY <1>2, <1>3, <1>4, <1>5

LEMMA TimezoneAnswers ==
    ASSUME Asked, TimezoneOffset
    PROVE  Answering
<1>1. Key(request) = <<3, 1>>
  BY DEF TimezoneOffset, Running, Key
<1>2. CASE request.op = "GET" /\ HasParam
  BY <1>2, Codes, RefuseAnswers DEF TimezoneOffset
<1>3. CASE request.op = "GET" /\ ~HasParam
  <2>1. Reply("VAL", <<Word(offset)>>) /\ UNCHANGED settings
    BY <1>3 DEF TimezoneOffset
  <2>2. Plain(<<Word(offset)>>)
    BY NumberWord DEF Asked, SettingsOK
  <2> QED
    BY <2>1, <2>2, QuietAnswers
<1>4. CASE request.op = "SET"
  <2>1. CASE ~HasParam
    BY <1>4, <2>1, Codes, RefuseAnswers DEF TimezoneOffset
  <2>2. CASE HasParam /\ (~NumberParam \/ ~OffsetOK(Int16(Param)))
    BY <1>4, <2>2, Codes, RefuseAnswers DEF TimezoneOffset
  <2>3. CASE HasParam /\ NumberParam /\ OffsetOK(Int16(Param))
    <3>1. PICK n : n = Int16(Param)
      OBVIOUS
    <3>2. n \in -720 .. 720
      BY <2>3, <3>1 DEF OffsetOK
    <3>3. /\ offset' = n /\ Reply("RES", <<Word(n)>>)
          /\ UNCHANGED <<verbosity, gpsPower, clock, pending>>
      BY <1>4, <2>3, <3>1, <3>2 DEF TimezoneOffset, SetTimezoneOffset
    <3>4. HasWord(n)
      <4>1. Head(request.value) \in DOMAIN Number /\ Param = Number[Head(request.value)]
        BY <2>3 DEF NumberParam, IsNumber, Param, Stoi
      <4> QED
        BY <3>1, <3>2, <4>1, PrintAssumption
    <3>5. mode' = mode
      BY <3>3 DEF Reply, Replies
    <3>6. SettingsOK'
      BY <3>3, <3>4, <3>5 DEF Asked, SettingsOK
    <3>7. PICK f : f = Build("RES", request.group, request.command, <<Word(n)>>, <<>>)
      OBVIOUS
    <3>8. f.value = <<Word(n)>>
      BY <3>7 DEF Build, FrameOf
    <3>9. Plain(<<Word(n)>>) /\ Stoi(<<Word(n)>>) = n
      BY <3>4, NumberWord
    <3>10. Truthful(f, request, verbosity', gpsPower', clock', offset', pending')
      BY <1>1, <3>3, <3>8, <3>9, Truths
    <3>11. "RES" \in Terminal
      BY DEF Terminal
    <3> QED
      BY <3>3, <3>6, <3>7, <3>9, <3>10, <3>11, ReplyAnswers
  <2> QED
    BY <2>1, <2>2, <2>3
<1>5. CASE request.op \notin {"GET", "SET"}
  BY <1>5, Codes, RefuseAnswers DEF TimezoneOffset
<1> QED
  BY <1>2, <1>3, <1>4, <1>5

LEMMA GpsPowerAnswers ==
    ASSUME Asked, GpsPowerStatus
    PROVE  Answering
<1>1. Key(request) = <<7, 1>>
  BY DEF GpsPowerStatus, Running, Key
<1>2. CASE request.op = "SET"
  <2>1. CASE ~OnGround
    BY <1>2, <2>1, Codes, RefuseAnswers DEF GpsPowerStatus
  <2>2. CASE OnGround /\ ~HasParam
    BY <1>2, <2>2, Codes, RefuseAnswers DEF GpsPowerStatus
  <2>3. CASE OnGround /\ HasParam /\ (~NumberParam \/ Param \notin {0, 1})
    BY <1>2, <2>3, Codes, RefuseAnswers DEF GpsPowerStatus
  <2>4. CASE OnGround /\ HasParam /\ NumberParam /\ Param \in {0, 1}
    <3>1. PICK n : n = Param
      OBVIOUS
    <3>2. /\ gpsPower' = n /\ Reply("RES", <<Word(n)>>)
          /\ UNCHANGED <<verbosity, clock, offset, pending>>
      BY <1>2, <2>4, <3>1 DEF GpsPowerStatus
    <3>3. HasWord(n)
      BY <2>4, <3>1, ParamHasWord
    <3>4. mode' = mode
      BY <3>2 DEF Reply, Replies
    <3>5. SettingsOK'
      BY <3>2, <3>3, <3>4 DEF Asked, SettingsOK
    <3>6. PICK f : f = Build("RES", request.group, request.command, <<Word(n)>>, <<>>)
      OBVIOUS
    <3>7. f.value = <<Word(n)>>
      BY <3>6 DEF Build, FrameOf
    <3>8. Plain(<<Word(n)>>) /\ Stoi(<<Word(n)>>) = n
      BY <3>3, NumberWord
    <3>9. Truthful(f, request, verbosity', gpsPower', clock', offset', pending')
      BY <1>1, <3>2, <3>7, <3>8, Truths
    <3>10. "RES" \in Terminal
      BY DEF Terminal
    <3> QED
      BY <3>2, <3>5, <3>6, <3>8, <3>9, <3>10, ReplyAnswers
  <2> QED
    BY <2>1, <2>2, <2>3, <2>4
<1>3. CASE request.op = "GET" /\ HasParam
  BY <1>3, Codes, RefuseAnswers DEF GpsPowerStatus
<1>4. CASE request.op = "GET" /\ ~HasParam
  <2>1. Reply("VAL", <<Word(gpsPower)>>) /\ UNCHANGED settings
    BY <1>4 DEF GpsPowerStatus
  <2>2. Plain(<<Word(gpsPower)>>)
    BY NumberWord DEF Asked, SettingsOK
  <2> QED
    BY <2>1, <2>2, QuietAnswers
<1>5. CASE request.op \notin {"GET", "SET"}
  BY <1>5, Codes, RefuseAnswers DEF GpsPowerStatus
<1> QED
  BY <1>2, <1>3, <1>4, <1>5

LEMMA PassthroughAnswers ==
    ASSUME Asked, EnableGpsUartPassthrough
    PROVE  Answering
<1>1. Key(request) = <<7, 2>>
  BY DEF EnableGpsUartPassthrough, Running, Key
<1>2. CASE request.op # "SET" \/ ~OnGround
  BY <1>2, Codes, RefuseAnswers DEF EnableGpsUartPassthrough
<1>3. CASE ~(request.op # "SET" \/ ~OnGround) /\ HasParam /\ ~NumberParam
  BY <1>3, Codes, RefuseAnswers DEF EnableGpsUartPassthrough
<1>4. CASE ~(request.op # "SET" \/ ~OnGround) /\ ~(HasParam /\ ~NumberParam)
  <2>1. /\ core0' = "bridge"
        /\ UNCHANGED <<core1, line, queue, request, outbox, mode, settings, ghosts>>
    BY <1>4 DEF EnableGpsUartPassthrough
  <2>2. SettingsOK'
    BY <2>1, SettingsStay DEF Asked
  <2> QED
    BY <1>1, <2>1, <2>2 DEF Answering
<1> QED
  BY <1>2, <1>3, <1>4

LEMMA BridgeAnswers ==
    ASSUME Asked, Key(request) = <<7, 2>>, NEW reason, reason \notin Marks, BridgeExit(reason)
    PROVE  Answering
<1>1. Reply("RES", <<reason>>) /\ UNCHANGED settings
  BY DEF BridgeExit
<1>2. SettingsOK'
  BY <1>1, SettingsStay DEF Asked, Reply, Replies
<1>3. Truthful(Build("RES", request.group, request.command, <<reason>>, <<>>), request,
               verbosity', gpsPower', clock', offset', pending')
  BY Truths
<1>4. "RES" \in Terminal /\ Plain(<<reason>>)
  BY OneWord DEF Terminal
<1> QED
  BY <1>1, <1>2, <1>3, <1>4, ReplyAnswers


LEMMA ReadingAnswers ==
    ASSUME Asked,
           GetCommandsList \/ GetBuildVersion \/ GetPowerMode \/ GetUptime \/ GetEventCount
    PROVE  Answering
<1>1. CASE GetCommandsList
  <2>1. CASE NotGet
    BY <1>1, <2>1, Codes, RefuseAnswers DEF GetCommandsList, ReadOnly
  <2>2. CASE ~NotGet /\ HasParam
    BY <1>1, <2>2, Codes, RefuseAnswers DEF GetCommandsList, ReadOnly
  <2>3. CASE ~NotGet /\ ~HasParam
    BY <1>1, <2>3, Codes, SeqAnswers DEF GetCommandsList, ReadOnly
  <2> QED
    BY <2>1, <2>2, <2>3
<1>2. CASE GetBuildVersion
  <2>1. Plain(<<"build">>)
    BY Codes, OneWord
  <2> QED
    BY <1>2, <2>1, ReadOnlyAnswers DEF GetBuildVersion
<1>3. CASE GetPowerMode
  <2>1. Plain(<<mode>>)
    BY Codes, OneWord DEF Asked, SettingsOK
  <2> QED
    BY <1>3, <2>1, ReadOnlyAnswers DEF GetPowerMode
<1>4. CASE GetUptime
  <2>1. Plain(<<"uptime">>)
    BY Codes, OneWord
  <2> QED
    BY <1>4, <2>1, ReadOnlyAnswers DEF GetUptime
<1>5. CASE GetEventCount
  <2>1. Plain(<<"count">>)
    BY Codes, OneWord
  <2>2. CASE NotGet \/ HasParam
    BY <1>5, <2>2, Codes, RefuseAnswers DEF GetEventCount
  <2>3. CASE ~(NotGet \/ HasParam)
    BY <1>5, <2>1, <2>3, QuietAnswers DEF GetEventCount
  <2> QED
    BY <2>2, <2>3
<1> QED
  BY <1>1, <1>2, <1>3, <1>4, <1>5

LEMMA LastEventsAnswers ==
    ASSUME Asked, GetLastEvents
    PROVE  Answering
<1>1. CASE NotGet
  BY <1>1, Codes, RefuseAnswers DEF GetLastEvents
<1>2. CASE ~NotGet /\ HasParam /\ ~NumberParam
  BY <1>2, Codes, RefuseAnswers DEF GetLastEvents
<1>3. CASE ~NotGet /\ ~(HasParam /\ ~NumberParam) /\ EventsAsked \notin 0 .. EventBufferSize
  BY <1>3, Codes, RefuseAnswers DEF GetLastEvents
<1>4. CASE ~NotGet /\ ~(HasParam /\ ~NumberParam) /\ EventsAsked \in 0 .. EventBufferSize
  <2>1. PICK pages \in 0 .. ((EventsAsked + 9) \div 10) :
            SeqDone("events", pages) /\ UNCHANGED settings
    BY <1>4 DEF GetLastEvents
  <2>2. pages \in Nat
    OBVIOUS
  <2> QED
    BY <2>1, <2>2, Codes, SeqAnswers
<1> QED
  BY <1>1, <1>2, <1>3, <1>4

\* An answer that is not built with the numbers of the request.
LEMMA FrameAnswers ==
    ASSUME RequestOK(request), SettingsOK, UNCHANGED settings,
           NEW f, Replies(<<f>>), f.op \in {"VAL", "ERR"}, Fitting(f, request)
    PROVE  Answering
<1>1. /\ outbox' = <<f>> /\ core0' = "send"
      /\ UNCHANGED <<core1, line, queue, request, mode, ghosts>>
  BY DEF Replies
<1>2. SettingsOK'
  BY <1>1, SettingsStay
<1>3. Truthful(f, request, verbosity', gpsPower', clock', offset', pending')
  BY DEF Truthful
<1>4. f.op \in Terminal
  BY DEF Terminal
<1>5. Answered(outbox', request, verbosity', gpsPower', clock', offset', pending')
  BY <1>1, <1>3, <1>4, SingleAnswers
<1> QED
  BY <1>1, <1>2, <1>5 DEF Answering

LEMMA TemperatureAnswers ==
    ASSUME Asked, GetInternalTemperature
    PROVE  Answering
<1>1. CASE NotGet \/ HasParam
  BY <1>1, Codes, RefuseAnswers DEF GetInternalTemperature
<1>2. CASE ~(NotGet \/ HasParam)
  <2>1. UNCHANGED settings
    BY <1>2 DEF GetInternalTemperature
  <2>2. CASE Reply("ERR", <<"INTERNAL_FAIL_TO_READ">>)
    <3>1. Plain(<<"INTERNAL_FAIL_TO_READ">>)
      BY Codes, OneWord
    <3> QED
      BY <2>1, <2>2, <3>1, QuietAnswers
  <2>3. CASE ~Reply("ERR", <<"INTERNAL_FAIL_TO_READ">>)
    <3>1. Replies(<<Build("VAL", 3, 4, <<"temperature">>, <<"C">>)>>)
      BY <1>2, <2>3 DEF GetInternalTemperature
    <3>2. PICK f : f = Build("VAL", 3, 4, <<"temperature">>, <<"C">>)
      OBVIOUS
    <3>3. /\ f.op = "VAL" /\ f.group = 3 /\ f.command = 4
          /\ f.value = <<"temperature">> /\ f.unit = <<"C">>
      BY <3>2 DEF Build, FrameOf
    <3>4. request.group = 3 /\ request.command = 4
      BY DEF GetInternalTemperature, Running
    <3>5. Fitting(f, request)
      <4>1. f = Build(f.op, f.group, f.command, f.value, f.unit)
        BY <3>2, <3>3
      <4>2. Plain(f.value) /\ Plain(f.unit)
        BY <3>3, Codes, OneWord
      <4>3. f.op \in Operations
        BY <3>3 DEF Operations
      <4>4. f.group \in 0 .. MaxGroup /\ f.command \in 0 .. MaxCommand
        BY <3>3, <3>4 DEF Asked, RequestOK
      <4>5. Key(f) = Key(request)
        BY <3>3, <3>4 DEF Key
      <4> QED
        BY <4>1, <4>2, <4>3, <4>4, <4>5 DEF Fitting, Asked
    <3> QED
      BY <2>1, <3>1, <3>2, <3>3, <3>5, FrameAnswers DEF Asked
  <2> QED
    BY <2>2, <2>3
<1> QED
  BY <1>1, <1>2

LEMMA LastRecordAnswers ==
    ASSUME Asked, NEW command \in {2, 3}, LastRecord(command)
    PROVE  Answering
<1>1. UNCHANGED settings /\ request.group = 8 /\ request.command = command
  BY DEF LastRecord, Running
<1>2. CASE ~NotGet
  <2>1. Plain(<<"record">>)
    BY Codes, OneWord
  <2> QED
    BY <1>1, <1>2, <2>1, QuietAnswers DEF LastRecord
<1>3. CASE NotGet /\ ~HasParam
  <2>1. Plain(<<"INVALID_OPERATION">>)
    BY Codes, OneWord
  <2> QED
    BY <1>1, <1>3, <2>1, QuietAnswers DEF LastRecord
<1>4. CASE NotGet /\ HasParam
  <2>1. Replies(<<Build("ERR", 8, 2, <<"PARAM_UNNECESSARY">>, <<>>)>>)
    BY <1>4 DEF LastRecord
  <2>2. PICK f : f = Build("ERR", 8, 2, <<"PARAM_UNNECESSARY">>, <<>>)
    OBVIOUS
  <2>3. /\ f.op = "ERR" /\ f.group = 8 /\ f.command = 2
        /\ f.value = <<"PARAM_UNNECESSARY">> /\ f.unit = <<>>
    BY <2>2 DEF Build, FrameOf
  <2>4. Fitting(f, request)
    <3>1. f = Build(f.op, f.group, f.command, f.value, f.unit)
      BY <2>2, <2>3
    <3>2. Plain(f.value) /\ Plain(f.unit)
      BY <2>3, Codes, OneWord, NoWord
    <3>3. f.op \in Operations
      BY <2>3 DEF Operations
    <3>4. f.group \in 0 .. MaxGroup /\ f.command \in 0 .. MaxCommand
      BY <1>1, <2>3, RangeAssumption DEF Asked, RequestOK
    <3>5. Key(f) = <<8, 2>> /\ Key(request) = <<8, command>>
      BY <1>1, <2>3 DEF Key
    <3>6. CASE command = 2
      BY <3>1, <3>2, <3>3, <3>4, <3>5, <3>6 DEF Fitting, Asked
    <3>7. CASE command = 3
      BY <1>4, <3>1, <3>2, <3>3, <3>4, <3>5, <3>7 DEF Fitting, NotGet
    <3> QED
      BY <3>6, <3>7
  <2> QED
    BY <1>1, <2>1, <2>2, <2>3, <2>4, FrameAnswers DEF Asked
<1> QED
  BY <1>2, <1>3, <1>4

LEMMA InvalidAnswers ==
    ASSUME RequestOK(request), SettingsOK, InvalidCommand
    PROVE  Answering
<1>1. UNCHANGED settings /\ Key(request) \notin Known
      /\ Replies(<<Build("ERR", 0, 0, <<"INVALID_COMMAND">>, <<>>)>>)
  BY DEF InvalidCommand, Key
<1>2. PICK f : f = Build("ERR", 0, 0, <<"INVALID_COMMAND">>, <<>>)
  OBVIOUS
<1>3. /\ f.op = "ERR" /\ f.group = 0 /\ f.command = 0
      /\ f.value = <<"INVALID_COMMAND">> /\ f.unit = <<>>
  BY <1>2 DEF Build, FrameOf
<1>4. Fitting(f, request)
  <2>1. f = Build(f.op, f.group, f.command, f.value, f.unit)
    BY <1>2, <1>3
  <2>2. Plain(f.value) /\ Plain(f.unit)
    BY <1>3, Codes, OneWord, NoWord
  <2>3. f.op \in Operations
    BY <1>3 DEF Operations
  <2>4. f.group \in 0 .. MaxGroup /\ f.command \in 0 .. MaxCommand
    BY <1>3, RangeAssumption
  <2>5. Key(f) = <<0, 0>>
    BY <1>3 DEF Key
  <2> QED
    BY <1>1, <2>1, <2>2, <2>3, <2>4, <2>5 DEF Fitting
<1> QED
  BY <1>1, <1>2, <1>3, <1>4, FrameAnswers

LEMMA ExecuteAnswers ==
    ASSUME RequestOK(request), SettingsOK, Execute
    PROVE  Answering
<1>1. CASE Key(request) \in Known
  <2>1. Asked
    BY <1>1 DEF Asked
  <2>2. ~InvalidCommand
    BY <1>1 DEF InvalidCommand, Key
  <2> QED
    BY <2>1, <2>2, ReadingAnswers, VerbosityAnswers, BootloaderAnswers, TimeAnswers,
       TimezoneAnswers, TemperatureAnswers, LastEventsAnswers, GpsPowerAnswers,
       PassthroughAnswers, LastRecordAnswers
       DEF Execute, GetLastTelemetryRecord, GetLastSensorRecord
<1>2. CASE Key(request) \notin Known
  <2>1. ASSUME NEW g, NEW c, Running(g, c)
        PROVE  <<g, c>> \notin Known
    BY <1>2, <2>1 DEF Running, Key
  <2>2. InvalidCommand
    BY <2>1 DEF Execute, GetCommandsList, GetBuildVersion, GetPowerMode, GetUptime,
       Verbosity, EnterBootloaderMode, Time, TimezoneOffset, GetInternalTemperature,
       GetLastEvents, GetEventCount, GpsPowerStatus, EnableGpsUartPassthrough,
       GetLastTelemetryRecord, GetLastSensorRecord, LastRecord, ReadOnly, Known
  <2> QED
    BY <2>2, InvalidAnswers
<1> QED
  BY <1>1, <1>2


-----------------------------------------------------------------------------
(* The inductive invariant.                                                *)

CommandsInv == TextOK /\ AnswersOK

LEMMA InitCommandsInv == Init => CommandsInv
<1> SUFFICES ASSUME Init PROVE CommandsInv
  OBVIOUS
<1>1. TextOK
  BY InitText
<1>2. AnswersOK
  BY PrintAssumption DEF Init, AnswersOK, SettingsOK
<1> QED
  BY <1>1, <1>2 DEF CommandsInv

LEMMA AnsweringKeeps ==
    ASSUME CommandsInv, core0 \in {"execute", "bridge"}, Answering
    PROVE  CommandsInv'
<1>1. /\ line' = line /\ queue' = queue /\ request' = request
      /\ pieces' = pieces /\ whole' = whole /\ handled' = handled /\ missed' = missed
      /\ core0' \in {"send", "bridge"}
  BY DEF Answering, ghosts
<1>2. TextOK'
  BY <1>1 DEF CommandsInv, TextOK
<1>3. AnswersOK'
  BY <1>1 DEF Answering, AnswersOK
<1> QED
  BY <1>2, <1>3 DEF CommandsInv

LEMMA SendKeeps ==
    ASSUME CommandsInv, SendReply
    PROVE  CommandsInv'
<1>1. /\ core0 = "send" /\ outbox' = Tail(outbox) /\ line' = line /\ mode' = mode
      /\ UNCHANGED settings
  BY DEF SendReply
<1>2. SettingsOK'
  BY <1>1, SettingsStay DEF CommandsInv, AnswersOK
<1>3. /\ ~missed /\ line = <<>> /\ queue # <<>> /\ Queued(queue, handled, pieces, whole)
      /\ request = Decode(Head(queue))
  BY <1>1 DEF CommandsInv, TextOK
<1>4. CASE Len(outbox) > 1
  <2>1. core0' = core0 /\ queue' = queue /\ request' = request /\ UNCHANGED ghosts
    BY <1>4 DEF SendReply
  <2>2. TextOK'
    BY <1>1, <2>1 DEF CommandsInv, TextOK, ghosts
  <2>3. Answered(outbox, request, verbosity, gpsPower, clock, offset, pending)
    BY <1>1 DEF CommandsInv, AnswersOK
  <2>4. PICK S, out : outbox = out /\ out \in Seq(S) /\ Len(out) > 1
    BY <1>4, <2>3 DEF Answered
  <2>5. /\ Tail(out) \in Seq(S) /\ Len(Tail(out)) = Len(out) - 1 /\ Tail(out) # <<>>
        /\ \A i \in 1 .. Len(Tail(out)) : Tail(out)[i] = out[i + 1]
    <3>1. Tail(out) \in Seq(S) /\ Len(Tail(out)) = Len(out) - 1
      BY <2>4, HeadTailProperties
    <3>2. \A i \in 1 .. Len(Tail(out)) : Tail(out)[i] = out[i + 1]
      BY <2>4, HeadTailProperties
    <3>3. Tail(out) # <<>>
      <4>1. PICK t : t = Tail(out)
        OBVIOUS
      <4>2. Len(t) # 0
        <5>1. PICK n : n = Len(out)
          OBVIOUS
        <5>2. n \in Nat /\ n > 1
          <6>1. Len(out) \in Nat
            BY <2>4, LenProperties
          <6> QED
            BY <2>4, <5>1, <6>1, Zenon
        <5>3. n - 1 # 0
          BY <5>2
        <5>4. Len(t) = n - 1
          BY <3>1, <4>1, <5>1, Zenon
        <5> QED
          BY <5>3, <5>4
      <4>3. t # <<>>
        BY <4>2
      <4> QED
        BY <4>1, <4>3
    <3> QED
      BY <3>1, <3>2, <3>3, Zenon
  <2>6. Answered(outbox', request, verbosity, gpsPower, clock, offset, pending)
    <3>1. PICK rest : rest = Tail(out)
      OBVIOUS
    <3>2. ASSUME NEW i \in 1 .. Len(rest)
          PROVE  Fitting(rest[i], request) /\ (rest[i].op \in Terminal <=> i = Len(rest))
      <4>1. rest[i] = out[i + 1] /\ i + 1 \in 1 .. Len(out)
            /\ (i = Len(rest) <=> i + 1 = Len(out))
        BY <2>4, <2>5, <3>1
      <4> QED
        BY <2>3, <2>4, <4>1 DEF Answered
    <3>3. Len(rest) \in 1 .. Len(rest) /\ rest[Len(rest)] = out[Len(out)]
      BY <2>4, <2>5, <3>1
    <3>4. Truthful(rest[Len(rest)], request, verbosity, gpsPower, clock, offset, pending)
      BY <2>3, <2>4, <3>3 DEF Answered
    <3>5. rest # <<>> /\ outbox' = rest /\ \E T : rest \in Seq(T)
      BY <1>1, <2>4, <2>5, <3>1
    <3> QED
      BY <3>2, <3>4, <3>5, Zenon DEF Answered
  <2>7. AnswersOK'
    BY <1>1, <1>2, <2>1, <2>6 DEF AnswersOK, settings
  <2> QED
    BY <2>2, <2>7 DEF CommandsInv
<1>5. CASE ~(Len(outbox) > 1)
  <2>1. PICK r : r = Tail(queue)
    OBVIOUS
  <2>2. /\ queue' = r /\ core0' = (IF r = <<>> THEN "idle" ELSE "decode")
        /\ IF r = <<>> THEN LineDone(handled + 1)
           ELSE handled' = handled + 1 /\ UNCHANGED <<pieces, whole, missed>>
    BY <1>5, <2>1 DEF SendReply, Rest
  <2>3. /\ Queued(r, handled + 1, pieces, whole)
        /\ r = <<>> /\ Unbroken(pieces) => handled + 1 = Len(whole)
    BY <1>3, <2>1, QueuedNext
  <2>4. TextOK'
    <3>1. CASE r = <<>>
      <4>1. /\ core0' = "idle" /\ line' = <<>>
            /\ pieces' = <<>> /\ whole' = <<>> /\ handled' = 0
            /\ missed' = (missed \/ (Undamaged /\ handled + 1 # Len(whole)))
        BY <1>1, <1>3, <2>2, <3>1 DEF LineDone
      <4>2. ~missed'
        BY <1>3, <2>3, <3>1, <4>1 DEF Undamaged, Unbroken
      <4> QED
        BY <4>1, <4>2, HeardNothing DEF TextOK
    <3>2. CASE r # <<>>
      BY <1>1, <1>3, <2>2, <2>3, <3>2 DEF TextOK
    <3> QED
      BY <3>1, <3>2
  <2>5. AnswersOK'
    BY <1>2, <2>2 DEF AnswersOK
  <2> QED
    BY <2>4, <2>5 DEF CommandsInv
<1> QED
  BY <1>4, <1>5

LEMMA StepCommandsInv ==
    ASSUME CommandsInv, [Next]_vars
    PROVE  CommandsInv'
<1>1. CASE Receive
  <2>1. TextOK'
    BY <1>1, ReceiveText DEF CommandsInv
  <2>2. /\ UNCHANGED <<settings, mode>> /\ core0 = "idle"
        /\ core0' \in {"idle", "decode"}
    <3>1. ASSUME NEW text, NEW kind, NEW frames, Arrives(text, kind, frames)
          PROVE  /\ UNCHANGED <<settings, mode>> /\ core0 = "idle"
                 /\ core0' \in {"idle", "decode"}
      BY <3>1 DEF Arrives, Listening
    <3> QED
      BY <1>1, <3>1 DEF Receive, UartFrame, UartBegin, UartEnd, UartEndOfLine, LoraPacket,
         Listening, Process
  <2>3. AnswersOK'
    BY <2>2, SettingsStay DEF CommandsInv, AnswersOK
  <2> QED
    BY <2>1, <2>3 DEF CommandsInv
<1>2. CASE FrameDecode
  <2>1. /\ core0 = "decode" /\ core0' = "execute" /\ request' = Decode(Head(queue))
        /\ UNCHANGED <<core1, line, queue, outbox, mode, settings, ghosts>>
    BY <1>2 DEF FrameDecode, Decode
  <2>2. SettingsOK'
    BY <2>1, SettingsStay DEF CommandsInv, AnswersOK
  <2>3. TextOK'
    BY <2>1 DEF CommandsInv, TextOK, ghosts
  <2> QED
    BY <2>1, <2>2, <2>3 DEF CommandsInv, AnswersOK
<1>3. CASE Execute
  <2>1. core0 = "execute"
    BY <1>3 DEF Execute, GetCommandsList, GetBuildVersion, GetPowerMode, GetUptime,
       Verbosity, EnterBootloaderMode, Time, TimezoneOffset, GetInternalTemperature,
       GetLastEvents, GetEventCount, GpsPowerStatus, EnableGpsUartPassthrough,
       GetLastTelemetryRecord, GetLastSensorRecord, LastRecord, ReadOnly, InvalidCommand,
       Running
  <2>2. RequestOK(request) /\ SettingsOK
    BY <2>1, WhatIsExecuted DEF CommandsInv, AnswersOK
  <2> QED
    BY <1>3, <2>1, <2>2, ExecuteAnswers, AnsweringKeeps
<1>4. CASE UserExit \/ BridgeTimeout
  <2>1. core0 = "bridge"
    BY <1>4 DEF UserExit, BridgeTimeout, BridgeExit
  <2>2. RequestOK(request) /\ SettingsOK /\ Key(request) = <<7, 2>>
    BY <2>1, WhatIsExecuted DEF CommandsInv, AnswersOK
  <2>3. <<7, 2>> \in Known
    BY DEF Known
  <2>4. Asked
    BY <2>2, <2>3 DEF Asked
  <2>5. Answering
    BY <1>4, <2>2, <2>4, Codes, BridgeAnswers DEF UserExit, BridgeTimeout
  <2> QED
    BY <2>1, <2>5, AnsweringKeeps
<1>5. CASE SendReply
  BY <1>5, SendKeeps
<1>6. CASE NoticeReset \/ ResetUsbBoot \/ Booted \/ UNCHANGED vars
  <2>1. UNCHANGED <<core0, line, queue, request, outbox, mode, settings, ghosts>>
    BY <1>6 DEF NoticeReset, ResetUsbBoot, Booted, Others, vars
  <2>2. SettingsOK'
    BY <2>1, SettingsStay DEF CommandsInv, AnswersOK
  <2>3. TextOK'
    BY <2>1 DEF CommandsInv, TextOK, ghosts
  <2>4. AnswersOK'
    BY <2>1, <2>2 DEF CommandsInv, AnswersOK, settings
  <2> QED
    BY <2>3, <2>4 DEF CommandsInv
<1> QED
  BY <1>1, <1>2, <1>3, <1>4, <1>5, <1>6 DEF Next

LEMMA AlwaysCommandsInv == Spec => []CommandsInv
BY InitCommandsInv, StepCommandsInv, PTL DEF Spec

\* Whatever decodes was sent, whole, and frames that arrive whole are executed one by
\* one in the order in which they were sent, none left out, also behind the end of a
\* frame whose beginning was lost: extract_and_process_frames and frame_decode.
THEOREM WholeFrames == Spec => []WholeFramesExecuted
<1>1. CommandsInv => WholeFramesExecuted
  <2> SUFFICES ASSUME CommandsInv PROVE WholeFramesExecuted
    OBVIOUS
  <2>1. NothingInvented
    <3> SUFFICES ASSUME core0 \notin {"idle", "decode"}, Key(request) \in Known
                 PROVE  \E i \in 1 .. Len(whole) : whole[i] = Head(queue)
      BY DEF NothingInvented
    <3> QED
      BY WhatIsExecuted DEF CommandsInv
  <2>2. NoneLeftOut
    BY DEF CommandsInv, TextOK, NoneLeftOut, Queued, Undamaged, Unbroken
  <2> QED
    BY <2>1, <2>2 DEF WholeFramesExecuted
<1> QED
  BY <1>1, AlwaysCommandsInv, PTL

LEMMA FittingIsRead ==
    ASSUME NEW f, NEW r, Fitting(f, r)
    PROVE  LET g == Decode(Encode(f)) IN
           /\ <<g.op, g.value>> = <<f.op, f.value>>
           /\ \/ Key(g) = (IF Key(r) \in Known THEN Key(r) ELSE <<0, 0>>)
              \/ Key(r) = <<8, 3>> /\ r.op # "GET"
<1>1. f.direction = 1
  BY DEF Fitting, Build, FrameOf
<1>2. HasWord(1) /\ HasWord(f.group) /\ HasWord(f.command)
  BY WordAssumption, PrintAssumption DEF Fitting
<1>3. f.op \notin Marks
  BY DEF Fitting, Operations, Marks, FRAME_BEGIN, FRAME_END, DELIMITER
<1>4. Written(f)
  BY <1>1, <1>2, <1>3, WordIs DEF Written, Fitting
<1>5. PICK g : g = Decode(Encode(f))
  OBVIOUS
<1>6. 1 \in 0 .. 1 /\ f.op \in Operations
      /\ f.group \in 0 .. MaxGroup /\ f.command \in 0 .. MaxCommand
  BY DEF Fitting
<1>7. g.op = f.op /\ g.group = f.group /\ g.command = f.command /\ g.value = f.value
  BY <1>1, <1>2, <1>4, <1>5, <1>6, ReadsBack
<1>8. Key(g) = Key(f)
  BY <1>7 DEF Key
<1> QED
  BY <1>5, <1>7, <1>8 DEF Fitting

\* The ground station can tell where an answer ends, and every frame of it is readable by
\* the satellite's own rules under the number of the command that was asked: the handlers
\* of lib/comms/commands, frame_build, frame_encode and frame_decode.
THEOREM Readable == Spec => []AnswersReadable
<1>1. CommandsInv => AnswersReadable
  <2> SUFFICES ASSUME CommandsInv, core0 = "send" PROVE AnswersReadable
    BY DEF AnswersReadable
  <2>1. Answered(outbox, request, verbosity, gpsPower, clock, offset, pending)
    BY DEF CommandsInv, AnswersOK
  <2>2. \A i \in 1 .. Len(outbox) :
            Fitting(outbox[i], request) /\ (outbox[i].op \in Terminal <=> i = Len(outbox))
    BY <2>1 DEF Answered
  <2> QED
    BY <2>2, FittingIsRead DEF AnswersReadable
<1> QED
  BY <1>1, AlwaysCommandsInv, PTL

\* A RES reply tells the truth: when it is sent the setting has the value that it gives,
\* or was asked for where it gives none, whatever the conversions and the ranges of the
\* numbers do; a clock that cannot be read back is set all the same.
THEOREM Truth == Spec => []ConfirmedMeansDone
<1>1. CommandsInv => ConfirmedMeansDone
  <2> SUFFICES ASSUME CommandsInv, core0 = "send", outbox[1].op = "RES"
               PROVE  ConfirmedMeansDone
    BY DEF ConfirmedMeansDone
  <2>1. Answered(outbox, request, verbosity, gpsPower, clock, offset, pending)
    BY DEF CommandsInv, AnswersOK
  <2>2. 1 \in 1 .. Len(outbox) /\ "RES" \in Terminal
    BY <2>1 DEF Answered, Terminal
  <2>3. Len(outbox) = 1
    BY <2>1, <2>2 DEF Answered
  <2>4. PICK f : /\ outbox[1] = f /\ f.op = "RES"
                 /\ Truthful(f, request, verbosity, gpsPower, clock, offset, pending)
    BY <2>1, <2>3 DEF Answered
  <2> QED
    BY <2>4 DEF Truthful, ConfirmedMeansDone, Param
<1> QED
  BY <1>1, AlwaysCommandsInv, PTL

\* Only a frame that the ground station sent as a SET, and that arrived whole, changes a
\* setting: the tests of the operation in the handlers, and what frame_decode takes for a
\* SET.
THEOREM OnlySets == Spec => OnlySetChanges
<1>1. ASSUME CommandsInv, [Next]_vars, settings' # settings
      PROVE  core0 = "execute" /\ request.op = "SET" /\ Key(request) \in Known
  <2>1. CASE Execute
    <3>1. CASE Verbosity \/ EnterBootloaderMode \/ Time \/ TimezoneOffset \/ GpsPowerStatus
      <4>1. core0 = "execute" /\ Key(request) \in {<<1, 8>>, <<1, 9>>, <<3, 0>>, <<3, 1>>, <<7, 1>>}
        BY <3>1 DEF Verbosity, EnterBootloaderMode, Time, TimezoneOffset, GpsPowerStatus,
           Running, Key
      <4>2. Key(request) \in Known
        BY <4>1 DEF Known
      <4>3. request.op = "SET"
        BY <1>1, <3>1 DEF Verbosity, EnterBootloaderMode, Time, TimezoneOffset,
           GpsPowerStatus, Refuse
      <4> QED
        BY <4>1, <4>2, <4>3
    <3>2. CASE ~(Verbosity \/ EnterBootloaderMode \/ Time \/ TimezoneOffset \/ GpsPowerStatus)
      <4>1. UNCHANGED settings
        BY <2>1, <3>2 DEF Execute, GetCommandsList, GetBuildVersion, GetPowerMode, GetUptime,
           GetInternalTemperature, GetLastEvents, GetEventCount, EnableGpsUartPassthrough,
           GetLastTelemetryRecord, GetLastSensorRecord, LastRecord, ReadOnly, InvalidCommand,
           Refuse
      <4> QED
        BY <1>1, <4>1
    <3> QED
      BY <3>1, <3>2
  <2>2. CASE ~Execute
    <3>1. UNCHANGED settings
      BY <1>1, <2>2 DEF Next, Receive, UartFrame, UartBegin, UartEnd, Arrives, UartEndOfLine,
         LoraPacket, FrameDecode, UserExit, BridgeTimeout, BridgeExit, SendReply,
         NoticeReset, ResetUsbBoot, Booted, Others, vars
    <3> QED
      BY <1>1, <3>1
  <2> QED
    BY <2>1, <2>2
<1>2. ASSUME CommandsInv, [Next]_vars, settings' # settings
      PROVE  /\ Head(queue) \in SetTexts
             /\ \E i \in 1 .. Len(whole) : whole[i] = Head(queue)
  <2>1. core0 = "execute" /\ request.op = "SET" /\ Key(request) \in Known
    BY <1>1, <1>2
  <2>2. PICK i \in 1 .. Len(whole), f \in Requests :
            /\ whole[i] = Head(queue) /\ Head(queue) = Encode(f)
            /\ request.op = OperationOf(<<f.op>>)
    BY <1>2, <2>1, WhatIsExecuted DEF CommandsInv
  <2>3. f.op = "SET"
    BY <2>1, <2>2 DEF OperationOf
  <2>4. Head(queue) \in SetTexts
    BY <2>2, <2>3 DEF SetTexts, Texts
  <2> QED
    BY <2>2, <2>4
<1>3. CommandsInv /\ [Next]_vars => [settings' # settings =>
          /\ Head(queue) \in SetTexts
          /\ \E i \in 1 .. Len(whole) : whole[i] = Head(queue)]_vars
  BY <1>2
<1> QED
  BY <1>3, AlwaysCommandsInv, PTL DEF Spec, OnlySetChanges
=============================================================================
