----------------------- MODULE TelemetryManagerProofs -----------------------
(***************************************************************************)
(* Theorems about TelemetryManager, for all sizes of the buffer, flush       *)
(* thresholds and numbers of restarts, with or without storage faults; and    *)
(* about the loop of core 1 that calls it, for every sample interval, across  *)
(* every wrap of the millisecond clock, for all thresholds and all samples.   *)
(***************************************************************************)
EXTENDS TelemetryManager, Sampling, SequenceTheorems, TLAPS

-----------------------------------------------------------------------------
(* Sequences.                                                              *)

\* A part of a sequence, as an element-wise statement.
LEMMA Cut ==
    ASSUME NEW s \in Seq(Nat), NEW a \in Nat, NEW b \in Nat, a =< b, b =< Len(s)
    PROVE  /\ SubSeq(s, a + 1, b) \in Seq(Nat) /\ Len(SubSeq(s, a + 1, b)) = b - a
           /\ \A i \in 1 .. (b - a) : SubSeq(s, a + 1, b)[i] = s[a + i]
<1>1. Len(s) \in Nat /\ \A i \in 1 .. Len(s) : s[i] \in Nat
  BY LenProperties, ElementOfSeq
<1>2. \A i \in a + 1 .. b : s[i] \in Nat
  BY <1>1
<1>3. SubSeq(s, a + 1, b) = [i \in 1 .. (b - a) |-> s[a + i]]
  BY <1>1
<1>4. [i \in 1 .. (b - a) |-> s[a + i]] \in [1 .. (b - a) -> Nat]
  BY <1>1
<1>5. b - a \in Nat
  BY <1>1
<1>6. SubSeq(s, a + 1, b) \in Seq(Nat)
  BY <1>3, <1>4, <1>5, SeqDef
<1>7. Len(SubSeq(s, a + 1, b)) = b - a
  BY <1>3, <1>4, <1>5, <1>6, LenProperties
<1> QED
  BY <1>3, <1>6, <1>7

\* What this boot has added, after some more was appended.
LEMMA AddedAppend ==
    ASSUME NEW rows \in Seq(Nat), NEW old \in Seq(Nat), NEW more \in Seq(Nat),
           Len(old) =< Len(rows)
    PROVE  Added(rows \o more, old) = Added(rows, old) \o more
<1> DEFINE all == rows \o more
           left == SubSeq(all, Len(old) + 1, Len(all))
           some == SubSeq(rows, Len(old) + 1, Len(rows))
           right == some \o more
<1>1. Len(old) \in Nat /\ Len(rows) \in Nat /\ Len(more) \in Nat
  BY LenProperties
<1>2. /\ all \in Seq(Nat) /\ Len(all) = Len(rows) + Len(more)
      /\ \A i \in 1 .. Len(rows) + Len(more) :
            all[i] = IF i =< Len(rows) THEN rows[i] ELSE more[i - Len(rows)]
  BY ConcatProperties
<1> HIDE DEF all
<1>3. /\ left \in Seq(Nat) /\ Len(left) = Len(all) - Len(old)
      /\ \A i \in 1 .. (Len(all) - Len(old)) : left[i] = all[Len(old) + i]
  <2> DEFINE a == Len(old)
             b == Len(all)
  <2>1. a \in Nat /\ b \in Nat /\ a =< b /\ b =< Len(all) /\ all \in Seq(Nat)
    BY <1>1, <1>2
  <2>2. /\ SubSeq(all, a + 1, b) \in Seq(Nat) /\ Len(SubSeq(all, a + 1, b)) = b - a
        /\ \A i \in 1 .. (b - a) : SubSeq(all, a + 1, b)[i] = all[a + i]
    <3> HIDE DEF a, b
    <3> QED
      BY <2>1, Cut
  <2> QED
    BY <2>2, Zenon
<1>4. /\ some \in Seq(Nat) /\ Len(some) = Len(rows) - Len(old)
      /\ \A i \in 1 .. (Len(rows) - Len(old)) : some[i] = rows[Len(old) + i]
  BY <1>1, Cut
<1> HIDE DEF left, some
<1>5. /\ right \in Seq(Nat) /\ Len(right) = Len(some) + Len(more)
      /\ \A i \in 1 .. Len(some) + Len(more) :
            right[i] = IF i =< Len(some) THEN some[i] ELSE more[i - Len(some)]
  BY <1>4, ConcatProperties
<1> HIDE DEF right
<1>6. Len(left) = Len(right) /\ \A i \in 1 .. Len(left) : left[i] = right[i]
  <2>1. Len(left) = Len(right)
    BY <1>1, <1>2, <1>3, <1>4, <1>5
  <2>2. ASSUME NEW i \in 1 .. Len(left)
        PROVE  left[i] = right[i]
    <3>1. i \in Nat /\ i \in 1 .. (Len(all) - Len(old)) /\ i \in 1 .. Len(some) + Len(more)
          /\ Len(old) + i \in 1 .. Len(rows) + Len(more)
      BY <1>1, <1>2, <1>3, <1>4, <1>5
    <3>2. left[i] = all[Len(old) + i]
      BY <1>3, <3>1
    <3>3. CASE i =< Len(some)
      <4>1. right[i] = some[i] /\ i \in 1 .. (Len(rows) - Len(old))
        BY <1>4, <1>5, <3>1, <3>3
      <4>2. some[i] = rows[Len(old) + i]
        BY <1>4, <4>1
      <4>3. Len(old) + i =< Len(rows)
        BY <1>1, <4>1
      <4>4. all[Len(old) + i] = rows[Len(old) + i]
        BY <1>2, <3>1, <4>3
      <4> QED
        BY <3>2, <4>1, <4>2, <4>4
    <3>4. CASE ~(i =< Len(some))
      <4>1. left[i] = more[Len(old) + i - Len(rows)]
        <5>1. ~(Len(old) + i =< Len(rows))
          BY <1>1, <1>4, <3>1, <3>4
        <5>2. \A k \in 1 .. Len(rows) + Len(more) :
                 ~(k =< Len(rows)) => all[k] = more[k - Len(rows)]
          BY <1>2
        <5>3. all[Len(old) + i] = more[Len(old) + i - Len(rows)]
          BY <3>1, <5>1, <5>2
        <5> QED
          BY <3>2, <5>3
      <4>2. right[i] = more[i - Len(some)]
        BY <1>5, <3>1, <3>4
      <4>3. Len(old) + i - Len(rows) = i - Len(some)
        BY <1>1, <1>4, <3>1
      <4> QED
        BY <4>1, <4>2, <4>3
    <3> QED
      BY <3>3, <3>4
  <2> QED
    BY <2>1, <2>2
<1>7. left = right
  BY <1>3, <1>5, <1>6, SeqEqual
<1> QED
  BY <1>7 DEF left, right, some, all, Added

LEMMA AddedType ==
    ASSUME NEW rows \in Seq(Nat), NEW old \in Seq(Nat)
    PROVE  Added(rows, old) \in Seq(Nat)
<1>1. \A i \in (Len(old) + 1) .. Len(rows) : rows[i] \in Nat
  BY ElementOfSeq, LenProperties
<1> QED
  BY <1>1, SubSeqProperties, LenProperties DEF Added

LEMMA AddedNothing ==
    ASSUME NEW rows \in Seq(Nat), NEW old \in Seq(Nat), Len(rows) =< Len(old)
    PROVE  Added(rows, old) = <<>>
<1>1. Len(old) \in Nat /\ Len(rows) \in Nat
  BY LenProperties
<1> QED
  BY <1>1, SubSeqEmpty DEF Added

\* A function on 1 .. n is a sequence.
LEMMA NumbersType ==
    ASSUME NEW a \in Nat, NEW b \in Nat, a =< b
    PROVE  /\ Numbers(a, b) \in Seq(Nat) /\ Len(Numbers(a, b)) = b - a
           /\ \A i \in 1 .. (b - a) : Numbers(a, b)[i] = a + i
<1>1. Numbers(a, b) \in [1 .. (b - a) -> Nat] /\ b - a \in Nat
  BY DEF Numbers
<1>2. Numbers(a, b) \in Seq(Nat)
  BY <1>1, SeqDef
<1>3. Len(Numbers(a, b)) = b - a
  BY <1>1, <1>2, LenProperties
<1> QED
  BY <1>2, <1>3 DEF Numbers

LEMMA NumbersSelf ==
    ASSUME NEW n \in Nat
    PROVE  Numbers(n, n) = <<>>
<1>1. Numbers(n, n) \in Seq(Nat) /\ Len(Numbers(n, n)) = n - n
  BY NumbersType
<1>2. n - n = 0
  OBVIOUS
<1> QED
  BY <1>1, <1>2, EmptySeq

LEMMA NumbersConcat ==
    ASSUME NEW a \in Nat, NEW b \in Nat, NEW c \in Nat, a =< b, b =< c
    PROVE  Numbers(a, b) \o Numbers(b, c) = Numbers(a, c)
<1> DEFINE s == Numbers(a, b)
           t == Numbers(b, c)
           u == Numbers(a, c)
<1>1. /\ s \in Seq(Nat) /\ Len(s) = b - a /\ \A i \in 1 .. (b - a) : s[i] = a + i
  BY NumbersType
<1>2. /\ t \in Seq(Nat) /\ Len(t) = c - b /\ \A i \in 1 .. (c - b) : t[i] = b + i
  BY NumbersType
<1>3. /\ u \in Seq(Nat) /\ Len(u) = c - a /\ \A i \in 1 .. (c - a) : u[i] = a + i
  <2>1. a =< c
    OBVIOUS
  <2> QED
    BY <2>1, NumbersType
<1> HIDE DEF s, t, u
<1> DEFINE v == s \o t
<1>4. /\ v \in Seq(Nat) /\ Len(v) = Len(s) + Len(t)
      /\ \A i \in 1 .. Len(s) + Len(t) : v[i] = IF i =< Len(s) THEN s[i] ELSE t[i - Len(s)]
  BY <1>1, <1>2, ConcatProperties
<1> HIDE DEF v
<1>5. Len(v) = Len(u)
  BY <1>1, <1>2, <1>3, <1>4
<1>6. ASSUME NEW i \in 1 .. Len(v)
      PROVE  v[i] = u[i]
  <2>1. i \in 1 .. Len(s) + Len(t) /\ i \in 1 .. (c - a)
    BY <1>1, <1>2, <1>4
  <2>2. CASE i =< Len(s)
    BY <1>1, <1>3, <1>4, <2>1, <2>2
  <2>3. CASE ~(i =< Len(s))
    <3>1. i - Len(s) \in 1 .. (c - b)
      BY <1>1, <1>2, <2>1, <2>3
    <3>2. v[i] = t[i - Len(s)]
      BY <1>4, <2>1, <2>3
    <3> QED
      BY <1>1, <1>2, <1>3, <2>1, <3>1, <3>2
  <2> QED
    BY <2>2, <2>3
<1>7. v = u
  BY <1>3, <1>4, <1>5, <1>6, SeqEqual
<1> QED
  BY <1>7 DEF s, t, u, v

\* Rows in the order of their numbers, none twice, all up to n.
Increasing(s) == \A i \in 1 .. (Len(s) - 1) : s[i] < s[i + 1]
UpTo(s, n) == \A i \in 1 .. Len(s) : s[i] =< n

LEMMA Neighbours ==
    ASSUME NEW m \in Nat, NEW n \in Nat, m =< n, NEW i \in 1 .. (m - 1)
    PROVE  i \in 1 .. (n - 1) /\ i \in 1 .. m /\ i + 1 \in 1 .. m
  OBVIOUS

LEMMA OrderedPrefix ==
    ASSUME NEW v \in Seq(Nat), NEW w \in Seq(Nat), NEW b \in Nat, Len(v) =< Len(w),
           \A i \in 1 .. Len(v) : v[i] = w[i], Increasing(w), UpTo(w, b)
    PROVE  Increasing(v) /\ UpTo(v, b)
<1>1. Len(v) \in Nat /\ Len(w) \in Nat
  BY LenProperties
<1>2. UpTo(v, b)
  BY <1>1 DEF UpTo
<1>3. ASSUME NEW i \in 1 .. (Len(v) - 1)
      PROVE  v[i] < v[i + 1]
  <2>1. i \in 1 .. (Len(w) - 1) /\ i \in 1 .. Len(v) /\ i + 1 \in 1 .. Len(v)
    BY <1>1, Neighbours
  <2>2. w[i] < w[i + 1]
    BY <2>1 DEF Increasing
  <2>3. v[i] = w[i] /\ v[i + 1] = w[i + 1]
    BY <2>1
  <2> QED
    BY <2>2, <2>3
<1> QED
  BY <1>2, <1>3 DEF Increasing

LEMMA IncreasingConcat ==
    ASSUME NEW s \in Seq(Nat), NEW a \in Nat, NEW b \in Nat, a =< b,
           Increasing(s), UpTo(s, a)
    PROVE  Increasing(s \o Numbers(a, b)) /\ UpTo(s \o Numbers(a, b), b)
<1> DEFINE t == Numbers(a, b)
<1>1. t \in Seq(Nat) /\ Len(t) = b - a /\ \A i \in 1 .. (b - a) : t[i] = a + i
  BY NumbersType
<1>2. Len(s) \in Nat /\ \A i \in 1 .. Len(s) : s[i] \in Nat
  BY LenProperties, ElementOfSeq
<1> HIDE DEF t
<1>3. /\ Len(s \o t) = Len(s) + Len(t)
      /\ \A i \in 1 .. Len(s) + Len(t) : (s \o t)[i] = IF i =< Len(s) THEN s[i] ELSE t[i - Len(s)]
  BY <1>1, ConcatProperties
<1>4. UpTo(s \o t, b)
  <2>1. SUFFICES ASSUME NEW i \in 1 .. Len(s \o t)
                 PROVE  (s \o t)[i] =< b
    BY DEF UpTo
  <2>2. CASE i =< Len(s)
    <3>1. i \in 1 .. Len(s) /\ (s \o t)[i] = s[i]
      BY <1>1, <1>2, <1>3, <2>2
    <3>2. s[i] \in Nat /\ s[i] =< a
      BY <1>2, <3>1 DEF UpTo
    <3> QED
      BY <3>1, <3>2
  <2>3. CASE ~(i =< Len(s))
    <3>1. i - Len(s) \in 1 .. (b - a) /\ (s \o t)[i] = t[i - Len(s)]
      BY <1>1, <1>2, <1>3, <2>3
    <3>2. t[i - Len(s)] = a + (i - Len(s))
      BY <1>1, <3>1
    <3> QED
      BY <3>1, <3>2
  <2> QED
    BY <2>2, <2>3
<1>5. Increasing(s \o t)
  <2>1. SUFFICES ASSUME NEW i \in 1 .. (Len(s \o t) - 1)
                 PROVE  (s \o t)[i] < (s \o t)[i + 1]
    BY DEF Increasing
  <2>2. i \in Nat /\ i \in 1 .. Len(s) + Len(t) /\ i + 1 \in 1 .. Len(s) + Len(t)
    BY <1>1, <1>2, <1>3
  <2>3. CASE i + 1 =< Len(s)
    BY <1>2, <1>3, <2>2, <2>3 DEF Increasing
  <2>4. CASE i = Len(s)
    BY <1>1, <1>2, <1>3, <2>2, <2>4 DEF UpTo
  <2>5. CASE i > Len(s)
    <3>0. \A k \in 1 .. Len(s) + Len(t) : ~(k =< Len(s)) => (s \o t)[k] = t[k - Len(s)]
      BY <1>3
    <3>1. /\ i - Len(s) \in 1 .. (b - a) /\ (i + 1) - Len(s) \in 1 .. (b - a)
          /\ (s \o t)[i] = t[i - Len(s)] /\ (s \o t)[i + 1] = t[(i + 1) - Len(s)]
      <4>1. ~(i =< Len(s)) /\ ~(i + 1 =< Len(s))
        BY <1>2, <2>2, <2>5
      <4>2. i - Len(s) \in 1 .. (b - a) /\ (i + 1) - Len(s) \in 1 .. (b - a)
        BY <1>1, <1>2, <2>2, <2>5
      <4> QED
        BY <2>2, <3>0, <4>1, <4>2
    <3>2. t[i - Len(s)] = a + (i - Len(s)) /\ t[(i + 1) - Len(s)] = a + ((i + 1) - Len(s))
      BY <1>1, <3>1
    <3> QED
      BY <1>2, <3>1, <3>2
  <2> QED
    BY <1>2, <2>2, <2>3, <2>4, <2>5
<1> QED
  BY <1>4, <1>5 DEF t

\* What a handle that fails after n rows has written.
LEMMA IncreasingPrefix ==
    ASSUME NEW s \in Seq(Nat), NEW t \in Seq(Nat), NEW n \in 0 .. Len(t), NEW b \in Nat,
           Increasing(s \o t), UpTo(s \o t, b)
    PROVE  /\ SubSeq(t, 1, n) \in Seq(Nat)
           /\ Increasing(s \o SubSeq(t, 1, n)) /\ UpTo(s \o SubSeq(t, 1, n), b)
<1> DEFINE u == SubSeq(t, 1, n)
<1>1. Len(s) \in Nat /\ Len(t) \in Nat /\ \A i \in 1 .. n : t[i] \in Nat
  BY LenProperties, ElementOfSeq
<1>2. u \in Seq(Nat) /\ Len(u) = n /\ \A i \in 1 .. n : u[i] = t[i]
  <2>1. n \in Nat /\ n =< Len(t) /\ 0 + 1 = 1
    BY <1>1
  <2>2. /\ SubSeq(t, 0 + 1, n) \in Seq(Nat) /\ Len(SubSeq(t, 0 + 1, n)) = n - 0
        /\ \A i \in 1 .. (n - 0) : SubSeq(t, 0 + 1, n)[i] = t[0 + i]
    BY <2>1, Cut
  <2> QED
    BY <2>1, <2>2
<1> HIDE DEF u
<1> DEFINE v == s \o u
           w == s \o t
<1>3. /\ w \in Seq(Nat) /\ Len(w) = Len(s) + Len(t)
      /\ \A i \in 1 .. Len(s) + Len(t) : w[i] = IF i =< Len(s) THEN s[i] ELSE t[i - Len(s)]
  BY ConcatProperties
<1>4. /\ v \in Seq(Nat) /\ Len(v) = Len(s) + Len(u)
      /\ \A i \in 1 .. Len(s) + Len(u) : v[i] = IF i =< Len(s) THEN s[i] ELSE u[i - Len(s)]
  BY <1>2, ConcatProperties
<1>5. Increasing(w) /\ UpTo(w, b)
  OBVIOUS
<1> HIDE DEF v, w
<1>6. Len(v) =< Len(w)
  BY <1>1, <1>2, <1>3, <1>4
<1>7. ASSUME NEW i \in 1 .. Len(v)
      PROVE  v[i] = w[i]
  <2>1. i \in 1 .. Len(s) + Len(u) /\ i \in 1 .. Len(s) + Len(t)
    BY <1>1, <1>2, <1>4
  <2>2. CASE i =< Len(s)
    BY <1>3, <1>4, <2>1, <2>2
  <2>3. CASE ~(i =< Len(s))
    <3>1. i - Len(s) \in 1 .. n
      BY <1>1, <1>2, <2>1, <2>3
    <3>2. v[i] = u[i - Len(s)]
      BY <1>4, <2>1, <2>3
    <3>3. w[i] = t[i - Len(s)]
      BY <1>3, <2>1, <2>3
    <3> QED
      BY <1>2, <3>1, <3>2, <3>3
  <2> QED
    BY <2>2, <2>3
<1>8. Increasing(v) /\ UpTo(v, b)
  BY <1>3, <1>4, <1>5, <1>6, <1>7, OrderedPrefix
<1> QED
  BY <1>2, <1>8 DEF u, v

-----------------------------------------------------------------------------
(* The inductive invariant.                                                *)

Locations == {"start", "loop", "copy", "counted", "opened", "unopened", "close", "close2"}
Files == {"telemetry", "sensor"}
RowsOf == [telemetry : Seq(Nat), sensor : Seq(Nat)]

RamTypeOK ==
    /\ at \in Locations /\ counter \in Nat
    /\ telemetry \in [Slots -> Nat] /\ sensor \in [Slots -> Nat]
    /\ count \in 0 .. BufferSize /\ writeIndex \in Slots
    /\ lastCopy \in [from : Nat, to : Nat]
    /\ mounted \in BOOLEAN
    /\ total \in Nat /\ first \in Nat /\ misses \in Nat /\ worst \in Nat /\ cut \in BOOLEAN
    /\ restarts \in Nat /\ reads \in Nat
    /\ reader \in [busy : BOOLEAN, from : Nat, since : Int]

FilesTypeOK == files \in RowsOf /\ out \in RowsOf /\ kept \in RowsOf /\ booted \in RowsOf

TypeOK == RamTypeOK /\ FilesTypeOK

\* The ring holds the last count records, oldest first.
RingOK ==
    /\ first + count =< total
    /\ sensor = telemetry
    /\ count < BufferSize => writeIndex = count
    /\ \A i \in 1 .. count : telemetry[(ReadIndex + (i - 1)) % BufferSize] = (total - count) + i

\* Its copy lags behind only between the two halves of a collection.
CopyOK ==
    /\ at = "copy" => total > first
    /\ lastCopy.from = Told(total)
    /\ lastCopy.to = Told(Complete)

\* The field that command 8.2 has read was the newest one since it began.
ReaderOK ==
    reader.busy =>
        /\ first =< reader.since /\ reader.since =< Complete
        /\ \E n \in reader.since .. total : reader.from = Told(n)

\* What the ring has gained since the counter or the failures were last counted.
InHand ==
    IF at = "copy" THEN 1 ELSE IF at \in {"opened", "unopened"} THEN FlushThreshold ELSE 0

\* How much the ring can hold, from how many flushes have failed in a row.
CountOK ==
    /\ misses =< worst
    /\ counter =< FlushThreshold
    /\ at # "counted" => counter < FlushThreshold
    /\ at \in {"opened", "unopened"} => counter = 0
    /\ count =< misses * FlushThreshold + counter + InHand

\* Where a flush is, and what it has in its hands.
FlushOK ==
    /\ at \notin {"close", "close2"} => out = NoRows
    /\ at \in {"opened", "unopened"} => mounted
    /\ at \in {"close", "close2"} => mounted /\ count = 0
    /\ at = "close" => out.telemetry = out.sensor
    /\ at = "close2" => out.telemetry = <<>>
    /\ at = "start" => total = first /\ count = 0

\* What has been added to the files since this boot found them.
AddedOK ==
    /\ \A f \in Files : at = "start" \/ ~mounted => Added(files[f], kept[f]) = <<>>
    /\ \A f \in Files : at # "start" => Len(kept[f]) =< Len(files[f])
    /\ ~cut => Written("telemetry") = Written("sensor")
    /\ \A f \in Files : Increasing(Written(f)) /\ UpTo(Written(f), total - count)

\* Nothing is missing while the ring has not overflown.
WholeOK ==
    (worst + 1) * FlushThreshold =< BufferSize /\ ~cut =>
        Written("telemetry") = Numbers(first, total - count)

IInv == TypeOK /\ RingOK /\ CopyOK /\ ReaderOK /\ CountOK /\ FlushOK /\ AddedOK /\ WholeOK

-----------------------------------------------------------------------------
(* The ring.                                                               *)

\* An index that has gone round at most once.
LEMMA Wrapped ==
    ASSUME NEW n \in Nat, n < 2 * BufferSize
    PROVE  n % BufferSize = IF n < BufferSize THEN n ELSE n - BufferSize
  BY SizeAssumption

LEMMA SlotOf ==
    ASSUME NEW n \in Int
    PROVE  n % BufferSize \in Slots
  BY SizeAssumption DEF Slots

\* The rows of the ring are the last count numbers.
LEMMA RowsNumbers ==
    ASSUME RamTypeOK, RingOK
    PROVE  Rows(telemetry) = Numbers(total - count, total)
<1>1. total - (total - count) = count
  BY DEF RamTypeOK
<1>2. \A i \in 1 .. count : telemetry[(ReadIndex + (i - 1)) % BufferSize] = (total - count) + i
  BY DEF RingOK
<1> QED
  BY <1>1, <1>2 DEF Rows, Numbers

LEMMA CollectRing ==
    ASSUME RamTypeOK, RingOK, Collect
    PROVE  RingOK'
<1> USE SizeAssumption
<1>1. /\ writeIndex \in 0 .. (BufferSize - 1) /\ count \in 0 .. BufferSize
      /\ total \in Nat /\ first \in Nat /\ first' = first /\ total' = total + 1
      /\ writeIndex' = (writeIndex + 1) % BufferSize
      /\ count' = IF count < BufferSize THEN count + 1 ELSE count
      /\ telemetry' = [telemetry EXCEPT ![writeIndex] = total + 1]
      /\ sensor' = [sensor EXCEPT ![writeIndex] = total + 1]
      /\ telemetry \in [Slots -> Nat] /\ sensor = telemetry /\ first + count =< total
      /\ BufferSize \in Nat \ {0}
  BY DEF RamTypeOK, RingOK, Collect, NextIndex, SensorSlot, Slots
<1>2. writeIndex' = IF writeIndex + 1 < BufferSize THEN writeIndex + 1 ELSE 0
  BY <1>1, Wrapped
<1>3. /\ first' + count' =< total' /\ sensor' = telemetry'
  BY <1>1
<1>4. CASE count < BufferSize
  <2>1. writeIndex = count /\ ReadIndex = 0
    BY <1>1, <1>4 DEF RingOK, ReadIndex
  <2>2. count' = count + 1 /\ total' - count' = total - count
    BY <1>1, <1>4
  <2>3. ReadIndex' = 0 /\ (count' < BufferSize => writeIndex' = count')
    BY <1>1, <1>2, <1>4, <2>1, <2>2 DEF ReadIndex
  <2>4. ASSUME NEW i \in 1 .. count'
        PROVE  telemetry'[(ReadIndex' + (i - 1)) % BufferSize] = (total' - count') + i
    <3>1. i - 1 \in 0 .. count /\ i - 1 \in Slots /\ i - 1 \in Nat /\ i - 1 < 2 * BufferSize
          /\ i - 1 < BufferSize
      BY <1>1, <1>4, <2>2 DEF Slots
    <3>2. (ReadIndex' + (i - 1)) % BufferSize = i - 1
      BY <2>3, <3>1, Wrapped
    <3>3. CASE i - 1 = count
      <4>1. telemetry'[i - 1] = total + 1
        BY <1>1, <2>1, <3>1, <3>3
      <4> QED
        BY <1>1, <2>2, <3>2, <3>3, <4>1
    <3>4. CASE i - 1 # count
      <4>1. telemetry'[i - 1] = telemetry[i - 1] /\ i \in 1 .. count
        BY <1>1, <2>1, <3>1, <3>4
      <4>2. (ReadIndex + (i - 1)) % BufferSize = i - 1
        BY <2>1, <3>1, Wrapped
      <4>3. telemetry[i - 1] = (total - count) + i
        BY <4>1, <4>2 DEF RingOK
      <4> QED
        BY <2>2, <3>2, <4>1, <4>3
    <3> QED
      BY <3>3, <3>4
  <2> QED
    BY <1>3, <2>3, <2>4 DEF RingOK
<1>5. CASE count = BufferSize
  <2>1. ReadIndex = writeIndex /\ ReadIndex' = writeIndex' /\ count' = count
    BY <1>1, <1>5 DEF ReadIndex
  <2>2. total' - count' = (total - count) + 1
    BY <1>1, <2>1
  <2>3. ASSUME NEW i \in 1 .. count'
        PROVE  telemetry'[(ReadIndex' + (i - 1)) % BufferSize] = (total' - count') + i
    <3>1. i \in Nat /\ 1 =< i /\ i =< BufferSize
      BY <1>1, <1>5, <2>1
    <3> DEFINE old == (writeIndex + i) % BufferSize
               new == (writeIndex' + (i - 1)) % BufferSize
    <3>2. old = IF writeIndex + i < BufferSize THEN writeIndex + i ELSE (writeIndex + i) - BufferSize
      BY <1>1, <3>1, Wrapped
    <3>3. new = IF writeIndex' + (i - 1) < BufferSize THEN writeIndex' + (i - 1)
                ELSE (writeIndex' + (i - 1)) - BufferSize
      BY <1>1, <1>2, <3>1, Wrapped
    <3> HIDE DEF old, new
    <3>4. new = old /\ old \in Slots /\ (old = writeIndex <=> i = BufferSize)
      BY <1>1, <1>2, <3>1, <3>2, <3>3 DEF Slots
    <3>5. CASE i = BufferSize
      <4>1. telemetry'[new] = total + 1
        BY <1>1, <3>4, <3>5
      <4> QED
        BY <1>1, <1>5, <2>1, <3>5, <4>1 DEF new
    <3>6. CASE i # BufferSize
      <4>1. i + 1 \in 1 .. count
        BY <1>5, <3>1, <3>6
      <4>2. telemetry[(ReadIndex + ((i + 1) - 1)) % BufferSize] = (total - count) + (i + 1)
        BY <4>1 DEF RingOK
      <4>3. (i + 1) - 1 = i
        BY <3>1
      <4>4. telemetry[old] = (total - count) + (i + 1)
        BY <2>1, <4>2, <4>3 DEF old
      <4>5. telemetry'[new] = telemetry[old]
        BY <1>1, <3>4, <3>6
      <4>6. telemetry'[new] = (total' - count') + i
        BY <1>1, <2>2, <3>1, <4>4, <4>5
      <4> QED
        BY <2>1, <4>6 DEF new
    <3> QED
      BY <3>5, <3>6
  <2>4. ~(count' < BufferSize)
    BY <1>1, <1>5, <2>1
  <2> QED
    BY <1>3, <2>3, <2>4 DEF RingOK
<1> QED
  BY <1>1, <1>4, <1>5

-----------------------------------------------------------------------------
(* Type correctness.                                                       *)

LEMMA RowsType ==
    ASSUME RamTypeOK, NEW buffer \in [Slots -> Nat]
    PROVE  Rows(buffer) \in Seq(Nat) /\ Len(Rows(buffer)) = count
<1>1. count \in Nat /\ ReadIndex \in Nat
  BY SizeAssumption DEF RamTypeOK, ReadIndex, Slots
<1>2. ASSUME NEW i \in 1 .. count
      PROVE  buffer[(ReadIndex + (i - 1)) % BufferSize] \in Nat
  <2>1. ReadIndex + (i - 1) \in Int
    BY <1>1
  <2>2. (ReadIndex + (i - 1)) % BufferSize \in Slots
    BY <2>1, SlotOf
  <2> QED
    BY <2>2
<1>3. Rows(buffer) \in [1 .. count -> Nat]
  BY <1>2 DEF Rows
<1>4. Rows(buffer) \in Seq(Nat)
  BY <1>1, <1>3, SeqDef
<1> QED
  BY <1>1, <1>3, <1>4, LenProperties

LEMMA EmptyRows == NoRows \in RowsOf /\ <<>> \in Seq(Nat)
<1>1. <<>> \in Seq(Nat)
  OBVIOUS
<1> QED
  BY <1>1 DEF NoRows, RowsOf

LEMMA FsInitType ==
    ASSUME NEW f \in RowsOf, NEW i \in FsInit(f)
    PROVE  i.mounted \in BOOLEAN /\ i.files \in RowsOf /\ i.files \in {f, NoRows}
<1>1. CASE StorageFaults
  BY <1>1, EmptyRows DEF FsInit
<1>2. CASE ~StorageFaults
  <2>1. i = [mounted |-> TRUE, files |-> f]
    BY <1>2 DEF FsInit
  <2>2. i.mounted = TRUE /\ i.files = f
    BY <2>1
  <2> QED
    BY <2>2
<1> QED
  BY <1>1, <1>2

LEMMA BootRamType ==
    /\ BootRam.telemetry \in [Slots -> Nat] /\ BootRam.sensor = BootRam.telemetry
    /\ BootRam.lastCopy = [from |-> 0, to |-> 0] /\ 0 \in Slots
  BY SizeAssumption DEF BootRam, Slots

LEMMA InitType == Init => TypeOK
<1> SUFFICES ASSUME Init
             PROVE  TypeOK
  OBVIOUS
<1>1. mounted \in BOOLEAN
  BY EmptyRows, FsInitType DEF Init
<1>2. /\ telemetry \in [Slots -> Nat] /\ sensor \in [Slots -> Nat]
      /\ lastCopy \in [from : Nat, to : Nat] /\ writeIndex \in Slots
  BY BootRamType DEF Init
<1>3. at \in Locations /\ cut \in BOOLEAN
  BY DEF Init, Locations
<1>4. count \in 0 .. BufferSize
  BY SizeAssumption DEF Init
<1>5. RamTypeOK
  BY <1>1, <1>2, <1>3, <1>4 DEF Init, NotReading, RamTypeOK
<1>6. FilesTypeOK
  BY EmptyRows DEF Init, FilesTypeOK
<1> QED
  BY <1>5, <1>6 DEF TypeOK

\* What one close leaves in the files: a part of the rows, in front of the rest.
LEMMA CloseType ==
    ASSUME NEW f \in Files, FilesTypeOK, cut \in BOOLEAN, CloseFile(f)
    PROVE  FilesTypeOK' /\ cut' \in BOOLEAN
<1>1. out[f] \in Seq(Nat) /\ files[f] \in Seq(Nat)
  BY DEF FilesTypeOK, RowsOf, Files
<1>2. PICK n \in Reached(out[f]) :
          /\ files' = [files EXCEPT ![f] = files[f] \o SubSeq(out[f], 1, n)]
          /\ cut' = (cut \/ n < Len(out[f]))
  BY DEF CloseFile
<1>3. n \in 0 .. Len(out[f])
  BY <1>1, LenProperties DEF Reached
<1>4. SubSeq(out[f], 1, n) \in Seq(Nat)
  <2>1. 0 + 1 = 1 /\ n \in Nat /\ n =< Len(out[f]) /\ Len(out[f]) \in Nat
    BY <1>1, <1>3, LenProperties
  <2>2. SubSeq(out[f], 0 + 1, n) \in Seq(Nat)
    BY <1>1, <2>1, Cut
  <2> QED
    BY <2>1, <2>2
<1>5. files[f] \o SubSeq(out[f], 1, n) \in Seq(Nat)
  BY <1>1, <1>4, ConcatProperties
<1>6. files' \in RowsOf
  BY <1>2, <1>5 DEF FilesTypeOK, RowsOf, Files
<1>7. out' \in RowsOf
  BY EmptyRows DEF CloseFile, FilesTypeOK, RowsOf, Files
<1>8. cut' \in BOOLEAN
  BY <1>2, Zenon
<1> QED
  BY <1>6, <1>7, <1>8 DEF CloseFile, FilesTypeOK

LEMMA TypeStep == TypeOK /\ [Next]_vars => TypeOK'
<1> SUFFICES ASSUME RamTypeOK, FilesTypeOK, [Next]_vars
             PROVE  RamTypeOK' /\ FilesTypeOK'
  BY DEF TypeOK
<1> USE DEF ram, ghosts, answer
<1>1. CASE InitFiles
  <2>1. RamTypeOK'
    BY <1>1 DEF InitFiles, Goto, RamTypeOK, Locations
  <2>2. files' \in RowsOf
    <3>1. CASE mounted
      <4>1. PICK t \in Created(files.telemetry), s \in Created(files.sensor) :
                files' = [telemetry |-> t, sensor |-> s]
        BY <1>1, <3>1 DEF InitFiles
      <4>2. <<Header>> \in Seq(Nat)
        BY DEF Header
      <4>3. t \in Seq(Nat) /\ s \in Seq(Nat)
        BY <4>2, EmptyRows DEF Created, FilesTypeOK, RowsOf
      <4> QED
        BY <4>1, <4>3 DEF RowsOf
    <3>2. CASE ~mounted
      BY <1>1, <3>2 DEF InitFiles, FilesTypeOK
    <3> QED
      BY <3>1, <3>2
  <2>3. FilesTypeOK'
    BY <1>1, <2>2 DEF InitFiles, FilesTypeOK
  <2> QED
    BY <2>1, <2>3
<1>2. CASE Collect
  <2>1. writeIndex' \in Slots
    <3>1. writeIndex \in Nat
      BY DEF RamTypeOK, Slots
    <3>2. (writeIndex + 1) % BufferSize \in Slots
      BY <3>1, SlotOf
    <3> QED
      BY <1>2, <3>2 DEF Collect, NextIndex
  <2>2. count' \in 0 .. BufferSize
    BY <1>2, SizeAssumption DEF Collect, RamTypeOK
  <2>3. telemetry' \in [Slots -> Nat] /\ sensor' \in [Slots -> Nat] /\ total' \in Nat
        /\ lastCopy' \in [from : Nat, to : Nat]
    BY <1>2 DEF Collect, SensorSlot, RamTypeOK
  <2>4. RamTypeOK'
    BY <1>2, <2>1, <2>2, <2>3 DEF Collect, Goto, RamTypeOK, Locations
  <2>5. FilesTypeOK'
    BY <1>2 DEF Collect, FilesTypeOK
  <2> QED
    BY <2>4, <2>5
<1>3. CASE CopyEnd
  BY <1>3 DEF CopyEnd, Goto, RamTypeOK, FilesTypeOK, Locations
<1>4. CASE NoFlush
  BY <1>4 DEF NoFlush, Goto, RamTypeOK, FilesTypeOK, Locations
<1>5. CASE FlushUnmounted \/ FlushFail
  BY <1>5 DEF FlushUnmounted, FlushFail, Missed, Goto, RamTypeOK, FilesTypeOK, Locations
<1>13. CASE OpenTelemetry
  BY <1>13 DEF OpenTelemetry, Goto, RamTypeOK, FilesTypeOK, Locations
<1>6. CASE FlushWrite
  <2>1. RamTypeOK'
    BY <1>6, SizeAssumption DEF FlushWrite, Goto, IndexAfterFlush, RamTypeOK, Locations, Slots
  <2>2. Rows(telemetry) \in Seq(Nat) /\ Rows(sensor) \in Seq(Nat)
    BY RowsType DEF RamTypeOK
  <2>3. FilesTypeOK'
    BY <1>6, <2>2 DEF FlushWrite, FilesTypeOK, RowsOf
  <2> QED
    BY <2>1, <2>3
<1>7. CASE CloseTelemetry
  <2>1. FilesTypeOK' /\ cut' \in BOOLEAN
    BY <1>7, CloseType DEF CloseTelemetry, Files, RamTypeOK
  <2>2. RamTypeOK'
    BY <1>7, <2>1 DEF CloseTelemetry, CloseFile, Goto, RamTypeOK, Locations
  <2> QED
    BY <2>1, <2>2
<1>8. CASE CloseSensor
  <2>1. FilesTypeOK' /\ cut' \in BOOLEAN
    BY <1>8, CloseType DEF CloseSensor, Files, RamTypeOK
  <2>2. RamTypeOK'
    BY <1>8, <2>1 DEF CloseSensor, CloseFile, Goto, RamTypeOK, Locations
  <2> QED
    BY <2>1, <2>2
<1>9. CASE Remount
  <2>1. PICK i \in FsInit(files) :
            /\ mounted' = i.mounted /\ files' = i.files
            /\ kept' = IF at = "start" \/ i.files = files THEN kept ELSE i.files
    BY <1>9 DEF Remount
  <2>2. i.mounted \in BOOLEAN /\ i.files \in RowsOf
    BY FsInitType DEF FilesTypeOK
  <2>3. RamTypeOK'
    BY <1>9, <2>1, <2>2 DEF Remount, RamTypeOK
  <2>4. FilesTypeOK'
    BY <1>9, <2>1, <2>2 DEF Remount, FilesTypeOK
  <2> QED
    BY <2>3, <2>4
<1>10. CASE ReadBegin
  <2>1. Complete \in Int /\ lastCopy.from \in Nat
    BY DEF Complete, RamTypeOK
  <2> QED
    BY <1>10, <2>1 DEF ReadBegin, LastRecord, RamTypeOK, FilesTypeOK
<1>14. CASE ReadEnd
  BY <1>14 DEF ReadEnd, NotReading, RamTypeOK, FilesTypeOK
<1>11. CASE Restart
  <2>1. PICK i \in FsInit(files) : mounted' = i.mounted /\ files' = i.files
    BY <1>11 DEF Restart
  <2>2. i.mounted \in BOOLEAN /\ i.files \in RowsOf
    BY FsInitType DEF FilesTypeOK
  <2>3. /\ telemetry' \in [Slots -> Nat] /\ sensor' \in [Slots -> Nat]
        /\ lastCopy' \in [from : Nat, to : Nat] /\ writeIndex' \in Slots
    BY <1>11, BootRamType DEF Restart
  <2>4. at' \in Locations /\ cut' \in BOOLEAN
    BY <1>11 DEF Restart, Locations
  <2>5. count' \in 0 .. BufferSize
    BY <1>11, SizeAssumption DEF Restart
  <2>6. RamTypeOK'
    BY <1>11, <2>1, <2>2, <2>3, <2>4, <2>5 DEF Restart, NotReading, RamTypeOK
  <2>7. FilesTypeOK'
    BY <1>11, <2>1, <2>2, EmptyRows DEF Restart, FilesTypeOK
  <2> QED
    BY <2>6, <2>7
<1>12. CASE Done \/ UNCHANGED vars
  BY <1>12 DEF Done, vars, RamTypeOK, FilesTypeOK
<1> QED
  BY <1>1, <1>2, <1>3, <1>4, <1>5, <1>6, <1>7, <1>8, <1>9, <1>10, <1>11, <1>12, <1>13,
     <1>14
     DEF Next, Core1Step

\* Every variable keeps to its type.
THEOREM TypeInvariant == Spec => []TypeOK
<1>1. TypeOK /\ [Next]_vars => TypeOK'
  BY TypeStep
<1> QED
  BY <1>1, InitType, PTL DEF Spec

-----------------------------------------------------------------------------
(* The parts of the invariant without the files.                           *)

LEMMA RingStep == RamTypeOK /\ RingOK /\ [Next]_vars => RingOK'
<1> SUFFICES ASSUME RamTypeOK, RingOK, [Next]_vars
             PROVE  RingOK'
  OBVIOUS
<1> USE DEF ram, ghosts, answer
<1>1. CASE Collect
  BY <1>1, CollectRing
<1>2. CASE FlushWrite
  <2>1. /\ count' = 0 /\ writeIndex' = 0 /\ sensor' = telemetry'
        /\ first' =< total' /\ first' \in Nat
    BY <1>2, SizeAssumption DEF FlushWrite, IndexAfterFlush, RamTypeOK, RingOK
  <2> QED
    BY <2>1, SizeAssumption DEF RingOK, ReadIndex
<1>3. CASE Restart
  <2>1. count' = 0 /\ writeIndex' = 0 /\ sensor' = telemetry' /\ first' = total /\ total' = total
    BY <1>3, BootRamType DEF Restart
  <2>2. first' =< total' /\ first' \in Nat
    BY <2>1 DEF RamTypeOK
  <2> QED
    BY <2>1, <2>2, SizeAssumption DEF RingOK, ReadIndex
<1>4. ASSUME UNCHANGED <<telemetry, sensor, count, writeIndex, total, first>>
      PROVE  RingOK'
  BY <1>4 DEF RingOK, ReadIndex
<1>5. CASE InitFiles \/ CopyEnd \/ NoFlush \/ FlushUnmounted \/ OpenTelemetry \/ FlushFail
           \/ CloseTelemetry \/ CloseSensor
  BY <1>4, <1>5 DEF InitFiles, CopyEnd, NoFlush, FlushUnmounted, OpenTelemetry, FlushFail,
                    CloseTelemetry, CloseSensor, CloseFile
<1>6. CASE Remount \/ ReadBegin \/ ReadEnd \/ Done \/ UNCHANGED vars
  BY <1>4, <1>6 DEF Remount, ReadBegin, ReadEnd, Done, vars
<1> QED
  BY <1>1, <1>2, <1>3, <1>5, <1>6 DEF Next, Core1Step

LEMMA CopyStep == RamTypeOK /\ RingOK /\ CopyOK /\ [Next]_vars => CopyOK'
<1> SUFFICES ASSUME RamTypeOK, RingOK, CopyOK, [Next]_vars
             PROVE  CopyOK'
  OBVIOUS
<1> USE DEF ram, ghosts, answer
<1>0. total \in Nat /\ first \in Nat /\ first =< total
  BY SizeAssumption DEF RamTypeOK, RingOK
<1>1. CASE Collect
  <2>1. /\ at = "loop" /\ at' = "copy" /\ total' = total + 1 /\ first' = first
        /\ lastCopy'.from = total + 1 /\ lastCopy'.to = lastCopy.to
    BY <1>1 DEF Collect, Goto, RamTypeOK
  <2>2. lastCopy.to = Told(total)
    BY <2>1 DEF CopyOK, Complete
  <2> QED
    BY <1>0, <2>1, <2>2 DEF CopyOK, Complete, Told
<1>2. CASE CopyEnd
  <2>1. /\ at = "copy" /\ at' = "counted" /\ total' = total /\ first' = first
        /\ lastCopy'.from = lastCopy.from /\ lastCopy'.to = total
    BY <1>2 DEF CopyEnd, Goto, RamTypeOK
  <2> QED
    BY <1>0, <2>1 DEF CopyOK, Complete, Told
<1>3. CASE Restart
  <2>1. /\ at' = "start" /\ total' = total /\ first' = total
        /\ lastCopy'.from = 0 /\ lastCopy'.to = 0
    BY <1>3, BootRamType DEF Restart
  <2> QED
    BY <1>0, <2>1 DEF CopyOK, Complete, Told
<1>4. ASSUME UNCHANGED <<total, first, lastCopy>>, at # "copy", at' # "copy"
      PROVE  CopyOK'
  BY <1>4 DEF CopyOK, Complete, Told
<1>5. CASE InitFiles \/ NoFlush \/ FlushUnmounted \/ OpenTelemetry \/ FlushFail \/ FlushWrite
           \/ CloseTelemetry \/ CloseSensor
  BY <1>4, <1>5 DEF InitFiles, NoFlush, FlushUnmounted, OpenTelemetry, FlushFail, FlushWrite,
                    CloseTelemetry, CloseSensor, CloseFile, Goto
<1>6. CASE Remount \/ ReadBegin \/ ReadEnd \/ Done \/ UNCHANGED vars
  <2>1. UNCHANGED <<at, total, first, lastCopy>>
    BY <1>6 DEF Remount, ReadBegin, ReadEnd, Done, vars
  <2> QED
    BY <2>1 DEF CopyOK, Complete, Told
<1> QED
  BY <1>1, <1>2, <1>3, <1>5, <1>6 DEF Next, Core1Step

LEMMA CompleteType ==
    ASSUME RamTypeOK, RingOK, CopyOK
    PROVE  /\ total \in Nat /\ first \in Nat /\ first =< total
           /\ Complete \in Nat /\ first =< Complete /\ Complete =< total
<1>1. total \in Nat /\ first \in Nat /\ first =< total
  BY SizeAssumption DEF RamTypeOK, RingOK
<1> QED
  BY <1>1 DEF CopyOK, Complete

\* No step takes back what was complete, and none but a restart forgets a record.
LEMMA CompleteGrows ==
    ASSUME RamTypeOK, RingOK, CopyOK, [Next]_vars, ~Restart
    PROVE  /\ Complete' \in Int /\ Complete =< Complete'
           /\ total' \in Nat /\ total =< total' /\ first' = first
<1> USE DEF ram, ghosts, answer
<1>0. /\ total \in Nat /\ first \in Nat /\ first =< total
      /\ Complete \in Nat /\ first =< Complete /\ Complete =< total
  BY CompleteType
<1>1. CASE Collect
  <2>1. at = "loop" /\ at' = "copy" /\ total' = total + 1 /\ first' = first
    BY <1>1 DEF Collect, Goto
  <2> QED
    BY <1>0, <2>1 DEF Complete
<1>2. CASE CopyEnd
  <2>1. at = "copy" /\ at' = "counted" /\ total' = total /\ first' = first
    BY <1>2 DEF CopyEnd, Goto
  <2> QED
    BY <1>0, <2>1 DEF Complete
<1>3. CASE ~Collect /\ ~CopyEnd
  <2>1. total' = total /\ first' = first /\ (at' = "copy" <=> at = "copy")
    BY <1>3 DEF Next, Core1Step, InitFiles, NoFlush, FlushUnmounted, OpenTelemetry, FlushFail,
                FlushWrite, CloseTelemetry, CloseSensor, CloseFile, Remount, ReadBegin, ReadEnd,
                Done, vars, Goto
  <2> QED
    BY <1>0, <2>1 DEF Complete
<1> QED
  BY <1>1, <1>2, <1>3

LEMMA ReaderStep ==
    RamTypeOK /\ RingOK /\ CopyOK /\ ReaderOK /\ [Next]_vars => ReaderOK'
<1> SUFFICES ASSUME RamTypeOK, RingOK, CopyOK, ReaderOK, [Next]_vars
             PROVE  ReaderOK'
  OBVIOUS
<1>1. CASE Restart \/ ReadEnd
  BY <1>1 DEF Restart, ReadEnd, NotReading, ReaderOK
<1>2. CASE ReadBegin
  <2>1. /\ reader'.since = Complete /\ reader'.from = Told(total)
        /\ UNCHANGED <<at, total, first>>
    BY <1>2 DEF ReadBegin, LastRecord, CopyOK, ghosts
  <2>2. /\ Complete \in Nat /\ total \in Nat /\ first =< Complete /\ Complete =< total
    BY CompleteType
  <2>3. Complete' = Complete /\ Told(total)' = Told(total) /\ total \in Complete .. total
    BY <2>1, <2>2 DEF Complete, Told
  <2> QED
    BY <2>1, <2>2, <2>3 DEF ReaderOK, Told
<1>3. CASE ~Restart /\ ~ReadEnd /\ ~ReadBegin
  <2>1. reader' = reader
    BY <1>3 DEF Next, Core1Step, InitFiles, Collect, CopyEnd, NoFlush, FlushUnmounted,
                OpenTelemetry, FlushFail, FlushWrite, CloseTelemetry, CloseSensor, CloseFile,
                Remount, Done, vars, answer
  <2>2. /\ Complete \in Nat /\ Complete' \in Int /\ Complete =< Complete'
        /\ total \in Nat /\ total' \in Nat /\ total =< total' /\ first' = first
    BY <1>3, CompleteGrows, CompleteType
  <2> SUFFICES ASSUME reader.busy
               PROVE  /\ first =< reader.since /\ reader.since =< Complete'
                      /\ \E n \in reader.since .. total' : reader.from = Told(n)'
    BY <2>1, <2>2 DEF ReaderOK
  <2>3. reader.since \in Int /\ first =< reader.since /\ reader.since =< Complete
    BY DEF ReaderOK, RamTypeOK
  <2>4. PICK n \in reader.since .. total : reader.from = Told(n)
    BY DEF ReaderOK
  <2>5. n \in reader.since .. total' /\ Told(n)' = Told(n)
    BY <2>2, <2>3, <2>4 DEF Told
  <2> QED
    BY <2>2, <2>3, <2>4, <2>5 DEF Told
<1> QED
  BY <1>1, <1>2, <1>3

\* One more failure in a row, or a worse row of them, is one threshold more.
LEMMA Thresholds ==
    ASSUME NEW m \in Nat, NEW n \in Nat, m =< n
    PROVE  /\ m * FlushThreshold \in Nat /\ n * FlushThreshold \in Nat
           /\ (m + 1) * FlushThreshold = (m * FlushThreshold) + FlushThreshold
           /\ m * FlushThreshold =< n * FlushThreshold
<1>1. PICK k \in Nat : n = m + k
  BY SMT
<1>2. FlushThreshold \in Nat /\ k * FlushThreshold \in Nat /\ m * FlushThreshold \in Nat
  BY SizeAssumption
<1>3. (m + k) * FlushThreshold = (m * FlushThreshold) + (k * FlushThreshold)
  BY <1>2
<1>4. (m + 1) * FlushThreshold = (m * FlushThreshold) + FlushThreshold
  BY <1>2
<1> QED
  BY <1>1, <1>2, <1>3, <1>4

LEMMA CountStep == RamTypeOK /\ CountOK /\ [Next]_vars => CountOK'
<1> SUFFICES ASSUME RamTypeOK, CountOK, [Next]_vars
             PROVE  CountOK'
  OBVIOUS
<1> USE DEF ram, ghosts, answer
<1>0. /\ misses \in Nat /\ worst \in Nat /\ counter \in Nat /\ count \in Nat
      /\ FlushThreshold \in Nat /\ FlushThreshold > 0 /\ misses * FlushThreshold \in Nat
      /\ (misses + 1) * FlushThreshold = (misses * FlushThreshold) + FlushThreshold
      /\ 0 * FlushThreshold = 0 /\ misses =< worst
  BY SizeAssumption, Thresholds DEF RamTypeOK, CountOK
<1>1. CASE Collect
  <2>1. /\ at = "loop" /\ at' = "copy" /\ count' =< count + 1
        /\ UNCHANGED <<counter, misses, worst>>
    BY <1>0, <1>1 DEF Collect, Goto
  <2>2. count' \in Nat
    BY <1>0, <1>1 DEF Collect
  <2> QED
    BY <1>0, <2>1, <2>2 DEF CountOK, InHand
<1>2. CASE CopyEnd
  <2>1. /\ at = "copy" /\ at' = "counted" /\ counter' = counter + 1
        /\ UNCHANGED <<count, misses, worst>>
    BY <1>2 DEF CopyEnd, Goto
  <2> QED
    BY <1>0, <2>1 DEF CountOK, InHand
<1>3. CASE NoFlush
  <2>1. /\ at = "counted" /\ at' = "loop" /\ counter < FlushThreshold
        /\ UNCHANGED <<count, counter, misses, worst>>
    BY <1>0, <1>3 DEF NoFlush, FlushTime, Goto
  <2> QED
    BY <1>0, <2>1 DEF CountOK, InHand
<1>4. CASE FlushUnmounted \/ FlushFail
  <2>1. /\ at \in {"counted", "opened", "unopened"} /\ at' = "loop" /\ misses' = misses + 1
        /\ worst' = (IF misses + 1 > worst THEN misses + 1 ELSE worst) /\ count' = count
        /\ counter' \in {0, counter} /\ (at = "counted" => counter' = 0)
    BY <1>4 DEF FlushUnmounted, FlushFail, Missed, Goto
  <2>2. count =< (misses * FlushThreshold) + FlushThreshold /\ counter' \in Nat
        /\ counter' < FlushThreshold
    BY <1>0, <2>1 DEF CountOK, InHand
  <2>3. misses' * FlushThreshold = (misses * FlushThreshold) + FlushThreshold
    BY <1>0, <2>1
  <2>4. InHand' = 0 /\ misses' =< worst' /\ at' \notin {"counted", "opened", "unopened"}
    BY <1>0, <2>1 DEF InHand
  <2>5. count' =< misses' * FlushThreshold + counter' + InHand'
    <3>1. count' =< misses' * FlushThreshold /\ misses' * FlushThreshold \in Nat
      BY <1>0, <2>1, <2>2, <2>3
    <3>2. count' \in Nat /\ counter' \in Nat
      BY <1>0, <2>1, <2>2
    <3> QED
      BY <2>4, <3>1, <3>2
  <2>6. counter' =< FlushThreshold
    BY <1>0, <2>2
  <2> QED
    BY <2>2, <2>4, <2>5, <2>6 DEF CountOK
<1>10. CASE OpenTelemetry
  <2>1. /\ at = "counted" /\ at' \in {"opened", "unopened"} /\ counter' = 0
        /\ UNCHANGED <<count, misses, worst>>
    BY <1>10 DEF OpenTelemetry, Goto
  <2> QED
    BY <1>0, <2>1 DEF CountOK, InHand
<1>5. CASE FlushWrite
  <2>1. /\ at = "opened" /\ at' = "close" /\ counter' = counter /\ count' = 0 /\ misses' = 0
        /\ worst' = worst
    BY <1>5 DEF FlushWrite, Goto
  <2> QED
    BY <1>0, <2>1 DEF CountOK, InHand
<1>6. CASE CloseTelemetry \/ CloseSensor
  <2>1. {at, at'} \cap {"copy", "counted", "opened", "unopened"} = {}
    BY <1>6 DEF CloseTelemetry, CloseSensor, Goto
  <2>2. UNCHANGED <<counter, count, misses, worst>>
    BY <1>6 DEF CloseTelemetry, CloseSensor, CloseFile
  <2> QED
    BY <2>1, <2>2 DEF CountOK, InHand
<1>7. CASE Restart
  <2>1. at' = "start" /\ counter' = 0 /\ count' = 0 /\ misses' = 0 /\ worst' = 0
    BY <1>7 DEF Restart
  <2> QED
    BY <1>0, <2>1 DEF CountOK, InHand
<1>8. CASE InitFiles
  <2>1. at = "start" /\ at' = "loop" /\ UNCHANGED <<counter, count, misses, worst>>
    BY <1>8 DEF InitFiles, Goto
  <2> QED
    BY <2>1 DEF CountOK, InHand
<1>9. CASE Remount \/ ReadBegin \/ ReadEnd \/ Done \/ UNCHANGED vars
  <2>1. UNCHANGED <<at, counter, count, misses, worst>>
    BY <1>9 DEF Remount, ReadBegin, ReadEnd, Done, vars
  <2> QED
    BY <2>1 DEF CountOK, InHand
<1> QED
  BY <1>1, <1>2, <1>3, <1>4, <1>5, <1>6, <1>7, <1>8, <1>9, <1>10 DEF Next, Core1Step

LEMMA FlushStep == TypeOK /\ RingOK /\ FlushOK /\ [Next]_vars => FlushOK'
<1> SUFFICES ASSUME RamTypeOK, FilesTypeOK, RingOK, FlushOK, [Next]_vars
             PROVE  FlushOK'
  BY DEF TypeOK
<1> USE DEF ram, ghosts, answer
<1>1. CASE FlushWrite
  <2>1. at' = "close" /\ mounted' = mounted /\ mounted /\ count' = 0
    BY <1>1 DEF FlushWrite, Goto, FlushOK
  <2>2. out'.telemetry = Rows(telemetry) /\ out'.sensor = Rows(telemetry)
    BY <1>1 DEF FlushWrite, RingOK
  <2> QED
    BY <2>1, <2>2 DEF FlushOK
<1>2. CASE CloseTelemetry
  <2>1. at = "close" /\ at' = "close2" /\ UNCHANGED <<mounted, count>>
    BY <1>2 DEF CloseTelemetry, CloseFile, Goto
  <2>2. out'.telemetry = <<>>
    BY <1>2 DEF CloseTelemetry, CloseFile, FilesTypeOK, RowsOf
  <2> QED
    BY <2>1, <2>2 DEF FlushOK
<1>3. CASE CloseSensor
  <2>1. at = "close2" /\ at' = "loop"
    BY <1>3 DEF CloseSensor, Goto
  <2>2. out' = [out EXCEPT !["sensor"] = <<>>] /\ out.telemetry = <<>> /\ out \in RowsOf
    BY <1>3, <2>1 DEF CloseSensor, CloseFile, FlushOK, FilesTypeOK
  <2>3. out' = NoRows
    BY <2>2 DEF NoRows, RowsOf
  <2> QED
    BY <2>1, <2>3 DEF FlushOK
<1>4. CASE Restart
  BY <1>4 DEF Restart, FlushOK
<1>5. CASE InitFiles \/ Collect \/ CopyEnd \/ NoFlush \/ FlushUnmounted \/ FlushFail
  <2>1. /\ out' = out /\ at \notin {"close", "close2"}
        /\ at' \notin {"start", "opened", "unopened", "close", "close2"}
    BY <1>5 DEF InitFiles, Collect, CopyEnd, NoFlush, FlushUnmounted, FlushFail, Goto
  <2> QED
    BY <2>1 DEF FlushOK
<1>8. CASE OpenTelemetry
  <2>1. /\ out' = out /\ at = "counted" /\ at' \in {"opened", "unopened"}
        /\ mounted /\ mounted' = mounted
    BY <1>8 DEF OpenTelemetry, Goto
  <2> QED
    BY <2>1 DEF FlushOK
<1>6. CASE Remount
  <2>1. ~mounted /\ UNCHANGED <<at, out, count, total, first>>
    BY <1>6 DEF Remount
  <2> QED
    BY <2>1 DEF FlushOK
<1>7. CASE ReadBegin \/ ReadEnd \/ Done \/ UNCHANGED vars
  <2>1. UNCHANGED <<at, out, count, total, first, mounted>>
    BY <1>7 DEF ReadBegin, ReadEnd, Done, vars
  <2> QED
    BY <2>1 DEF FlushOK
<1> QED
  BY <1>1, <1>2, <1>3, <1>4, <1>5, <1>6, <1>7, <1>8 DEF Next, Core1Step

-----------------------------------------------------------------------------
(* What each step does to the rows of this boot.                           *)

LEMMA FilesFacts ==
    ASSUME FilesTypeOK, NEW f \in Files
    PROVE  /\ files[f] \in Seq(Nat) /\ out[f] \in Seq(Nat) /\ kept[f] \in Seq(Nat)
           /\ Added(files[f], kept[f]) \in Seq(Nat) /\ Written(f) \in Seq(Nat)
           /\ Len(files[f]) \in Nat /\ Len(kept[f]) \in Nat
           /\ NoRows[f] = <<>>
<1>1. files[f] \in Seq(Nat) /\ out[f] \in Seq(Nat) /\ kept[f] \in Seq(Nat)
  BY DEF FilesTypeOK, RowsOf, Files
<1>2. Added(files[f], kept[f]) \in Seq(Nat)
  BY <1>1, AddedType
<1>3. Written(f) \in Seq(Nat)
  BY <1>1, <1>2, ConcatProperties DEF Written
<1>4. NoRows[f] = <<>>
  BY DEF NoRows, Files
<1> QED
  BY <1>1, <1>2, <1>3, <1>4, LenProperties

\* A boot that has found its files has added nothing.
LEMMA NothingWritten ==
    ASSUME FilesTypeOK, NEW f \in Files, Added(files[f], kept[f]) = <<>>, out[f] = <<>>
    PROVE  /\ Written(f) = <<>>
           /\ Increasing(Written(f))
           /\ \A n \in Nat : UpTo(Written(f), n) /\ Numbers(n, n) = Written(f)
<1>1. <<>> \in Seq(Nat) /\ Len(<<>>) = 0
  BY EmptySeq
<1>2. Written(f) = <<>>
  BY <1>1, ConcatEmptySeq DEF Written
<1>3. Increasing(<<>>) /\ \A n \in Nat : UpTo(<<>>, n)
  BY <1>1 DEF Increasing, UpTo
<1>4. \A n \in Nat : Numbers(n, n) = <<>>
  BY NumbersSelf
<1> QED
  BY <1>2, <1>3, <1>4

LEMMA FlushWriteAdds ==
    ASSUME RamTypeOK, FilesTypeOK, RingOK, FlushOK, FlushWrite, NEW f \in Files
    PROVE  Written(f)' = Written(f) \o Numbers(total - count, total)
<1>1. out = NoRows /\ files' = files /\ kept' = kept
  BY DEF FlushWrite, Goto, FlushOK
<1>2. out'[f] = Numbers(total - count, total)
  <2>1. Rows(sensor) = Rows(telemetry)
    BY DEF RingOK
  <2> QED
    BY <2>1, RowsNumbers DEF FlushWrite, Files
<1>3. Written(f) = Added(files[f], kept[f])
  BY <1>1, FilesFacts, ConcatEmptySeq DEF Written
<1>4. Written(f)' = Added(files[f], kept[f]) \o out'[f]
  BY <1>1 DEF Written
<1> QED
  BY <1>2, <1>3, <1>4

\* A close moves rows from the handle to the file; without a fault, all of them.
LEMMA CloseKeeps ==
    ASSUME RamTypeOK, FilesTypeOK, NEW f \in Files, CloseFile(f),
           Len(kept[f]) =< Len(files[f]), NEW b \in Nat,
           Increasing(Written(f)), UpTo(Written(f), b)
    PROVE  /\ Increasing(Written(f)') /\ UpTo(Written(f)', b)
           /\ ~cut' => ~cut /\ Written(f)' = Written(f)
           /\ kept' = kept /\ Len(kept[f]) =< Len(files'[f])
           /\ \A g \in Files \ {f} : Written(g)' = Written(g) /\ files'[g] = files[g]
<1> DEFINE added == Added(files[f], kept[f])
<1>1. /\ out[f] \in Seq(Nat) /\ files[f] \in Seq(Nat) /\ kept[f] \in Seq(Nat)
      /\ added \in Seq(Nat) /\ Len(files[f]) \in Nat /\ Len(kept[f]) \in Nat
      /\ Len(out[f]) \in Nat
  BY FilesFacts, LenProperties
<1>2. PICK n \in Reached(out[f]) :
          /\ files' = [files EXCEPT ![f] = files[f] \o SubSeq(out[f], 1, n)]
          /\ cut' = (cut \/ n < Len(out[f]))
  BY DEF CloseFile
<1>3. n \in 0 .. Len(out[f])
  BY <1>1 DEF Reached
<1> DEFINE part == SubSeq(out[f], 1, n)
<1>4. Increasing(added \o part) /\ UpTo(added \o part, b) /\ part \in Seq(Nat)
  <2>1. Increasing(added \o out[f]) /\ UpTo(added \o out[f], b)
    BY DEF Written
  <2> HIDE DEF added
  <2> QED
    BY <1>1, <1>3, <2>1, IncreasingPrefix
<1>5. files'[f] = files[f] \o part /\ out'[f] = <<>> /\ kept' = kept
  BY <1>2 DEF CloseFile, FilesTypeOK, RowsOf, Files
<1>6. Written(f)' = added \o part
  <2>1. Written(f)' = Added(files[f] \o part, kept[f]) \o <<>>
    BY <1>5 DEF Written
  <2>2. Added(files[f] \o part, kept[f]) = added \o part
    BY <1>1, <1>4, AddedAppend
  <2>3. added \o part \in Seq(Nat)
    BY <1>1, <1>4, ConcatProperties
  <2> HIDE DEF added, part
  <2> QED
    BY <2>1, <2>2, <2>3, ConcatEmptySeq
<1>7. Len(kept[f]) =< Len(files'[f])
  <2>1. Len(files[f] \o part) = Len(files[f]) + Len(part) /\ Len(part) \in Nat
    BY <1>1, <1>4, ConcatProperties, LenProperties
  <2>2. Len(files'[f]) = Len(files[f] \o part)
    BY <1>5
  <2> HIDE DEF part
  <2> QED
    BY <1>1, <2>1, <2>2
<1>8. ASSUME ~cut'
      PROVE  ~cut /\ Written(f)' = Written(f)
  <2>1. ~cut /\ ~(n < Len(out[f]))
    BY <1>2, <1>8, Zenon
  <2>2. n = Len(out[f])
    BY <1>1, <1>3, <2>1
  <2>3. part = out[f]
    BY <1>1, <2>2, SubSeqFull
  <2> QED
    BY <1>6, <2>1, <2>3 DEF Written
<1>9. ASSUME NEW g \in Files \ {f}
      PROVE  Written(g)' = Written(g) /\ files'[g] = files[g]
  <2>1. files'[g] = files[g] /\ out'[g] = out[g]
    BY <1>2 DEF CloseFile, FilesTypeOK, RowsOf, Files
  <2> QED
    BY <1>5, <2>1 DEF Written
<1> HIDE DEF part, added
<1> QED
  BY <1>4, <1>5, <1>6, <1>7, <1>8, <1>9

LEMMA RemountKeeps ==
    ASSUME RamTypeOK, FilesTypeOK, AddedOK, Remount, NEW f \in Files
    PROVE  /\ Written(f)' = Written(f) /\ Added(files'[f], kept'[f]) = <<>>
           /\ at # "start" => Len(kept'[f]) =< Len(files'[f])
<1>1. PICK i \in FsInit(files) :
          /\ files' = i.files
          /\ kept' = IF at = "start" \/ i.files = files THEN kept ELSE i.files
  BY DEF Remount
<1>2. i.files \in {files, NoRows}
  BY FsInitType DEF FilesTypeOK
<1>3. Added(files[f], kept[f]) = <<>>
  BY DEF AddedOK, Remount
<1>4. <<>> \in Seq(Nat) /\ Len(<<>>) = 0
  BY EmptySeq
<1>5. Added(files'[f], kept'[f]) = <<>>
  <2>1. CASE files' = files
    BY <1>1, <1>3, <2>1
  <2>2. CASE files' # files
    <3>1. files'[f] = <<>> /\ (kept'[f] = kept[f] \/ kept'[f] = <<>>)
      BY <1>1, <1>2, <2>2, FilesFacts
    <3>2. kept'[f] \in Seq(Nat)
      BY <1>4, <3>1, FilesFacts
    <3>3. Len(<<>>) =< Len(kept'[f])
      BY <1>4, <3>2, LenProperties
    <3> QED
      BY <1>4, <3>1, <3>2, <3>3, AddedNothing
  <2> QED
    BY <2>1, <2>2
<1>6. Written(f)' = Written(f)
  <2>1. out' = out
    BY DEF Remount
  <2> QED
    BY <1>3, <1>5, <2>1 DEF Written
<1>7. ASSUME at # "start"
      PROVE  Len(kept'[f]) =< Len(files'[f])
  <2>1. CASE i.files = files
    BY <1>1, <1>7, <2>1 DEF AddedOK
  <2>2. CASE i.files # files
    <3>1. kept'[f] = <<>> /\ files'[f] = <<>>
      BY <1>1, <1>2, <1>7, <2>2, FilesFacts
    <3> QED
      BY <1>4, <3>1
  <2> QED
    BY <2>1, <2>2
<1> QED
  BY <1>5, <1>6, <1>7

\* Steps that leave the files, the handles and the ring alone.
Quiet ==
    \/ CopyEnd \/ NoFlush \/ FlushUnmounted \/ OpenTelemetry \/ FlushFail
    \/ ReadBegin \/ ReadEnd

LEMMA QuietStep ==
    ASSUME TypeOK, RingOK, FlushOK,
           Collect \/ Quiet \/ Done \/ UNCHANGED vars
    PROVE  /\ UNCHANGED <<files, kept, out, cut, mounted, first>>
           /\ at' = "start" <=> at = "start"
           /\ total - count =< total' - count' /\ total' - count' \in Nat
           /\ count < BufferSize \/ ~Collect => total' - count' = total - count
<1> USE DEF ram, ghosts, answer
<1>1. /\ total \in Nat /\ count \in Nat /\ first \in Nat /\ first + count =< total
      /\ count \in 0 .. BufferSize
  BY SizeAssumption DEF TypeOK, RamTypeOK, RingOK
<1>2. CASE Collect
  <2>1. /\ total' = total + 1 /\ count' = (IF count < BufferSize THEN count + 1 ELSE count)
        /\ at = "loop" /\ at' = "copy" /\ UNCHANGED <<files, kept, out, cut, mounted, first>>
    BY <1>2 DEF Collect, Goto
  <2> QED
    BY <1>1, <1>2, <2>1, SizeAssumption
<1>3. CASE ~Collect
  <2>1. UNCHANGED <<files, kept, out, cut, mounted, first, total, count>>
    BY <1>3 DEF Quiet, CopyEnd, NoFlush, FlushUnmounted, OpenTelemetry, FlushFail, ReadBegin,
                ReadEnd, Done, vars
  <2>2. at' = "start" <=> at = "start"
    BY <1>3 DEF Quiet, CopyEnd, NoFlush, FlushUnmounted, OpenTelemetry, FlushFail, ReadBegin,
                ReadEnd, Done, vars, Goto
  <2> QED
    BY <1>1, <2>1, <2>2
<1> QED
  BY <1>2, <1>3

LEMMA UpToMore ==
    ASSUME NEW s \in Seq(Nat), NEW a \in Nat, NEW b \in Nat, a =< b, UpTo(s, a)
    PROVE  UpTo(s, b)
  BY ElementOfSeq, LenProperties DEF UpTo

LEMMA Difference ==
    ASSUME NEW a \in Nat, NEW n \in 0 .. BufferSize, NEW c \in Nat, c + n =< a
    PROVE  a - n \in Nat
  BY SizeAssumption

LEMMA OldestType ==
    ASSUME RamTypeOK, RingOK
    PROVE  /\ total \in Nat /\ count \in Nat /\ first \in Nat /\ total - count \in Nat
           /\ first =< total - count /\ total - count =< total
  BY SizeAssumption DEF RamTypeOK, RingOK

LEMMA AddedStep ==
    TypeOK /\ RingOK /\ FlushOK /\ AddedOK /\ [Next]_vars => AddedOK'
<1> SUFFICES ASSUME TypeOK, RingOK, FlushOK, AddedOK, [Next]_vars
             PROVE  AddedOK'
  OBVIOUS
<1> USE DEF ram, ghosts, answer
<1>0. /\ RamTypeOK /\ FilesTypeOK /\ RamTypeOK' /\ FilesTypeOK' /\ RingOK'
      /\ "telemetry" \in Files /\ "sensor" \in Files /\ Files = {"telemetry", "sensor"}
      /\ total \in Nat /\ count \in Nat /\ first \in Nat
      /\ total - count \in Nat /\ total' - count' \in Nat
  <2>1. RamTypeOK /\ FilesTypeOK /\ RamTypeOK' /\ FilesTypeOK' /\ RingOK'
    BY TypeStep, RingStep DEF TypeOK
  <2>2. total \in Nat /\ count \in Nat /\ first \in Nat /\ total - count \in Nat
    BY <2>1, OldestType
  <2>3. total' - count' \in Nat
    <3>1. total' \in Nat /\ count' \in 0 .. BufferSize /\ first' \in Nat
      BY <2>1 DEF RamTypeOK
    <3>2. first' + count' =< total'
      BY <2>1 DEF RingOK
    <3> QED
      BY <3>1, <3>2, Difference
  <2> QED
    BY <2>1, <2>2, <2>3 DEF Files
<1>1. CASE InitFiles \/ Restart
  <2>1. kept' = files' /\ out' = NoRows
    <3>1. at = "start" => out = NoRows
      BY DEF FlushOK
    <3> QED
      BY <1>1, <3>1 DEF InitFiles, Restart, Goto
  <2>2. ASSUME NEW f \in Files
        PROVE  /\ Added(files'[f], kept'[f]) = <<>> /\ Len(kept'[f]) =< Len(files'[f])
               /\ Written(f)' = <<>> /\ Increasing(Written(f)') /\ UpTo(Written(f)', total' - count')
    <3>1. files'[f] \in Seq(Nat) /\ Len(files'[f]) \in Nat /\ out'[f] = <<>>
      <4>1. files' \in [Files -> Seq(Nat)]
        BY <1>0 DEF FilesTypeOK, RowsOf
      <4>2. files'[f] \in Seq(Nat)
        BY <4>1
      <4>3. NoRows[f] = <<>>
        BY DEF NoRows, Files
      <4> QED
        BY <2>1, <4>2, <4>3, LenProperties
    <3>2. Added(files'[f], kept'[f]) = <<>>
      BY <2>1, <3>1, AddedNothing
    <3>3. /\ Written(f)' = <<>> /\ Increasing(Written(f)')
          /\ \A n \in Nat : UpTo(Written(f)', n)
      <4>1. <<>> \in Seq(Nat) /\ Len(<<>>) = 0
        BY EmptySeq
      <4>2. Written(f)' = <<>>
        BY <3>1, <3>2, <4>1, ConcatEmptySeq DEF Written
      <4> QED
        BY <4>1, <4>2 DEF Increasing, UpTo
    <3> QED
      BY <1>0, <2>1, <3>1, <3>2, <3>3
  <2> QED
    BY <1>0, <2>2 DEF AddedOK
<1>2. CASE Collect \/ Quiet \/ Done \/ UNCHANGED vars
  <2>1. /\ UNCHANGED <<files, kept, out, cut, mounted>> /\ (at' = "start" <=> at = "start")
        /\ total - count =< total' - count'
    BY <1>2, QuietStep
  <2>2. ASSUME NEW f \in Files
        PROVE  /\ Written(f)' = Written(f)
               /\ Increasing(Written(f)') /\ UpTo(Written(f)', total' - count')
    <3>1. Written(f)' = Written(f)
      BY <2>1 DEF Written
    <3>2. UpTo(Written(f), total' - count')
      BY <1>0, <2>1, FilesFacts, UpToMore DEF AddedOK
    <3> QED
      BY <3>1, <3>2 DEF AddedOK
  <2> QED
    BY <1>0, <2>1, <2>2 DEF AddedOK
<1>3. CASE FlushWrite
  <2>1. /\ UNCHANGED <<files, kept, cut, total>> /\ at = "opened" /\ at' = "close" /\ mounted'
        /\ count' = 0
    BY <1>3 DEF FlushWrite, Goto, FlushOK
  <2>2. \A f \in Files : Written(f)' = Written(f) \o Numbers(total - count, total)
    BY <1>0, <1>3, FlushWriteAdds
  <2>3. ASSUME NEW f \in Files
        PROVE  Increasing(Written(f)') /\ UpTo(Written(f)', total' - count')
    <3>1. Written(f) \in Seq(Nat) /\ Increasing(Written(f)) /\ UpTo(Written(f), total - count)
      BY <1>0, FilesFacts DEF AddedOK
    <3>2. total - count =< total /\ total' - count' = total
      BY <1>0, <2>1
    <3>3. /\ Increasing(Written(f) \o Numbers(total - count, total))
          /\ UpTo(Written(f) \o Numbers(total - count, total), total)
      BY <1>0, <3>1, <3>2, IncreasingConcat
    <3> QED
      BY <2>2, <3>2, <3>3
  <2> QED
    BY <1>0, <2>1, <2>2, <2>3 DEF AddedOK
<1>4. ASSUME NEW f \in Files, CloseFile(f), at \in {"close", "close2"}, at' # "start",
             UNCHANGED <<mounted, total, count>>
      PROVE  AddedOK'
  <2>1. /\ \A g \in Files : /\ Len(kept[g]) =< Len(files[g])
                            /\ Increasing(Written(g)) /\ UpTo(Written(g), total - count)
        /\ mounted
    BY <1>4 DEF AddedOK, FlushOK
  <2>2. /\ Increasing(Written(f)') /\ UpTo(Written(f)', total - count)
        /\ ~cut' => ~cut /\ Written(f)' = Written(f)
        /\ kept' = kept /\ Len(kept[f]) =< Len(files'[f])
        /\ \A g \in Files \ {f} : Written(g)' = Written(g) /\ files'[g] = files[g]
    BY <1>0, <1>4, <2>1, CloseKeeps
  <2>3. \A g \in Files : /\ Increasing(Written(g)') /\ UpTo(Written(g)', total' - count')
                         /\ Len(kept'[g]) =< Len(files'[g])
                         /\ ~cut' => ~cut /\ Written(g)' = Written(g)
    <3>1. ~cut' => ~cut
      BY <2>2
    <3> QED
      BY <1>4, <2>1, <2>2, <3>1
  <2>4. ~cut' => Written("telemetry")' = Written("sensor")'
    BY <1>0, <2>3 DEF AddedOK
  <2> QED
    BY <1>4, <2>1, <2>3, <2>4 DEF AddedOK
<1>5. CASE CloseTelemetry
  BY <1>0, <1>4, <1>5 DEF CloseTelemetry, CloseFile, Goto
<1>6. CASE CloseSensor
  BY <1>0, <1>4, <1>6 DEF CloseSensor, CloseFile, Goto
<1>7. CASE Remount
  <2>1. \A f \in Files : /\ Written(f)' = Written(f) /\ Added(files'[f], kept'[f]) = <<>>
                         /\ at # "start" => Len(kept'[f]) =< Len(files'[f])
    BY <1>0, <1>7, RemountKeeps
  <2>2. UNCHANGED <<at, cut, total, count>>
    BY <1>7 DEF Remount
  <2> QED
    BY <1>0, <2>1, <2>2 DEF AddedOK
<1> QED
  BY <1>1, <1>2, <1>3, <1>5, <1>6, <1>7 DEF Next, Core1Step, Quiet

LEMMA WholeStep ==
    TypeOK /\ RingOK /\ CountOK /\ FlushOK /\ AddedOK /\ WholeOK /\ [Next]_vars => WholeOK'
<1> SUFFICES ASSUME TypeOK, RingOK, CountOK, FlushOK, AddedOK, WholeOK, [Next]_vars,
                    (worst' + 1) * FlushThreshold =< BufferSize, ~cut'
             PROVE  Written("telemetry")' = Numbers(first', total' - count')
  BY DEF WholeOK
<1> USE DEF ram, ghosts, answer
<1>0. /\ RamTypeOK /\ FilesTypeOK /\ RamTypeOK' /\ FilesTypeOK' /\ "telemetry" \in Files
      /\ total \in Nat /\ count \in Nat /\ first \in Nat /\ total - count \in Nat
      /\ worst \in Nat /\ worst' \in Nat /\ misses \in Nat /\ misses =< worst
      /\ first =< total - count /\ total - count =< total
  <2>1. RamTypeOK /\ FilesTypeOK /\ RamTypeOK' /\ FilesTypeOK'
    BY TypeStep DEF TypeOK
  <2>2. worst \in Nat /\ worst' \in Nat /\ misses \in Nat /\ misses =< worst
    BY <2>1 DEF RamTypeOK, CountOK
  <2> QED
    BY <2>1, <2>2, OldestType DEF Files
\* A step that does not make the worst row of failures better is from a state like it.
<1>1. ASSUME worst =< worst', ~cut
      PROVE  Written("telemetry") = Numbers(first, total - count)
  <2>1. (worst + 1) * FlushThreshold =< (worst' + 1) * FlushThreshold
    BY <1>0, <1>1, Thresholds
  <2>2. (worst + 1) * FlushThreshold \in Int /\ (worst' + 1) * FlushThreshold \in Int
    BY <1>0, SizeAssumption
  <2>3. (worst + 1) * FlushThreshold =< BufferSize
    BY <2>1, <2>2, SizeAssumption
  <2> QED
    BY <1>1, <2>3 DEF WholeOK
<1>2. CASE InitFiles \/ Restart
  <2>1. kept' = files' /\ out' = NoRows
    <3>1. at = "start" => out = NoRows
      BY DEF FlushOK
    <3> QED
      BY <1>2, <3>1 DEF InitFiles, Restart, Goto
  <2>2. /\ files'["telemetry"] \in Seq(Nat) /\ out'["telemetry"] = <<>>
        /\ Len(files'["telemetry"]) \in Nat
    BY <1>0, <2>1, FilesFacts DEF NoRows, RowsOf, FilesTypeOK
  <2>3. Added(files'["telemetry"], kept'["telemetry"]) = <<>>
    BY <2>1, <2>2, AddedNothing
  <2>4. Written("telemetry")' = <<>>
    <3>1. <<>> \in Seq(Nat)
      BY EmptySeq
    <3> QED
      BY <2>2, <2>3, <3>1, ConcatEmptySeq DEF Written
  <2>5. total' - count' = first' /\ first' \in Nat
    <3>1. at = "start" => total = first /\ count = 0
      BY DEF FlushOK
    <3>2. count' = 0 /\ total' = total /\ first' = total
      BY <1>2, <3>1 DEF InitFiles, Restart, Goto
    <3> QED
      BY <1>0, <3>2
  <2>6. Numbers(first', first') = <<>>
    BY <2>5, NumbersSelf
  <2> QED
    BY <2>4, <2>5, <2>6
<1>3. CASE Collect \/ Quiet \/ Done \/ UNCHANGED vars
  <2>1. UNCHANGED <<files, kept, out, cut, first>>
    BY <1>3, QuietStep
  <2>2. worst =< worst'
    BY <1>0, <1>3 DEF Collect, Quiet, CopyEnd, NoFlush, FlushUnmounted, OpenTelemetry, FlushFail,
                      Missed, ReadBegin, ReadEnd, Done, vars
  <2>3. Written("telemetry")' = Written("telemetry")
    BY <2>1 DEF Written
  <2>4. total' - count' = total - count
    <3>1. CASE Collect
      <4>1. at = "loop" /\ worst' = worst /\ counter \in Nat
        BY <1>0, <3>1 DEF Collect, Goto, RamTypeOK
      <4>2. count =< (misses * FlushThreshold) + counter /\ counter < FlushThreshold
        BY <1>0, <4>1, Thresholds DEF CountOK, InHand
      <4>3. /\ misses * FlushThreshold \in Nat /\ worst * FlushThreshold \in Nat
            /\ (worst + 1) * FlushThreshold = (worst * FlushThreshold) + FlushThreshold
            /\ misses * FlushThreshold =< worst * FlushThreshold
        <5>1. worst =< worst
          BY <1>0
        <5> QED
          BY <1>0, <5>1, Thresholds
      <4>4. (worst * FlushThreshold) + FlushThreshold =< BufferSize
        BY <4>1, <4>3
      <4>5. count < BufferSize
        BY <1>0, <4>1, <4>2, <4>3, <4>4, SizeAssumption
      <4> QED
        BY <1>3, <4>5, QuietStep
    <3>2. CASE ~Collect
      BY <1>3, <3>2, QuietStep
    <3> QED
      BY <3>1, <3>2
  <2> QED
    BY <1>1, <2>1, <2>2, <2>3, <2>4
<1>4. CASE FlushWrite
  <2>1. worst' = worst /\ cut' = cut /\ total' = total /\ count' = 0 /\ first' = first
    BY <1>4 DEF FlushWrite
  <2>2. Written("telemetry") = Numbers(first, total - count)
    BY <1>0, <1>1, <2>1
  <2>3. Written("telemetry")' = Numbers(first, total - count) \o Numbers(total - count, total)
    BY <1>0, <1>4, <2>2, FlushWriteAdds
  <2>4. Written("telemetry")' = Numbers(first, total)
    BY <1>0, <2>3, NumbersConcat
  <2>5. total' - count' = total
    BY <1>0, <2>1
  <2> QED
    BY <2>1, <2>4, <2>5
<1>5. ASSUME NEW f \in Files, CloseFile(f), at \in {"close", "close2"},
             UNCHANGED <<total, count, first, worst>>
      PROVE  Written("telemetry")' = Numbers(first', total' - count')
  <2>1. /\ Len(kept[f]) =< Len(files[f])
        /\ Increasing(Written(f)) /\ UpTo(Written(f), total - count)
    BY <1>5 DEF AddedOK
  <2>2. /\ ~cut' => ~cut /\ Written(f)' = Written(f)
        /\ \A g \in Files \ {f} : Written(g)' = Written(g)
    BY <1>0, <1>5, <2>1, CloseKeeps
  <2>3. ~cut /\ Written("telemetry")' = Written("telemetry")
    BY <1>0, <2>2
  <2> QED
    BY <1>0, <1>1, <1>5, <2>3
<1>6. CASE CloseTelemetry
  BY <1>0, <1>5, <1>6 DEF CloseTelemetry, CloseFile, Goto, Files
<1>7. CASE CloseSensor
  BY <1>0, <1>5, <1>7 DEF CloseSensor, CloseFile, Goto, Files
<1>8. CASE Remount
  <2>1. Written("telemetry")' = Written("telemetry")
    BY <1>0, <1>8, RemountKeeps
  <2>2. UNCHANGED <<total, count, first, worst, cut>>
    BY <1>8 DEF Remount
  <2> QED
    BY <1>0, <1>1, <2>1, <2>2
<1> QED
  BY <1>2, <1>3, <1>4, <1>6, <1>7, <1>8 DEF Next, Core1Step, Quiet

-----------------------------------------------------------------------------
(* The theorems.                                                           *)

LEMMA InitInv == Init => IInv
<1> SUFFICES ASSUME Init
             PROVE  IInv
  OBVIOUS
<1>1. RamTypeOK /\ FilesTypeOK
  BY InitType DEF TypeOK
<1>2. /\ at = "start" /\ counter = 0 /\ count = 0 /\ writeIndex = 0 /\ sensor = telemetry
      /\ lastCopy.from = 0 /\ lastCopy.to = 0 /\ out = NoRows /\ files = NoRows /\ kept = NoRows
      /\ total = 0 /\ first = 0 /\ misses = 0 /\ worst = 0 /\ cut = FALSE
  BY BootRamType DEF Init
<1>3. RingOK
  BY <1>2, SizeAssumption DEF RingOK
<1>4. CopyOK /\ ReaderOK
  BY <1>2 DEF CopyOK, Told, Complete, Init, NotReading, ReaderOK
<1>5. CountOK
  <2>1. 0 * FlushThreshold = 0 /\ 0 < FlushThreshold
    BY SizeAssumption
  <2>2. misses * FlushThreshold = 0
    BY <1>2, <2>1
  <2>3. count =< misses * FlushThreshold + counter + InHand
    BY <1>2, <2>2 DEF InHand
  <2>4. counter < FlushThreshold /\ counter =< FlushThreshold /\ misses =< worst
    BY <1>2, <2>1, SizeAssumption
  <2> QED
    BY <1>2, <2>3, <2>4 DEF CountOK
<1>6. FlushOK
  BY <1>2 DEF FlushOK
<1>7. ASSUME NEW f \in Files
      PROVE  /\ Added(files[f], kept[f]) = <<>> /\ Written(f) = <<>> /\ Increasing(Written(f))
             /\ UpTo(Written(f), 0) /\ Numbers(0, 0) = Written(f)
  <2>1. files[f] = <<>> /\ kept[f] = <<>> /\ out[f] = <<>> /\ <<>> \in Seq(Nat) /\ Len(<<>>) = 0
    BY <1>1, <1>2, FilesFacts, EmptySeq
  <2>2. Added(files[f], kept[f]) = <<>>
    <3>1. Len(<<>>) =< Len(<<>>) /\ <<>> \in Seq(Nat)
      BY <2>1
    <3>2. Added(<<>>, <<>>) = <<>>
      BY <3>1, AddedNothing
    <3> QED
      BY <2>1, <3>2
  <2> QED
    BY <1>1, <2>1, <2>2, NothingWritten
<1>8. total - count = 0 /\ "telemetry" \in Files /\ "sensor" \in Files
  BY <1>2 DEF Files
<1>9. AddedOK
  BY <1>2, <1>7, <1>8 DEF AddedOK
<1>10. WholeOK
  BY <1>2, <1>7, <1>8 DEF WholeOK
<1> QED
  BY <1>1, <1>3, <1>4, <1>5, <1>6, <1>9, <1>10 DEF IInv, TypeOK

LEMMA NextInv == IInv /\ [Next]_vars => IInv'
  BY TypeStep, RingStep, CopyStep, ReaderStep, CountStep, FlushStep, AddedStep, WholeStep DEF IInv, TypeOK

\* The strengthening holds in every reachable state.
THEOREM InductiveInvariant == Spec => []IInv
  BY InitInv, NextInv, PTL DEF Spec

\* The files go in step, however many flushes fail and restarts there are.
THEOREM Paired == Spec => []FilesPaired
<1>1. IInv => FilesPaired
  BY DEF IInv, AddedOK, FilesPaired
<1> QED
  BY <1>1, InductiveInvariant, PTL

\* The buffer has the newest records; and as long as it has not overflown and no
\* write was cut short, file and buffer have every record of this boot.
THEOREM NoLoss == Spec => []NoLossWhileBuffered
<1>1. IInv => NoLossWhileBuffered
  <2> SUFFICES ASSUME IInv
               PROVE  NoLossWhileBuffered
    OBVIOUS
  <2>1. Rows(telemetry) = Numbers(total - count, total)
    BY RowsNumbers DEF IInv, TypeOK
  <2>2. Numbers(first, total - count) \o Numbers(total - count, total) = Numbers(first, total)
    BY OldestType, NumbersConcat DEF IInv, TypeOK
  <2> QED
    BY <2>1, <2>2 DEF IInv, WholeOK, NoLossWhileBuffered
<1> QED
  BY <1>1, InductiveInvariant, PTL

\* Whatever fails, no row is in a file twice, and none out of order.
THEOREM Once == Spec => []RowsOnce
<1>1. IInv => RowsOnce
  <2> SUFFICES ASSUME IInv, NEW f \in Files
               PROVE  Increasing(Written(f) \o Rows(telemetry))
    BY DEF RowsOnce, Increasing, Files
  <2>1. Rows(telemetry) = Numbers(total - count, total)
    BY RowsNumbers DEF IInv, TypeOK
  <2>2. Written(f) \in Seq(Nat) /\ Increasing(Written(f)) /\ UpTo(Written(f), total - count)
    BY FilesFacts DEF IInv, TypeOK, AddedOK
  <2>3. total \in Nat /\ total - count \in Nat /\ total - count =< total
    BY OldestType DEF IInv, TypeOK
  <2> QED
    BY <2>1, <2>2, <2>3, IncreasingConcat
<1> QED
  BY <1>1, InductiveInvariant, PTL

\* However the steps of core 1 fall between the fields that command 8.2 reads, each is of
\* a record that was the newest at some time while it was read.
THEOREM LastRecord82 == Spec => LastRecordTold
<1> DEFINE TellsNewest ==
      reader.busy /\ ~reader'.busy /\ reply'.op = "VAL" =>
           LET told == {Told(n) : n \in reader.since .. total}
           IN  reply'.from \in told /\ reply'.to \in told
<1>1. IInv /\ [Next]_vars => [TellsNewest]_vars
  <2> SUFFICES ASSUME IInv, [Next]_vars, reader.busy, ~reader'.busy, reply'.op = "VAL"
               PROVE  /\ \E n \in reader.since .. total : reply'.from = Told(n)
                      /\ \E n \in reader.since .. total : reply'.to = Told(n)
    OBVIOUS
  <2>1. ReadEnd
    BY DEF Next, Core1Step, InitFiles, Collect, CopyEnd, NoFlush, FlushUnmounted, OpenTelemetry,
           FlushFail, FlushWrite, CloseTelemetry, CloseSensor, CloseFile, Remount, ReadBegin,
           Restart, NoReply, Done, vars, answer
  <2>2. reply'.from = reader.from /\ reply'.to = lastCopy.to /\ lastCopy.to = Told(Complete)
    BY <2>1 DEF ReadEnd, LastRecord, IInv, CopyOK
  <2>3. /\ Complete \in Nat /\ Complete =< total /\ total \in Nat /\ reader.since \in Int
        /\ reader.since =< Complete
    BY CompleteType DEF IInv, TypeOK, RamTypeOK, ReaderOK
  <2> QED
    BY <2>2, <2>3 DEF IInv, ReaderOK
<1> QED
  BY <1>1, InductiveInvariant, PTL DEF Spec, LastRecordTold
-----------------------------------------------------------------------------
(* The clock.                                                              *)

\* Quotient and remainder determine each other.
LEMMA Remainder ==
    ASSUME NEW m \in Nat \ {0}, NEW x \in Int, NEW q \in Int, NEW r \in 0 .. (m - 1),
           x = (m * q) + r
    PROVE  (x % m) = r
  OBVIOUS

LEMMA Division ==
    ASSUME NEW m \in Nat \ {0}, NEW x \in Int
    PROVE  /\ (x \div m) \in Int /\ (x % m) \in 0 .. (m - 1)
           /\ x = (m * (x \div m)) + (x % m)
  OBVIOUS

\* The unsigned difference of two wrapped times is their distance, wrapped.
LEMMA WrappedDifference ==
    ASSUME NEW a \in Nat, NEW b \in Nat
    PROVE  (((a % Wrap) - (b % Wrap)) % Wrap) = ((a - b) % Wrap)
<1> DEFINE qa == a \div Wrap
           qb == b \div Wrap
           d == (a % Wrap) - (b % Wrap)
<1>1. /\ Wrap \in Nat \ {0}
      /\ qa \in Int /\ qb \in Int /\ (a % Wrap) \in Int /\ (b % Wrap) \in Int
      /\ a = (Wrap * qa) + (a % Wrap) /\ b = (Wrap * qb) + (b % Wrap)
  BY TimerAssumption, Division
<1>2. d \in Int
  BY <1>1
<1>3. /\ (d \div Wrap) \in Int /\ (d % Wrap) \in 0 .. (Wrap - 1)
      /\ d = (Wrap * (d \div Wrap)) + (d % Wrap)
  BY <1>1, <1>2, Division
<1>4. a - b = (Wrap * ((qa - qb) + (d \div Wrap))) + (d % Wrap)
  <2> HIDE DEF qa, qb
  <2>1. a - b = ((Wrap * qa) - (Wrap * qb)) + d
    BY <1>1
  <2>2. (Wrap * qa) - (Wrap * qb) = Wrap * (qa - qb)
    BY <1>1
  <2> HIDE DEF d
  <2>3. Wrap * ((qa - qb) + (d \div Wrap)) = (Wrap * (qa - qb)) + (Wrap * (d \div Wrap))
    BY <1>1, <1>3
  <2> QED
    BY <1>1, <1>2, <1>3, <2>1, <2>2, <2>3
<1>5. (qa - qb) + (d \div Wrap) \in Int
  BY <1>1, <1>3
<1>6. ((a - b) % Wrap) = (d % Wrap)
  <2> DEFINE k == (qa - qb) + (d \div Wrap)
             r == d % Wrap
             x == a - b
  <2>1. x \in Int /\ k \in Int /\ r \in 0 .. (Wrap - 1) /\ x = (Wrap * k) + r
    BY <1>3, <1>4, <1>5
  <2> HIDE DEF k, r, x
  <2>2. (x % Wrap) = r
    BY <1>1, <2>1, Remainder
  <2> QED
    BY <2>2 DEF x, r
<1> HIDE DEF d
<1> QED
  BY <1>6 DEF d

\* A distance shorter than the wrap is not changed, a longer one shrinks.
LEMMA WrappedDistance ==
    ASSUME NEW x \in Nat
    PROVE  (x % Wrap) =< x /\ (x < Wrap => (x % Wrap) = x)
BY TimerAssumption, Division

\* What the test of is_telemetry_collection_time computes.
LEMMA CollectionTest ==
    ASSUME TimerIInv, NEW d \in 1 .. MaxGap
    PROVE  /\ CollectionTime(now + d) <=> (((now + d) - since) % Wrap) >= Interval
           /\ (((now + d) - since) % Wrap) = (now + d) - since
<1>1. now + d \in Nat /\ since \in Nat /\ since =< now /\ d =< MaxGap /\ MaxGap \in Nat
  BY TimerAssumption DEF TimerIInv, TimerTypeOK
<1>2. last = since % Wrap
  BY DEF TimerIInv, CurrentTime
<1>3. (((now + d) % Wrap) - last) % Wrap = (((now + d) - since) % Wrap)
  BY <1>1, <1>2, WrappedDifference
<1>4. (now + d) - since \in Nat /\ (now + d) - since < Wrap
  BY <1>1, TimerAssumption DEF TimerIInv, NeverOverdue, TimerTypeOK
<1> QED
  BY <1>3, <1>4, WrappedDistance DEF CollectionTime, CurrentTime

\* One round of the loop keeps the invariant.
LEMMA TimerStep == TimerIInv /\ [TimerNext]_timerVars => TimerIInv'
<1> SUFFICES ASSUME TimerIInv, [TimerNext]_timerVars PROVE TimerIInv'
  OBVIOUS
<1>1. now \in Nat /\ since \in 0 .. now /\ last \in 0 .. (Wrap - 1)
  BY DEF TimerIInv, TimerTypeOK
<1>2. ASSUME NEW d \in 1 .. MaxGap, TakeSample(now + d)
      PROVE  TimerIInv'
  <2>1. now' = now + d /\ since' = now + d /\ last' = CurrentTime(now + d)
    BY <1>2 DEF TakeSample, Look
  <2>2. now + d \in Nat
    BY <1>1, TimerAssumption
  <2>3. CurrentTime(now + d) \in 0 .. (Wrap - 1)
    <3>1. now + d \in Int /\ Wrap \in Nat \ {0}
      BY <2>2, TimerAssumption
    <3> QED
      BY <3>1, Division DEF CurrentTime
  <2> QED
    BY <2>1, <2>2, <2>3, TimerAssumption DEF TimerIInv, TimerTypeOK, NeverOverdue, CurrentTime
<1>3. ASSUME NEW d \in 1 .. MaxGap, SkipSample(now + d)
      PROVE  TimerIInv'
  <2>1. now' = now + d /\ UNCHANGED <<since, last>> /\ ~CollectionTime(now + d)
    BY <1>3 DEF SkipSample, Look
  <2>2. (now + d) - since < Interval
    <3>1. ~((now + d) - since >= Interval)
      BY <2>1, CollectionTest
    <3> QED
      BY <3>1, <1>1, TimerAssumption
  <2> QED
    BY <1>1, <2>1, <2>2, TimerAssumption DEF TimerIInv, TimerTypeOK, NeverOverdue, CurrentTime
<1>4. CASE UNCHANGED timerVars
  BY <1>4 DEF TimerIInv, TimerTypeOK, NeverOverdue, CurrentTime, timerVars
<1> QED
  BY <1>2, <1>3, <1>4 DEF TimerNext, TimerDone

LEMMA TimerStart == TimerInit => TimerIInv
BY TimerAssumption, WrappedDistance DEF TimerInit, TimerIInv, TimerTypeOK, NeverOverdue, CurrentTime

\* A look at the clock that finds the interval passed comes no sooner.
LEMMA CollectSpaced ==
    ASSUME TimerIInv, TimerNext, TakeSample(now')
    PROVE  now' - since >= Interval
<1>1. PICK d \in 1 .. MaxGap : now' = now + d
  <2>1. now' \in (now + 1) .. (now + MaxGap)
    BY DEF TakeSample, Look
  <2>2. now \in Nat /\ MaxGap \in Nat
    BY TimerAssumption DEF TimerIInv, TimerTypeOK
  <2>3. \A t \in (now + 1) .. (now + MaxGap) :
            t - now \in 1 .. MaxGap /\ t = now + (t - now)
    BY <2>2
  <2> QED
    BY <2>1, <2>3
<1>2. CollectionTime(now + d)
  BY <1>1 DEF TakeSample
<1> QED
  BY <1>1, <1>2, CollectionTest

-----------------------------------------------------------------------------
(* The events of the power monitor.                                        *)

\* emit_power_events is first called with all flags at their initial values.
LEMMA PowerStart == PowerInit => PowerIInv
<1> SUFFICES ASSUME PowerInit PROVE PowerIInv
  OBVIOUS
<1>1. PowerTypeOK
  BY DEF PowerInit, PowerTypeOK, TopicType, Nothing, flags
<1>2. EventsTellState /\ NoEventRepeated
  BY DEF PowerInit, EventsTellState, NoEventRepeated, Topics, Nothing
<1> QED
  BY <1>1, <1>2 DEF PowerInit, PowerIInv, Nothing

\* What one call emits for each topic.
LEMMA EventTypes ==
    ASSUME NEW s \in Samples
    PROVE  /\ UsbEvent(s) \in {"none", "USB_CONNECTED", "USB_DISCONNECTED"}
           /\ SolarEvent(s) \in {"none", "SOLAR_ACTIVE", "SOLAR_INACTIVE"}
           /\ BatteryEvent(s) \in {"none", "BATTERY_LOW", "BATTERY_NORMAL", "BATTERY_FULL"}
           /\ ChargeEvent(s) \in {"none", "CHARGING", "DISCHARGING"}
BY DEF UsbEvent, SolarEvent, BatteryEvent, ChargeEvent, Above

\* The usb topic: what the ground was told goes with the flag, and is on the right
\* side of the level.
LEMMA Usb ==
    ASSUME PowerIInv, NEW s \in Samples, EmitPowerEvents(s)
    PROVE  /\ usb' \in BOOLEAN
           /\ usb' <=> seen'.usb = "USB_CONNECTED"
           /\ s.usb > CurrentThreshold => seen'.usb = "USB_CONNECTED"
           /\ s.usb < CurrentThreshold => seen'.usb # "USB_CONNECTED"
           /\ UsbEvent(s) # "none" => UsbEvent(s) # seen.usb
<1>1. usb \in BOOLEAN /\ (usb <=> seen.usb = "USB_CONNECTED")
  BY DEF PowerIInv, PowerTypeOK, flags
<1>2. /\ usb' = Flag(usb, UsbEvent(s), "USB_CONNECTED")
      /\ seen'.usb = IF UsbEvent(s) = "none" THEN seen.usb ELSE UsbEvent(s)
  BY DEF EmitPowerEvents, Events, Topics
<1>3. s.usb \in Int /\ CurrentThreshold \in Int
  BY UnitAssumption, ThresholdAssumption DEF Samples
<1>4. CASE s.usb > CurrentThreshold /\ ~usb
  <2>1. UsbEvent(s) = "USB_CONNECTED"
    BY <1>4 DEF UsbEvent, Above
  <2>2. usb' = TRUE /\ seen'.usb = "USB_CONNECTED"
    BY <1>2, <2>1 DEF Flag
  <2>3. ~(s.usb < CurrentThreshold)
    BY <1>3, <1>4
  <2> QED
    BY <1>1, <1>4, <2>1, <2>2, <2>3
<1>5. CASE s.usb < CurrentThreshold /\ usb
  <2>1. ~(s.usb > CurrentThreshold)
    BY <1>3, <1>5
  <2>2. UsbEvent(s) = "USB_DISCONNECTED"
    BY <1>5, <2>1 DEF UsbEvent, Above
  <2>3. usb' = FALSE /\ seen'.usb = "USB_DISCONNECTED"
    BY <1>2, <2>2 DEF Flag
  <2> QED
    BY <1>1, <1>5, <2>1, <2>2, <2>3
<1>6. CASE ~(s.usb > CurrentThreshold /\ ~usb) /\ ~(s.usb < CurrentThreshold /\ usb)
  BY <1>1, <1>2, <1>6 DEF UsbEvent, Above, Flag
<1> QED
  BY <1>4, <1>5, <1>6

\* The solar topic: what the ground was told goes with the flag, and is on the right
\* side of the level.
LEMMA Solar ==
    ASSUME PowerIInv, NEW s \in Samples, EmitPowerEvents(s)
    PROVE  /\ solar' \in BOOLEAN
           /\ solar' <=> seen'.solar = "SOLAR_ACTIVE"
           /\ s.solar > CurrentThreshold => seen'.solar = "SOLAR_ACTIVE"
           /\ s.solar < CurrentThreshold => seen'.solar # "SOLAR_ACTIVE"
           /\ SolarEvent(s) # "none" => SolarEvent(s) # seen.solar
<1>1. solar \in BOOLEAN /\ (solar <=> seen.solar = "SOLAR_ACTIVE")
  BY DEF PowerIInv, PowerTypeOK, flags
<1>2. /\ solar' = Flag(solar, SolarEvent(s), "SOLAR_ACTIVE")
      /\ seen'.solar = IF SolarEvent(s) = "none" THEN seen.solar ELSE SolarEvent(s)
  BY DEF EmitPowerEvents, Events, Topics
<1>3. s.solar \in Int /\ CurrentThreshold \in Int
  BY UnitAssumption, ThresholdAssumption DEF Samples
<1>4. CASE s.solar > CurrentThreshold /\ ~solar
  <2>1. SolarEvent(s) = "SOLAR_ACTIVE"
    BY <1>4 DEF SolarEvent, Above
  <2>2. solar' = TRUE /\ seen'.solar = "SOLAR_ACTIVE"
    BY <1>2, <2>1 DEF Flag
  <2>3. ~(s.solar < CurrentThreshold)
    BY <1>3, <1>4
  <2> QED
    BY <1>1, <1>4, <2>1, <2>2, <2>3
<1>5. CASE s.solar < CurrentThreshold /\ solar
  <2>1. ~(s.solar > CurrentThreshold)
    BY <1>3, <1>5
  <2>2. SolarEvent(s) = "SOLAR_INACTIVE"
    BY <1>5, <2>1 DEF SolarEvent, Above
  <2>3. solar' = FALSE /\ seen'.solar = "SOLAR_INACTIVE"
    BY <1>2, <2>2 DEF Flag
  <2> QED
    BY <1>1, <1>5, <2>1, <2>2, <2>3
<1>6. CASE ~(s.solar > CurrentThreshold /\ ~solar) /\ ~(s.solar < CurrentThreshold /\ solar)
  BY <1>1, <1>2, <1>6 DEF SolarEvent, Above, Flag
<1> QED
  BY <1>4, <1>5, <1>6

\* The charge topic starts as if CHARGING had been told.
LEMMA Charge ==
    ASSUME PowerIInv, NEW s \in Samples, EmitPowerEvents(s)
    PROVE  /\ charging' \in BOOLEAN
           /\ charging' <=> seen'.charge # "DISCHARGING"
           /\ s.solar + s.usb > s.draw => seen'.charge # "DISCHARGING"
           /\ s.solar + s.usb < s.draw => seen'.charge = "DISCHARGING"
           /\ ChargeEvent(s) # "none" => ChargeEvent(s) # seen.charge
<1>1. /\ charging \in BOOLEAN
      /\ charging <=> seen.charge # "DISCHARGING"
      /\ seen.charge \in {"none", "CHARGING", "DISCHARGING"}
  BY DEF PowerIInv, PowerTypeOK, flags, TopicType
<1>2. /\ charging' = Flag(charging, ChargeEvent(s), "CHARGING")
      /\ seen'.charge = IF ChargeEvent(s) = "none" THEN seen.charge ELSE ChargeEvent(s)
  BY DEF EmitPowerEvents, Events, Topics
<1>3. s.solar \in Int /\ s.usb \in Int /\ s.draw \in Int
  BY UnitAssumption DEF Samples
<1>4. CASE s.solar + s.usb > s.draw /\ ~charging
  <2>1. ChargeEvent(s) = "CHARGING"
    BY <1>4 DEF ChargeEvent, Above
  <2>2. charging' = TRUE /\ seen'.charge = "CHARGING" /\ seen.charge = "DISCHARGING"
    BY <1>1, <1>2, <1>4, <2>1 DEF Flag
  <2>3. ~(s.solar + s.usb < s.draw)
    BY <1>3, <1>4
  <2> QED
    BY <2>1, <2>2, <2>3
<1>5. CASE s.solar + s.usb < s.draw /\ charging
  <2>1. ~(s.solar + s.usb > s.draw)
    BY <1>3, <1>5
  <2>2. ChargeEvent(s) = "DISCHARGING"
    BY <1>5, <2>1 DEF ChargeEvent, Above
  <2>3. charging' = FALSE /\ seen'.charge = "DISCHARGING" /\ seen.charge # "DISCHARGING"
    BY <1>1, <1>2, <1>5, <2>2 DEF Flag
  <2> QED
    BY <2>1, <2>2, <2>3
<1>6. CASE ~(s.solar + s.usb > s.draw /\ ~charging) /\ ~(s.solar + s.usb < s.draw /\ charging)
  BY <1>1, <1>2, <1>3, <1>6 DEF ChargeEvent, Above, Flag
<1> QED
  BY <1>4, <1>5, <1>6

\* The battery topic: four branches, and the flags are never both set.
LEMMA Battery ==
    ASSUME PowerIInv, NEW s \in Samples, EmitPowerEvents(s)
    PROVE  /\ low' \in BOOLEAN /\ full' \in BOOLEAN /\ ~(low' /\ full')
           /\ low' <=> seen'.battery = "BATTERY_LOW"
           /\ full' <=> seen'.battery = "BATTERY_FULL"
           /\ s.battery < Low => seen'.battery = "BATTERY_LOW"
           /\ s.battery > Full => seen'.battery = "BATTERY_FULL"
           /\ Low < s.battery /\ s.battery < Full =>
                 seen'.battery \in {"none", "BATTERY_NORMAL"}
           /\ BatteryEvent(s) # "none" => BatteryEvent(s) # seen.battery
<1>1. /\ low \in BOOLEAN /\ full \in BOOLEAN /\ ~(low /\ full)
      /\ low <=> seen.battery = "BATTERY_LOW"
      /\ full <=> seen.battery = "BATTERY_FULL"
      /\ seen.battery \in {"none", "BATTERY_LOW", "BATTERY_NORMAL", "BATTERY_FULL"}
  BY DEF PowerIInv, PowerTypeOK, flags, TopicType
<1>2. /\ low' = (ToLow(s) \/ (low /\ ~ToFull(s) /\ ~LeaveLow(s)))
      /\ full' = (ToFull(s) \/ (full /\ ~ToLow(s) /\ ~LeaveFull(s)))
      /\ seen'.battery = IF BatteryEvent(s) = "none" THEN seen.battery ELSE BatteryEvent(s)
  BY DEF EmitPowerEvents, Events, Topics, LowAfter, FullAfter
<1>3. s.battery \in Int /\ Low \in Int /\ Full \in Int /\ Low < Full
  BY UnitAssumption, ThresholdAssumption DEF Samples
<1>4. CASE s.battery < Low
  <2>1. ~(s.battery > Full) /\ ~(s.battery > Low)
    BY <1>3, <1>4
  <2>2. (ToLow(s) <=> ~low) /\ ~ToFull(s) /\ ~LeaveLow(s)
    BY <1>4, <2>1 DEF ToLow, ToFull, LeaveLow
  <2>3. ~LeaveFull(s)
    BY <1>1, <2>2 DEF LeaveFull
  <2>4. BatteryEvent(s) = IF low THEN "none" ELSE "BATTERY_LOW"
    BY <1>1, <2>2, <2>3 DEF BatteryEvent
  <2>5. low' = TRUE /\ full' = FALSE
    BY <1>1, <1>2, <2>2, <2>3
  <2> QED
    BY <1>1, <1>2, <2>1, <2>4, <2>5
<1>5. CASE s.battery > Full
  <2>1. ~(s.battery < Low) /\ ~(s.battery < Full)
    BY <1>3, <1>5
  <2>2. (ToFull(s) <=> ~full) /\ ~ToLow(s) /\ ~LeaveFull(s)
    BY <1>5, <2>1 DEF ToLow, ToFull, LeaveFull
  <2>3. ~LeaveLow(s)
    BY <1>1, <2>2 DEF LeaveLow
  <2>4. BatteryEvent(s) = IF full THEN "none" ELSE "BATTERY_FULL"
    BY <1>1, <2>2, <2>3 DEF BatteryEvent
  <2>5. low' = FALSE /\ full' = TRUE
    BY <1>1, <1>2, <2>2, <2>3
  <2> QED
    BY <1>1, <1>2, <2>1, <2>4, <2>5
<1>6. CASE ~(s.battery < Low) /\ ~(s.battery > Full)
  BY <1>1, <1>2, <1>3, <1>6 DEF BatteryEvent, ToLow, ToFull, LeaveLow, LeaveFull
<1> QED
  BY <1>4, <1>5, <1>6

\* Every call of emit_power_events preserves the invariant.
LEMMA PowerStep == ASSUME PowerIInv, NEW s \in Samples, EmitPowerEvents(s) PROVE PowerIInv'
<1> DEFINE e == Events(s)
<1>1. /\ e.usb = UsbEvent(s) /\ e.solar = SolarEvent(s)
      /\ e.battery = BatteryEvent(s) /\ e.charge = ChargeEvent(s)
      /\ e \in TopicType
  BY EventTypes DEF Events, TopicType
<1>2. /\ sampled' = TRUE /\ sample' = s /\ emitted' = e /\ before' = seen
      /\ seen' = [t \in Topics |-> IF e[t] = "none" THEN seen[t] ELSE e[t]]
  BY DEF EmitPowerEvents
<1>3. seen \in TopicType
  BY DEF PowerIInv, PowerTypeOK
<1>4. seen' \in TopicType
  BY <1>1, <1>2, <1>3 DEF TopicType, Topics
<1>5. PowerTypeOK'
  BY <1>1, <1>2, <1>3, <1>4, Usb, Solar, Charge, Battery DEF PowerTypeOK, flags
<1>6. EventsTellState'
  BY <1>2, Usb, Solar, Charge, Battery DEF EventsTellState
<1>7. NoEventRepeated'
  <2> SUFFICES ASSUME NEW t \in Topics, e[t] # "none" PROVE e[t] # seen[t]
    BY <1>2 DEF NoEventRepeated
  <2> QED
    BY <1>1, Usb, Solar, Charge, Battery DEF Topics
<1> QED
  BY <1>5, <1>6, <1>7, Usb, Solar, Charge, Battery DEF PowerIInv

-----------------------------------------------------------------------------
(* The loop.                                                               *)

\* Every round of the loop is a look at the clock, with or without a sample.
LEMMA RoundIs ==
    ASSUME SNext
    PROVE  /\ TimerNext
           /\ UNCHANGED powerVars \/ \E s \in Samples : EmitPowerEvents(s)
BY DEF SNext, Round, TimerNext

LEMMA Always == SSpec => [](TimerIInv /\ PowerIInv)
<1>1. SInit => TimerIInv /\ PowerIInv
  BY TimerStart, PowerStart DEF SInit
<1>2. TimerIInv /\ PowerIInv /\ [SNext]_<<timerVars, powerVars>> => (TimerIInv /\ PowerIInv)'
  <2> SUFFICES ASSUME TimerIInv, PowerIInv, [SNext]_<<timerVars, powerVars>>
               PROVE  TimerIInv' /\ PowerIInv'
    OBVIOUS
  <2>1. [TimerNext]_timerVars
    BY RoundIs
  <2>2. UNCHANGED powerVars \/ \E s \in Samples : EmitPowerEvents(s)
    BY RoundIs
  <2>3. UNCHANGED powerVars => PowerIInv'
    BY DEF PowerIInv, PowerTypeOK, EventsTellState, NoEventRepeated, powerVars, flags
  <2> QED
    BY <2>1, <2>2, <2>3, TimerStep, PowerStep
<1> QED
  BY <1>1, <1>2, PTL DEF SSpec

\* Type correctness of both parts, the flags that never contradict each other
\* included.
THEOREM SamplingTypes == SSpec => [](TimerTypeOK /\ PowerTypeOK)
<1>1. TimerIInv /\ PowerIInv => TimerTypeOK /\ PowerTypeOK
  BY DEF TimerIInv, PowerIInv
<1> QED
  BY Always, <1>1, PTL

\* No look at the clock an interval or more after the last record goes by without
\* one, whatever the wrap, as long as a round of the loop is shorter than the wrap
\* less the interval.
THEOREM Punctual == SSpec => []NeverOverdue
<1>1. TimerIInv => NeverOverdue
  BY DEF TimerIInv
<1> QED
  BY Always, <1>1, PTL

\* Two records are never less than an interval apart.
THEOREM Spacing == SSpec => CollectionsSpaced
<1>1. TimerIInv /\ [SNext]_<<timerVars, powerVars>> => [TakeSample(now') => now' - since >= Interval]_timerVars
  BY RoundIs, CollectSpaced
<1> QED
  BY Always, <1>1, PTL DEF SSpec, CollectionsSpaced

\* After every sample, for all thresholds, the events emitted since boot put the
\* ground station on the right side of each of them.
THEOREM EventsTell == SSpec => []EventsTellState
<1>1. PowerIInv => EventsTellState
  BY DEF PowerIInv
<1> QED
  BY Always, <1>1, PTL

\* No POWER event is logged twice in a row, for all thresholds.
THEOREM NoRepeats == SSpec => []NoEventRepeated
<1>1. PowerIInv => NoEventRepeated
  BY DEF PowerIInv
<1> QED
  BY Always, <1>1, PTL
=============================================================================
