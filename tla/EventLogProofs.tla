--------------------------- MODULE EventLogProofs ---------------------------
(***************************************************************************)
(* Proofs about the event log, for every number of cores, buffer size,     *)
(* flush threshold, width of the event id, and with or without storage     *)
(* faults (EventManager); and about what command 5.1 answers while the other*)
(* core logs, for every size of the ring and of a page (EventCommands).    *)
(***************************************************************************)
EXTENDS EventCommands, SequenceTheorems, TLAPS

-----------------------------------------------------------------------------
(* Arithmetic of indices and ids.                                          *)

\* The remainder of a number written as m * q + r.
LEMMA ModUnique ==
    ASSUME NEW m \in Nat \ {0}, NEW q \in Int, NEW r \in 0 .. (m - 1)
    PROVE  (m * q + r) % m = r
  OBVIOUS

LEMMA Division ==
    ASSUME NEW m \in Nat \ {0}, NEW n \in Int
    PROVE  /\ n = m * (n \div m) + (n % m)
           /\ n \div m \in Int /\ n % m \in 0 .. (m - 1)
  OBVIOUS

\* Counting modulo m: nextEventId++ on a uint16_t.
LEMMA ModSucc ==
    ASSUME NEW m \in Nat \ {0}, NEW n \in Nat
    PROVE  ((n % m) + 1) % m = (n + 1) % m
<1> DEFINE q == n \div m
           r == n % m
<1>1. n = m * q + r /\ q \in Int /\ r \in 0 .. (m - 1)
  BY Division
<1>2. CASE r + 1 < m
  <2>1. (n + 1) % m = r + 1
    <3>1. n + 1 = m * q + (r + 1) /\ r + 1 \in 0 .. (m - 1)
      BY <1>1, <1>2
    <3> HIDE DEF q, r
    <3> QED
      BY <1>1, <3>1, ModUnique
  <2>2. (r + 1) % m = r + 1
    BY <1>1, <1>2
  <2> QED
    BY <2>1, <2>2
<1>3. CASE r + 1 = m
  <2>1. (n + 1) % m = 0
    <3> HIDE DEF q, r
    <3>1. n + 1 = m * (q + 1) + 0
      BY <1>1, <1>3
    <3> QED
      BY <3>1, <1>1, ModUnique
  <2>2. (r + 1) % m = 0
    BY <1>3
  <2> QED
    BY <2>1, <2>2
<1> QED
  BY <1>1, <1>2, <1>3

\* The write index moves on by one slot, from the last one to the first.
LEMMA IndexSucc ==
    ASSUME NEW w \in Slots
    PROVE  (w + 1) % BufferSize = IF w = BufferSize - 1 THEN 0 ELSE w + 1
  BY BufferAssumption DEF Slots

LEMMA SlotOf ==
    ASSUME NEW n \in Int
    PROVE  n % BufferSize \in Slots
  BY BufferAssumption DEF Slots

LEMMA IdOf ==
    ASSUME NEW n \in Int
    PROVE  n % IdModulus \in 0 .. (IdModulus - 1)
  BY BufferAssumption, ModulusAssumption

\* startIdx is a size_t whatever the two loads returned.
LEMMA StartType ==
    ASSUME NEW w \in Nat, NEW n \in Nat
    PROVE  StartOf(w, n) \in Nat
<1>1. SizeModulus \in Nat \ {0} /\ BufferSize - (n - w) \in Int
  BY BufferAssumption, ModulusAssumption
<1>2. (BufferSize - (n - w)) % SizeModulus \in Nat
  BY <1>1, Division
<1> QED
  BY <1>2 DEF StartOf

-----------------------------------------------------------------------------
(* Type correctness.                                                       *)

\* A jump to a known location keeps pc typed.
LEMMA GotoType ==
    ASSUME NEW c \in Cores, NEW from, NEW to \in Locations,
           pc \in [Cores -> Locations], Goto(c, from, to)
    PROVE  pc' \in [Cores -> Locations]
  BY DEF Goto

\* Giving one core's local another sequence of rows.
LEMMA SeqUpdate ==
    ASSUME NEW c \in Cores, NEW f \in [Cores -> Seq(Entry)], NEW s \in Seq(Entry)
    PROVE  [f EXCEPT ![c] = s] \in [Cores -> Seq(Entry)]
  OBVIOUS

LEMMA InitType == Init => TypeOK
<1> SUFFICES ASSUME Init
             PROVE  TypeOK
  OBVIOUS
<1>1. EmptyEntry \in Entry
  BY ModulusAssumption, BufferAssumption DEF EmptyEntry, Entry
<1>2. events \in [Slots -> Entry] /\ writeIndex \in Slots
  BY <1>1, BufferAssumption DEF Init, Slots
<1>3. pc \in [Cores -> Locations]
  BY DEF Init, Locations
<1>4. group \in [Cores -> Groups] /\ reg \in [Cores -> Nat]
  BY GroupsAssumption DEF Init
<1>5. startIdx \in [Cores -> Nat] /\ row \in [Cores -> Nat]
  BY DEF Init
<1>6. /\ eventMutex \in Cores \cup {NoCore} /\ eventCount \in 0 .. BufferSize
      /\ nextEventId \in 0 .. (IdModulus - 1)
      /\ eventsSinceFlush \in Nat /\ mounted \in BOOLEAN
      /\ failed \in BOOLEAN /\ total \in Nat
  <2>1. /\ eventMutex = NoCore /\ eventCount = 0 /\ nextEventId = 0
        /\ eventsSinceFlush = 0 /\ mounted = FALSE /\ failed = FALSE /\ total = 0
    BY DEF Init
  <2>2. mounted \in BOOLEAN /\ failed \in BOOLEAN
    BY <2>1
  <2>3. /\ eventCount \in 0 .. BufferSize /\ nextEventId \in 0 .. (IdModulus - 1)
        /\ eventsSinceFlush \in Nat /\ total \in Nat
    BY <2>1, BufferAssumption, ModulusAssumption
  <2> QED
    BY <2>1, <2>2, <2>3
<1>7. StateTypeOK
  BY <1>2, <1>3, <1>4, <1>5, <1>6 DEF StateTypeOK
<1>8. RowsTypeOK
  BY DEF Init, RowsTypeOK
<1> QED
  BY <1>7, <1>8 DEF TypeOK

LEMMA NextType == TypeOK /\ [Next]_vars => TypeOK'
<1> SUFFICES ASSUME StateTypeOK, RowsTypeOK, [Next]_vars
             PROVE  TypeOK'
  BY DEF TypeOK
<1> USE DEF ring, storage, saving
<1>1. ASSUME NEW c \in Cores, NEW g \in Groups, LogEnter(c, g)
      PROVE  TypeOK'
  <2>1. pc' \in [Cores -> Locations]
    BY <1>1, GotoType DEF LogEnter, StateTypeOK, Locations
  <2>2. nextEventId' \in 0 .. (IdModulus - 1)
    BY <1>1, IdOf DEF LogEnter, StateTypeOK
  <2>3. events' \in [Slots -> Entry]
    BY <1>1 DEF LogEnter, StateTypeOK, Entry
  <2>4. /\ eventMutex' \in Cores \cup {NoCore} /\ group' \in [Cores -> Groups]
        /\ total' \in Nat
        /\ UNCHANGED <<eventCount, writeIndex, eventsSinceFlush, mounted, failed, reg, startIdx,
                       row>>
    BY <1>1 DEF LogEnter, StateTypeOK
  <2>5. StateTypeOK'
    BY <2>1, <2>2, <2>3, <2>4 DEF StateTypeOK
  <2>6. RowsTypeOK'
    BY <1>1 DEF LogEnter, RowsTypeOK
  <2> QED
    BY <2>5, <2>6 DEF TypeOK
<1>2. ASSUME NEW c \in Cores, LogBody(c)
      PROVE  TypeOK'
  <2>1. pc' \in [Cores -> Locations]
    BY <1>2, GotoType DEF LogBody, StateTypeOK, Locations
  <2>2. events' \in [Slots -> Entry]
    BY <1>2 DEF LogBody, StateTypeOK, Entry
  <2>3. StateTypeOK'
    BY <1>2, <2>1, <2>2 DEF LogBody, StateTypeOK
  <2>4. RowsTypeOK'
    BY <1>2 DEF LogBody, RowsTypeOK
  <2> QED
    BY <2>3, <2>4 DEF TypeOK
<1>3. ASSUME NEW c \in Cores, LogAdvance(c)
      PROVE  TypeOK'
  <2>1. pc' \in [Cores -> Locations]
    BY <1>3, GotoType DEF LogAdvance, StateTypeOK, Locations
  <2>2. writeIndex' \in Slots
    BY <1>3, SlotOf DEF LogAdvance, StateTypeOK, Slots
  <2>3. eventCount' \in 0 .. BufferSize
    BY <1>3, BufferAssumption DEF LogAdvance, StateTypeOK
  <2>4. StateTypeOK'
    BY <1>3, <2>1, <2>2, <2>3 DEF LogAdvance, StateTypeOK
  <2>5. RowsTypeOK'
    BY <1>3 DEF LogAdvance, RowsTypeOK
  <2> QED
    BY <2>4, <2>5 DEF TypeOK
<1>4. ASSUME NEW c \in Cores, LogCountLoad(c) \/ LogCountStore(c)
      PROVE  TypeOK'
  <2>1. pc' \in [Cores -> Locations]
    BY <1>4, GotoType DEF LogCountLoad, LogCountStore, StateTypeOK, Locations
  <2>2. StateTypeOK'
    BY <1>4, <2>1 DEF LogCountLoad, LogCountStore, StateTypeOK
  <2>3. RowsTypeOK'
    BY <1>4 DEF LogCountLoad, LogCountStore, RowsTypeOK
  <2> QED
    BY <2>2, <2>3 DEF TypeOK
<1>5. ASSUME NEW c \in Cores, LogReturn(c) \/ LogReset(c)
      PROVE  TypeOK'
  <2>1. pc' \in [Cores -> Locations]
    BY <1>5, GotoType DEF LogReturn, LogReset, StateTypeOK, Locations
  <2>2. group' \in [Cores -> Groups]
    BY <1>5, GroupsAssumption DEF LogReturn, LogReset, StateTypeOK
  <2>3. StateTypeOK'
    BY <1>5, <2>1, <2>2 DEF LogReturn, LogReset, StateTypeOK
  <2>4. RowsTypeOK'
    BY <1>5 DEF LogReturn, LogReset, RowsTypeOK
  <2> QED
    BY <2>3, <2>4 DEF TypeOK
<1>6. ASSUME NEW c \in Cores, SaveBegin(c)
      PROVE  TypeOK'
  <2>1. pc' \in [Cores -> Locations]
    BY <1>6, GotoType DEF SaveBegin, StateTypeOK, Locations
  <2>2. StateTypeOK'
    BY <1>6, <2>1 DEF SaveBegin, StateTypeOK
  <2>3. RowsTypeOK'
    BY <1>6 DEF SaveBegin, RowsTypeOK
  <2> QED
    BY <2>2, <2>3 DEF TypeOK
<1>7. ASSUME NEW c \in Cores,
             FsInitBegin(c) \/ FsInitEnd(c) \/ FsInitFormat(c) \/ FsInitFail(c)
      PROVE  TypeOK'
  <2>1. pc' \in [Cores -> Locations]
    BY <1>7, GotoType DEF FsInitBegin, FsInitEnd, FsInitFormat, FsInitFail,
                               StateTypeOK, Locations
  <2>2. StateTypeOK'
    BY <1>7, <2>1 DEF FsInitBegin, FsInitEnd, FsInitFormat, FsInitFail, StateTypeOK
  <2>3. RowsTypeOK'
    <3>1. (file' = file \/ file' = <<>>) /\ UNCHANGED <<base, out>>
      BY <1>7 DEF FsInitBegin, FsInitEnd, FsInitFormat, FsInitFail, storage, saving
    <3>2. <<>> \in Seq(Entry)
      OBVIOUS
    <3> QED
      BY <3>1, <3>2 DEF RowsTypeOK, TypeOK
  <2> QED
    BY <2>2, <2>3 DEF TypeOK
<1>8. ASSUME NEW c \in Cores, SaveOpen(c) \/ SaveOpenFail(c)
      PROVE  TypeOK'
  <2>1. pc' \in [Cores -> Locations]
    BY <1>8, GotoType DEF SaveOpen, SaveOpenFail, StateTypeOK, Locations
  <2>2. StateTypeOK'
    BY <1>8, <2>1 DEF SaveOpen, SaveOpenFail, StateTypeOK
  <2>3. CASE SaveOpen(c)
    <3>1. base' = [base EXCEPT ![c] = file] /\ out' = [out EXCEPT ![c] = <<>>]
          /\ UNCHANGED file
      BY <2>3 DEF SaveOpen
    <3> QED
      BY <2>2, <3>1, SeqUpdate DEF RowsTypeOK, TypeOK
  <2>4. CASE SaveOpenFail(c)
    BY <2>2, <2>4 DEF SaveOpenFail, RowsTypeOK, TypeOK
  <2> QED
    BY <1>8, <2>3, <2>4
<1>9. ASSUME NEW c \in Cores, SaveFirstLoad(c)
      PROVE  TypeOK'
  <2>1. pc' \in [Cores -> Locations]
    BY <1>9, GotoType DEF SaveFirstLoad, StateTypeOK, Locations
  <2>2. startIdx' \in [Cores -> Nat]
    BY <1>9 DEF SaveFirstLoad, StateTypeOK, Slots
  <2>3. StateTypeOK'
    BY <1>9, <2>1, <2>2 DEF SaveFirstLoad, StateTypeOK
  <2>4. RowsTypeOK'
    BY <1>9 DEF SaveFirstLoad, RowsTypeOK
  <2> QED
    BY <2>3, <2>4 DEF TypeOK
<1>10. ASSUME NEW c \in Cores, SaveSecondLoad(c)
      PROVE  TypeOK'
  <2>1. pc' \in [Cores -> Locations]
    BY <1>10, GotoType DEF SaveSecondLoad, StateTypeOK, Locations
  <2>2. StartOf(startIdx[c], eventsSinceFlush) \in Nat
    BY StartType DEF StateTypeOK
  <2>3. StateTypeOK'
    BY <1>10, <2>1, <2>2 DEF SaveSecondLoad, StateTypeOK
  <2>4. RowsTypeOK'
    BY <1>10 DEF SaveSecondLoad, RowsTypeOK
  <2> QED
    BY <2>3, <2>4 DEF TypeOK
<1>11. ASSUME NEW c \in Cores, SaveRow(c)
      PROVE  TypeOK'
  <2>1. pc' \in [Cores -> Locations]
    BY <1>11, GotoType DEF SaveRow, StateTypeOK, Locations
  <2>2. StateTypeOK'
    <3>1. /\ row' = [row EXCEPT ![c] = row[c] + 1]
          /\ UNCHANGED <<eventMutex, events, eventCount, writeIndex, nextEventId,
                         eventsSinceFlush, mounted, failed, total, group, reg,
                         startIdx>>
      BY <1>11 DEF SaveRow
    <3> QED
      BY <2>1, <3>1 DEF StateTypeOK
  <2>3. events[((startIdx[c] + row[c]) % SizeModulus) % BufferSize] \in Entry
    <3>1. (startIdx[c] + row[c]) % SizeModulus \in Int
      BY BufferAssumption, ModulusAssumption DEF StateTypeOK
    <3> QED
      BY <3>1, SlotOf DEF StateTypeOK
  <2>4. out' \in [Cores -> Seq(Entry)]
    BY <1>11, <2>3 DEF SaveRow, RowsTypeOK
  <2>5. RowsTypeOK'
    BY <1>11, <2>3, <2>4 DEF SaveRow, RowsTypeOK
  <2> QED
    BY <2>2, <2>5 DEF TypeOK
<1>12. ASSUME NEW c \in Cores, SaveRowsDone(c)
      PROVE  TypeOK'
  <2>1. pc' \in [Cores -> Locations]
    BY <1>12, GotoType DEF SaveRowsDone, StateTypeOK, Locations
  <2>2. StateTypeOK'
    BY <1>12, <2>1 DEF SaveRowsDone, StateTypeOK
  <2>3. RowsTypeOK'
    BY <1>12 DEF SaveRowsDone, RowsTypeOK
  <2> QED
    BY <2>2, <2>3 DEF TypeOK
<1>13. ASSUME NEW c \in Cores, SaveClose(c) \/ SaveCloseFail(c)
      PROVE  TypeOK'
  <2>1. pc' \in [Cores -> Locations]
    BY <1>13, GotoType DEF SaveClose, SaveCloseFail, StateTypeOK, Locations
  <2>2. /\ startIdx' = [startIdx EXCEPT ![c] = 0] /\ row' = [row EXCEPT ![c] = 0]
        /\ base' = [base EXCEPT ![c] = <<>>] /\ out' = [out EXCEPT ![c] = <<>>]
        /\ UNCHANGED <<eventMutex, events, eventCount, writeIndex, nextEventId,
                       eventsSinceFlush, mounted, total, group, reg>>
    BY <1>13 DEF SaveClose, SaveCloseFail, SaveReturn
  <2>7. failed' \in BOOLEAN
    <3>1. failed' = failed \/ failed' = TRUE
      BY <1>13 DEF SaveClose, SaveCloseFail
    <3> QED
      BY <3>1 DEF StateTypeOK
  <2>3. StateTypeOK'
    BY <2>1, <2>2, <2>7 DEF StateTypeOK
  <2>4. file' = file \/ file' = base[c] \o out[c]
    BY <1>13 DEF SaveClose, SaveCloseFail
  <2>5. file' \in Seq(Entry)
    <3>1. base[c] \o out[c] \in Seq(Entry)
      BY DEF RowsTypeOK
    <3> QED
      BY <2>4, <3>1 DEF RowsTypeOK
  <2>6. RowsTypeOK'
    BY <2>2, <2>5, SeqUpdate DEF RowsTypeOK
  <2> QED
    BY <2>3, <2>6 DEF TypeOK
<1>14. CASE UNCHANGED vars
  BY <1>14 DEF vars, TypeOK, StateTypeOK, RowsTypeOK
<1> QED
  BY <1>1, <1>2, <1>3, <1>4, <1>5, <1>6, <1>7, <1>8, <1>9, <1>10, <1>11, <1>12, <1>13,
     <1>14 DEF Next, CoreStep, LogStep, SaveStep, AllReturned

\* Every variable keeps to its type: in particular writeIndex stays inside the
\* array, eventCount does not pass its size and no row is read outside it.
THEOREM TypeInvariant == Spec => []TypeOK
  BY InitType, NextType, PTL DEF Spec

-----------------------------------------------------------------------------
(* The ring.                                                               *)

\* The k-th slot behind writeIndex is in the array, and is another one than
\* the slot of writeIndex itself unless k is the size of the array.
LEMMA BackType ==
    ASSUME NEW w \in Slots, NEW k \in 1 .. BufferSize
    PROVE  Back(w, k) \in Slots /\ (k < BufferSize => Back(w, k) # w)
  BY BufferAssumption DEF Slots, Back

\* Moving writeIndex on puts its slot first and every other one a place further back.
LEMMA BackSucc ==
    ASSUME NEW w \in Slots, NEW k \in 1 .. BufferSize
    PROVE  Back((w + 1) % BufferSize, k) = IF k = 1 THEN w ELSE Back(w, k - 1)
<1>1. (w + 1) % BufferSize = IF w = BufferSize - 1 THEN 0 ELSE w + 1
  BY IndexSucc
<1> QED
  BY <1>1, BufferAssumption DEF Slots, Back

LEMMA InitRing == Init => MutexHeld /\ SlotInProgress /\ RingHoldsLatest
<1> SUFFICES ASSUME Init
             PROVE  MutexHeld /\ SlotInProgress /\ RingHoldsLatest
  OBVIOUS
<1>1. \A c \in Cores : pc[c] = "idle"
  BY DEF Init
<1>2. eventMutex = NoCore /\ eventCount = 0 /\ nextEventId = 0 /\ total = 0
  BY DEF Init
<1>3. MutexHeld
  BY <1>1, <1>2, CoresAssumption DEF MutexHeld, Critical
<1>4. ~SlotOpen
  BY <1>1 DEF SlotOpen
<1>5. SlotInProgress
  <2>1. 0 % IdModulus = 0
    BY BufferAssumption, ModulusAssumption
  <2> QED
    BY <1>1, <1>2, <2>1 DEF SlotInProgress
<1>6. RingHoldsLatest
  BY <1>2, <1>4, BufferAssumption DEF RingHoldsLatest, Completed, Settled
<1> QED
  BY <1>3, <1>5, <1>6

\* A step that neither opens nor closes a slot and leaves the ring alone.
LEMMA QuietStep ==
    ASSUME StateTypeOK, SlotInProgress, RingHoldsLatest, NEW c \in Cores,
           pc[c] \notin {"body", "advance"}, NEW to \in Locations \ {"body", "advance"},
           pc' = [pc EXCEPT ![c] = to],
           UNCHANGED <<events, eventCount, writeIndex, nextEventId, total>>
    PROVE  SlotInProgress' /\ RingHoldsLatest'
<1>1. \A d \in Cores : pc'[d] \in {"body", "advance"} => pc'[d] = pc[d]
  BY DEF StateTypeOK
<1>2. \A d \in Cores : pc[d] \in {"body", "advance"} => pc'[d] = pc[d]
  BY DEF StateTypeOK
<1>3. SlotOpen' <=> SlotOpen
  BY <1>1, <1>2 DEF SlotOpen
<1>4. Completed' = Completed /\ Settled' = Settled
  BY <1>3 DEF Completed, Settled
<1>5. SlotInProgress'
  BY <1>1 DEF SlotInProgress
<1>6. RingHoldsLatest'
  BY <1>4 DEF RingHoldsLatest, EntryOf, Back
<1> QED
  BY <1>5, <1>6

\* The mutex keeps every other core out of the locked part.
LEMMA OthersOutside ==
    ASSUME MutexHeld, NEW c \in Cores, eventMutex \in {c, NoCore},
           NEW d \in Cores, d # c
    PROVE  ~Critical(d)
  BY CoresAssumption DEF MutexHeld

LEMMA EnterRing ==
    ASSUME IInv, NEW c \in Cores, NEW g \in Groups, LogEnter(c, g)
    PROVE  MutexHeld' /\ SlotInProgress' /\ RingHoldsLatest'
<1> USE DEF IInv, TypeOK
<1>1. /\ eventMutex = NoCore /\ eventMutex' = c
      /\ pc[c] = "idle" /\ pc' = [pc EXCEPT ![c] = "body"]
      /\ events' = [events EXCEPT ![writeIndex].id = nextEventId]
      /\ nextEventId' = (nextEventId + 1) % IdModulus
      /\ total' = total + 1
      /\ UNCHANGED <<eventCount, writeIndex>>
  BY DEF LogEnter, MutexFree, Goto
<1>2. \A d \in Cores : ~Critical(d)
  BY <1>1, CoresAssumption DEF MutexHeld
<1>3. \A d \in Cores : d # c => pc'[d] = pc[d]
  BY <1>1 DEF StateTypeOK
<1>4. pc'[c] = "body"
  BY <1>1 DEF StateTypeOK
<1>5. MutexHeld'
  BY <1>1, <1>2, <1>3, <1>4 DEF MutexHeld, Critical
<1>6. ~SlotOpen /\ SlotOpen'
  BY <1>2, <1>4 DEF SlotOpen, Critical
<1>7. SlotInProgress'
  <2>1. nextEventId' = total' % IdModulus
    <3>1. total \in Nat /\ IdModulus \in Nat \ {0}
      BY BufferAssumption, ModulusAssumption DEF StateTypeOK
    <3>2. ((total % IdModulus) + 1) % IdModulus = (total + 1) % IdModulus
      BY <3>1, ModSucc
    <3>3. nextEventId = total % IdModulus
      BY DEF SlotInProgress
    <3> QED
      BY <1>1, <3>2, <3>3
  <2>2. events'[writeIndex'].id = (total' - 1) % IdModulus
    BY <1>1 DEF SlotInProgress, StateTypeOK, Entry
  <2>3. total' > 0
    BY <1>1 DEF StateTypeOK
  <2>4. \A d \in Cores : pc'[d] # "advance"
    BY <1>2, <1>3, <1>4 DEF Critical
  <2> QED
    BY <2>1, <2>2, <2>3, <2>4 DEF SlotInProgress
<1>8. RingHoldsLatest'
  <2>1. Completed = total /\ Completed' = total
    BY <1>1, <1>6 DEF Completed, StateTypeOK
  <2>2. Settled = eventCount
        /\ Settled' = IF eventCount = BufferSize THEN BufferSize - 1 ELSE eventCount
    BY <1>1, <1>6 DEF Settled
  <2>3. eventCount' = IF Completed' < BufferSize THEN Completed' ELSE BufferSize
    BY <1>1, <2>1 DEF RingHoldsLatest
  <2>4. ASSUME NEW k \in 1 .. Settled'
        PROVE  events'[Back(writeIndex, k)] = EntryOf((total + 1) - k)
    <3>1. k \in 1 .. Settled /\ k < BufferSize /\ k \in 1 .. BufferSize
      BY <2>2, BufferAssumption DEF StateTypeOK
    <3>2. Back(writeIndex, k) \in Slots /\ Back(writeIndex, k) # writeIndex
      BY <3>1, BackType DEF StateTypeOK
    <3>3. events'[Back(writeIndex, k)] = events[Back(writeIndex, k)]
      BY <1>1, <3>2 DEF StateTypeOK
    <3> QED
      BY <2>1, <3>1, <3>3 DEF RingHoldsLatest
  <2> QED
    BY <1>1, <2>1, <2>3, <2>4 DEF RingHoldsLatest, EntryOf, Back
<1> QED
  BY <1>5, <1>7, <1>8

LEMMA BodyRing ==
    ASSUME IInv, NEW c \in Cores, LogBody(c)
    PROVE  MutexHeld' /\ SlotInProgress' /\ RingHoldsLatest'
<1> USE DEF IInv, TypeOK
<1>1. /\ pc[c] = "body" /\ pc' = [pc EXCEPT ![c] = "advance"]
      /\ events' = [events EXCEPT ![writeIndex].body = total]
      /\ UNCHANGED <<eventMutex, eventCount, writeIndex, nextEventId, total>>
  BY DEF LogBody, Goto, ring
<1>2. eventMutex = c
  BY <1>1 DEF MutexHeld, Critical
<1>3. \A d \in Cores : d # c => pc'[d] = pc[d] /\ ~Critical(d)
  BY <1>1, <1>2, OthersOutside DEF StateTypeOK
<1>4. pc'[c] = "advance"
  BY <1>1 DEF StateTypeOK
<1>5. MutexHeld'
  BY <1>1, <1>2, <1>3, <1>4 DEF MutexHeld, Critical
<1>6. SlotOpen /\ SlotOpen'
  BY <1>1, <1>4 DEF SlotOpen
<1>7. SlotInProgress'
  <2>1. events[writeIndex].id = (total - 1) % IdModulus /\ total > 0
    BY <1>1 DEF SlotInProgress
  <2>2. events'[writeIndex].id = (total - 1) % IdModulus /\ events'[writeIndex].body = total
    BY <1>1, <2>1 DEF StateTypeOK, Entry
  <2>3. \A d \in Cores : pc'[d] \in {"body", "advance"} => d = c
    BY <1>3 DEF Critical
  <2> QED
    BY <1>1, <2>1, <2>2, <2>3 DEF SlotInProgress
<1>8. RingHoldsLatest'
  <2>1. Completed' = Completed /\ Settled' = Settled /\ Settled \in 0 .. (BufferSize - 1)
    BY <1>1, <1>6, BufferAssumption DEF Completed, Settled, StateTypeOK
  <2>2. ASSUME NEW k \in 1 .. Settled
        PROVE  events'[Back(writeIndex, k)] = events[Back(writeIndex, k)]
    <3>1. k \in 1 .. BufferSize /\ k < BufferSize
      BY <2>1, BufferAssumption
    <3>2. Back(writeIndex, k) \in Slots /\ Back(writeIndex, k) # writeIndex
      BY <3>1, BackType DEF StateTypeOK
    <3> QED
      BY <1>1, <3>2 DEF StateTypeOK
  <2> QED
    BY <1>1, <2>1, <2>2 DEF RingHoldsLatest, EntryOf, Back
<1> QED
  BY <1>5, <1>7, <1>8

LEMMA AdvanceRing ==
    ASSUME IInv, NEW c \in Cores, LogAdvance(c)
    PROVE  MutexHeld' /\ SlotInProgress' /\ RingHoldsLatest'
<1> USE DEF IInv, TypeOK
<1>1. /\ pc[c] = "advance" /\ pc' = [pc EXCEPT ![c] = "load"]
      /\ writeIndex' = (writeIndex + 1) % BufferSize
      /\ eventCount' = IF eventCount < BufferSize THEN eventCount + 1 ELSE eventCount
      /\ UNCHANGED <<eventMutex, events, nextEventId, total>>
  BY DEF LogAdvance, Goto
<1>2. eventMutex = c
  BY <1>1 DEF MutexHeld, Critical
<1>3. \A d \in Cores : d # c => pc'[d] = pc[d] /\ ~Critical(d)
  BY <1>1, <1>2, OthersOutside DEF StateTypeOK
<1>4. pc'[c] = "load"
  BY <1>1 DEF StateTypeOK
<1>5. MutexHeld'
  BY <1>1, <1>2, <1>3, <1>4 DEF MutexHeld, Critical
<1>6. SlotOpen /\ ~SlotOpen'
  BY <1>1, <1>3, <1>4 DEF SlotOpen, Critical
<1>7. SlotInProgress'
  <2>1. \A d \in Cores : pc'[d] \notin {"body", "advance"}
    BY <1>6 DEF SlotOpen
  <2> QED
    BY <1>1, <2>1 DEF SlotInProgress
<1>8. RingHoldsLatest'
  <2>1. /\ events[writeIndex].id = (total - 1) % IdModulus
        /\ events[writeIndex].body = total /\ total > 0
    BY <1>1 DEF SlotInProgress
  <2>2. events[writeIndex] = EntryOf(total)
    BY <2>1 DEF StateTypeOK, Entry, EntryOf
  <2>3. Completed = total - 1 /\ Completed' = total
    BY <1>1, <1>6 DEF Completed
  <2>4. Settled = IF eventCount = BufferSize THEN BufferSize - 1 ELSE eventCount
    BY <1>6 DEF Settled
  <2>5. Settled' = eventCount'
    BY <1>6 DEF Settled
  <2>6. eventCount' = IF Completed' < BufferSize THEN Completed' ELSE BufferSize
    BY <1>1, <2>1, <2>3, BufferAssumption DEF RingHoldsLatest, StateTypeOK
  <2>7. ASSUME NEW k \in 1 .. eventCount'
        PROVE  events[Back(writeIndex', k)] = EntryOf((total + 1) - k)
    <3>1. k \in 1 .. BufferSize
      BY <1>1, BufferAssumption DEF StateTypeOK
    <3>2. Back(writeIndex', k) = IF k = 1 THEN writeIndex ELSE Back(writeIndex, k - 1)
      <4>1. writeIndex \in Slots
        BY DEF StateTypeOK
      <4>2. Back((writeIndex + 1) % BufferSize, k)
              = IF k = 1 THEN writeIndex ELSE Back(writeIndex, k - 1)
        BY <3>1, <4>1, BackSucc
      <4> QED
        BY <1>1, <4>2
    <3>3. CASE k = 1
      <4>1. (total + 1) - k = total
        BY <3>3 DEF StateTypeOK
      <4> QED
        BY <2>2, <3>2, <3>3, <4>1
    <3>4. CASE k # 1
      <4>1. k - 1 \in 1 .. Settled
        BY <1>1, <2>4, <3>1, <3>4, BufferAssumption DEF StateTypeOK
      <4>2. (Completed + 1) - (k - 1) = (total + 1) - k
        BY <2>3, <3>1 DEF StateTypeOK
      <4>3. events[Back(writeIndex, k - 1)] = EntryOf((Completed + 1) - (k - 1))
        BY <4>1 DEF RingHoldsLatest
      <4> QED
        BY <3>2, <3>4, <4>2, <4>3
    <3> QED
      BY <3>3, <3>4
  <2> QED
    BY <1>1, <2>3, <2>5, <2>6, <2>7 DEF RingHoldsLatest, EntryOf, Back
<1> QED
  BY <1>5, <1>7, <1>8

LEMMA CountRing ==
    ASSUME IInv, NEW c \in Cores, LogCountLoad(c) \/ LogCountStore(c)
    PROVE  MutexHeld' /\ SlotInProgress' /\ RingHoldsLatest'
<1> USE DEF IInv, TypeOK
<1>1. PICK to \in {"store", "check"} :
        /\ pc[c] \in {"load", "store"}
        /\ pc' = [pc EXCEPT ![c] = to]
        /\ to = "store" => eventMutex' = eventMutex
        /\ to = "check" => eventMutex' = NoCore
        /\ UNCHANGED <<events, eventCount, writeIndex, nextEventId, total>>
  BY DEF LogCountLoad, LogCountStore, Goto, ring
<1>2. eventMutex = c
  BY <1>1 DEF MutexHeld, Critical
<1>3. \A d \in Cores : d # c => pc'[d] = pc[d] /\ ~Critical(d)
  BY <1>1, <1>2, OthersOutside DEF StateTypeOK
<1>4. pc'[c] = to
  BY <1>1 DEF StateTypeOK
<1>5. MutexHeld'
  BY <1>1, <1>2, <1>3, <1>4, CoresAssumption DEF MutexHeld, Critical
<1>6. SlotInProgress' /\ RingHoldsLatest'
  BY <1>1, QuietStep DEF Locations
<1> QED
  BY <1>5, <1>6

\* The steps after mutex_exit never touch the ring or the mutex.
LEMMA UnlockedRing ==
    ASSUME IInv, NEW c \in Cores, LogReturn(c) \/ LogReset(c) \/ SaveStep(c)
    PROVE  MutexHeld' /\ SlotInProgress' /\ RingHoldsLatest'
<1> USE DEF IInv, TypeOK
<1>1. PICK to \in Locations \ {"body", "advance", "load", "store"} :
        /\ pc[c] \notin {"body", "advance", "load", "store"}
        /\ pc' = [pc EXCEPT ![c] = to]
        /\ UNCHANGED <<eventMutex, events, eventCount, writeIndex, nextEventId, total>>
  BY DEF LogReturn, LogReset, SaveStep, SaveBegin, FsInitBegin, FsInitEnd,
         FsInitFormat, FsInitFail, SaveOpen, SaveOpenFail, SaveFirstLoad, SaveSecondLoad, SaveRow, SaveRowsDone,
         SaveClose, SaveCloseFail, Goto, ring, Locations
<1>2. \A d \in Cores : Critical(d)' <=> Critical(d)
  BY <1>1 DEF Critical, StateTypeOK
<1>3. MutexHeld'
  BY <1>1, <1>2 DEF MutexHeld
<1>4. SlotInProgress' /\ RingHoldsLatest'
  BY <1>1, QuietStep
<1> QED
  BY <1>3, <1>4

LEMMA InductiveInvariant == Spec => []IInv
<1>1. Init => IInv
  BY InitType, InitRing DEF IInv
<1>2. IInv /\ [Next]_vars => IInv'
  <2> SUFFICES ASSUME IInv, [Next]_vars
               PROVE  IInv'
    OBVIOUS
  <2>1. TypeOK'
    BY NextType DEF IInv
  <2>2. MutexHeld' /\ SlotInProgress' /\ RingHoldsLatest'
    <3>1. CASE UNCHANGED vars
      BY <3>1 DEF IInv, vars, ring, MutexHeld, Critical, SlotInProgress, RingHoldsLatest,
                  Completed, Settled, SlotOpen, Back, EntryOf
    <3>2. ASSUME NEW c \in Cores, NEW g \in Groups, LogEnter(c, g)
          PROVE  MutexHeld' /\ SlotInProgress' /\ RingHoldsLatest'
      BY <3>2, EnterRing
    <3>3. ASSUME NEW c \in Cores, CoreStep(c)
          PROVE  MutexHeld' /\ SlotInProgress' /\ RingHoldsLatest'
      BY <3>3, BodyRing, AdvanceRing, CountRing, UnlockedRing DEF CoreStep, LogStep
    <3>4. CASE AllReturned
      BY <3>1, <3>4 DEF AllReturned
    <3> QED
      BY <3>1, <3>2, <3>3, <3>4 DEF Next
  <2> QED
    BY <2>1, <2>2 DEF IInv
<1> QED
  BY <1>1, <1>2, PTL DEF Spec

\* At every moment the ring holds the latest events, each whole and under its own
\* id, however the calls of log_event on any number of cores interleave.
THEOREM RingInvariant == Spec => []RingHoldsLatest
<1>1. IInv => RingHoldsLatest
  BY DEF IInv
<1> QED
  BY <1>1, InductiveInvariant, PTL

\* At most one core is between mutex_enter_blocking and mutex_exit of log_event.
THEOREM MutualExclusion ==
    Spec => [](\A c, d \in Cores : Critical(c) /\ Critical(d) => c = d)
<1>1. IInv => \A c, d \in Cores : Critical(c) /\ Critical(d) => c = d
  BY DEF IInv, MutexHeld
<1> QED
  BY <1>1, InductiveInvariant, PTL

-----------------------------------------------------------------------------
(* The ring implements the bounded log.                                    *)

\* The entries of s consecutive events, the last of which is event number n.
Window(n, s) == [j \in 1 .. s |-> EntryOf((n - s) + j)]

LEMMA WindowSeq ==
    ASSUME NEW n \in Nat, NEW s \in Nat
    PROVE  Window(n, s) \in Seq([id : Int, body : Int]) /\ Len(Window(n, s)) = s
<1>1. \A j \in 1 .. s : EntryOf((n - s) + j) \in [id : Int, body : Int]
  BY BufferAssumption, ModulusAssumption DEF EntryOf
<1> QED
  BY <1>1 DEF Window

LEMMA WindowTail ==
    ASSUME NEW n \in Nat, NEW s \in Nat \ {0}
    PROVE  Tail(Window(n, s)) = Window(n, s - 1)
<1> DEFINE E == [id : Int, body : Int]
           w == Window(n, s)
           v == Window(n, s - 1)
<1>1. w \in Seq(E) /\ Len(w) = s /\ v \in Seq(E) /\ Len(v) = s - 1
  BY WindowSeq
<1>2. /\ Tail(w) \in Seq(E) /\ Len(Tail(w)) = s - 1
      /\ \A j \in 1 .. (s - 1) : Tail(w)[j] = w[j + 1]
  <2> HIDE DEF w, E
  <2>1. w # <<>>
    BY <1>1
  <2> QED
    BY <1>1, <2>1, HeadTailProperties
<1>3. \A j \in 1 .. (s - 1) : w[j + 1] = v[j]
  <2>1. \A j \in 1 .. (s - 1) : (n - s) + (j + 1) = (n - (s - 1)) + j /\ j + 1 \in 1 .. s
    OBVIOUS
  <2> QED
    BY <2>1 DEF Window
<1> HIDE DEF w, v, E
<1>4. Tail(w) = v
  BY <1>1, <1>2, <1>3, SeqEqual
<1> QED
  BY <1>4 DEF w, v

LEMMA WindowAppend ==
    ASSUME NEW n \in Nat, NEW s \in Nat
    PROVE  Append(Window(n, s), EntryOf(n + 1)) = Window(n + 1, s + 1)
<1>1. Window(n, s) \in Seq([id : Int, body : Int]) /\ Len(Window(n, s)) = s
  BY WindowSeq
<1>2. Append(Window(n, s), EntryOf(n + 1))
        = [j \in 1 .. (s + 1) |-> IF j = s + 1 THEN EntryOf(n + 1) ELSE Window(n, s)[j]]
  BY <1>1
<1>3. \A j \in 1 .. (s + 1) : (IF j = s + 1 THEN EntryOf(n + 1) ELSE Window(n, s)[j])
                                = EntryOf(((n + 1) - (s + 1)) + j)
  <2>1. \A j \in 1 .. (s + 1) : ((n + 1) - (s + 1)) + j = (n - s) + j
    OBVIOUS
  <2>2. (n - s) + (s + 1) = n + 1
    OBVIOUS
  <2>3. \A j \in 1 .. (s + 1) : j # s + 1 => j \in 1 .. s
    OBVIOUS
  <2> QED
    BY <2>1, <2>2, <2>3 DEF Window
<1> QED
  BY <1>2, <1>3 DEF Window

RingWindow ==
    /\ Completed \in Nat /\ Settled \in 0 .. BufferSize /\ Settled =< Completed
    /\ RingEntries = Window(Completed, Settled)

\* Under the ring invariant the indices of the ring spell out a window.
LEMMA RingIsWindow ==
    ASSUME StateTypeOK, SlotInProgress, RingHoldsLatest
    PROVE  RingWindow
<1>1. Completed \in Nat
  <2>1. SlotOpen => total > 0
    BY DEF SlotOpen, SlotInProgress
  <2> QED
    BY <2>1 DEF Completed, StateTypeOK
<1>2. Settled \in 0 .. BufferSize /\ Settled =< Completed
  BY <1>1, BufferAssumption DEF Settled, RingHoldsLatest, StateTypeOK
<1>3. \A j \in 1 .. Settled :
         events[Back(writeIndex, (Settled + 1) - j)] = EntryOf((Completed - Settled) + j)
  <2> SUFFICES ASSUME NEW j \in 1 .. Settled
               PROVE  events[Back(writeIndex, (Settled + 1) - j)]
                        = EntryOf((Completed - Settled) + j)
    OBVIOUS
  <2>1. (Settled + 1) - j \in 1 .. Settled
    BY <1>2
  <2>2. (Completed + 1) - ((Settled + 1) - j) = (Completed - Settled) + j
    BY <1>1, <1>2
  <2> QED
    BY <2>1, <2>2 DEF RingHoldsLatest
<1> QED
  BY <1>1, <1>2, <1>3 DEF RingEntries, RingWindow, Window

LEMMA RingIsWindowNext == IInv' => RingWindow'
<1>1. IInv => RingWindow
  BY RingIsWindow DEF IInv, TypeOK
<1> QED
  BY <1>1, PTL

LEMMA EnterImplements ==
    ASSUME IInv, IInv', NEW c \in Cores, NEW g \in Groups, LogEnter(c, g)
    PROVE  Log!Begin
<1> USE DEF IInv, TypeOK
<1>1. /\ eventMutex = NoCore /\ pc' = [pc EXCEPT ![c] = "body"]
      /\ total' = total + 1 /\ eventCount' = eventCount
  BY DEF LogEnter, MutexFree, Goto
<1>2. ~SlotOpen /\ SlotOpen'
  BY <1>1, CoresAssumption DEF SlotOpen, MutexHeld, Critical, StateTypeOK
<1>3. Completed' = Completed
  BY <1>1, <1>2 DEF Completed, StateTypeOK
<1>4. Settled = eventCount
      /\ Settled' = IF eventCount = BufferSize THEN BufferSize - 1 ELSE eventCount
  BY <1>1, <1>2 DEF Settled
<1>5. Completed \in Nat /\ RingEntries = Window(Completed, Settled)
  BY RingIsWindow DEF RingWindow
<1>6. RingEntries' = Window(Completed, Settled')
  <2>1. RingEntries' = Window(Completed, Settled)'
    BY RingIsWindowNext DEF RingWindow
  <2> QED
    BY <1>3, <2>1 DEF Window, EntryOf
<1>7. Len(RingEntries) = eventCount
  BY <1>4, <1>5, WindowSeq DEF StateTypeOK
<1>8. eventCount = BufferSize => RingEntries' = Tail(RingEntries)
  BY <1>4, <1>5, <1>6, WindowTail, BufferAssumption
<1>9. eventCount # BufferSize => RingEntries' = RingEntries
  BY <1>4, <1>5, <1>6
<1> QED
  BY <1>2, <1>3, <1>7, <1>8, <1>9 DEF Log!Begin

LEMMA AdvanceImplements ==
    ASSUME IInv, IInv', NEW c \in Cores, LogAdvance(c)
    PROVE  Log!Commit
<1> USE DEF IInv, TypeOK
<1>1. /\ pc[c] = "advance" /\ pc' = [pc EXCEPT ![c] = "load"]
      /\ eventCount' = IF eventCount < BufferSize THEN eventCount + 1 ELSE eventCount
      /\ total' = total
  BY DEF LogAdvance, Goto
<1>2. eventMutex = c
  BY <1>1 DEF MutexHeld, Critical
<1>3. SlotOpen /\ ~SlotOpen'
  <2>1. \A d \in Cores : d # c => pc'[d] = pc[d] /\ ~Critical(d)
    BY <1>1, <1>2, OthersOutside DEF StateTypeOK
  <2>2. pc'[c] = "load"
    BY <1>1 DEF StateTypeOK
  <2> QED
    BY <1>1, <2>1, <2>2 DEF SlotOpen, Critical
<1>4. Completed = total - 1 /\ Completed' = total
  BY <1>1, <1>3 DEF Completed
<1>5. Settled' = Settled + 1
  BY <1>1, <1>3, BufferAssumption DEF Settled, StateTypeOK
<1>6. Completed \in Nat /\ Settled \in Nat /\ RingEntries = Window(Completed, Settled)
  BY RingIsWindow, BufferAssumption DEF RingWindow
<1>7. RingEntries' = Window(Completed + 1, Settled + 1)
  <2>1. RingEntries' = Window(Completed, Settled)'
    BY RingIsWindowNext DEF RingWindow
  <2>2. Completed' = Completed + 1
    BY <1>4 DEF StateTypeOK
  <2> QED
    BY <1>5, <2>1, <2>2 DEF Window, EntryOf
<1>8. RingEntries' = Append(RingEntries, EntryOf(Completed + 1))
  BY <1>6, <1>7, WindowAppend
<1>9. EntryOf(Completed + 1) = [id |-> Completed % IdModulus, body |-> Completed + 1]
  <2>1. (Completed + 1) - 1 = Completed
    BY <1>6
  <2> QED
    BY <2>1 DEF EntryOf
<1> QED
  BY <1>3, <1>4, <1>8, <1>9 DEF Log!Commit, StateTypeOK

\* Every other step of log_event and save_to_storage is invisible in the log.
LEMMA OthersStutter ==
    ASSUME IInv, IInv', NEW c \in Cores, NEW to \in Locations,
           pc[c] = "body" <=> to = "advance", pc[c] # "advance", to # "body",
           pc' = [pc EXCEPT ![c] = to], UNCHANGED <<eventCount, total>>
    PROVE  UNCHANGED Log!logvars
<1> USE DEF IInv, TypeOK
<1>1. SlotOpen' <=> SlotOpen
  <2>1. \A d \in Cores : pc'[d] \in {"body", "advance"} <=> pc[d] \in {"body", "advance"}
    BY DEF StateTypeOK
  <2> QED
    BY <2>1 DEF SlotOpen
<1>2. Completed' = Completed /\ Settled' = Settled
  BY <1>1 DEF Completed, Settled
<1>3. RingEntries' = RingEntries
  <2>1. RingEntries = Window(Completed, Settled) /\ RingEntries' = Window(Completed, Settled)'
    BY RingIsWindow, RingIsWindowNext DEF RingWindow
  <2> QED
    BY <1>2, <2>1 DEF Window, EntryOf
<1> QED
  BY <1>1, <1>2, <1>3 DEF Log!logvars

\* Read through its indices, the ring of any size, used by any number of cores,
\* is the bounded log: log_event appends one whole event in one atomic step.
THEOREM RingRefinesLog == Spec => ImplementsLog
<1>1. Init => Log!Init
  <2> SUFFICES ASSUME Init
               PROVE  Log!Init
    OBVIOUS
  <2>1. ~SlotOpen
    BY DEF Init, SlotOpen
  <2>2. Completed = 0 /\ Settled = 0
    BY <2>1, BufferAssumption DEF Init, Completed, Settled
  <2>3. RingEntries = <<>>
    BY <2>2 DEF RingEntries
  <2> QED
    BY <2>1, <2>2, <2>3 DEF Log!Init
<1>2. IInv /\ IInv' /\ [Next]_vars => [Log!Next]_(Log!logvars)
  <2> SUFFICES ASSUME IInv, IInv', [Next]_vars
               PROVE  [Log!Next]_(Log!logvars)
    OBVIOUS
  <2>1. CASE UNCHANGED vars
    BY <2>1 DEF vars, ring, Log!logvars, SlotOpen, Completed, Settled, RingEntries, Back
  <2>2. ASSUME NEW c \in Cores, NEW g \in Groups, LogEnter(c, g)
        PROVE  Log!Next
    BY <2>2, EnterImplements DEF Log!Next
  <2>3. ASSUME NEW c \in Cores, LogAdvance(c)
        PROVE  Log!Next
    BY <2>3, AdvanceImplements DEF Log!Next
  <2>4. ASSUME NEW c \in Cores, CoreStep(c), ~LogAdvance(c)
        PROVE  UNCHANGED Log!logvars
    <3>1. PICK to \in Locations :
            /\ pc[c] = "body" <=> to = "advance"
            /\ pc[c] # "advance" /\ to # "body"
            /\ pc' = [pc EXCEPT ![c] = to]
            /\ UNCHANGED <<eventCount, total>>
      BY <2>4 DEF CoreStep, LogStep, LogBody, LogCountLoad, LogCountStore, LogReturn,
             LogReset, SaveStep, SaveBegin, FsInitBegin, FsInitEnd, FsInitFormat,
             FsInitFail, SaveOpen, SaveOpenFail, SaveFirstLoad, SaveSecondLoad, SaveRow, SaveRowsDone, SaveClose,
             SaveCloseFail, Goto, ring, Locations
    <3> QED
      BY <3>1, OthersStutter
  <2> QED
    BY <2>1, <2>2, <2>3, <2>4 DEF Next, AllReturned
<1> QED
  BY <1>1, <1>2, InductiveInvariant, PTL DEF Spec, ImplementsLog, Log!Spec

-----------------------------------------------------------------------------
(* The event file while one core logs, as during the boot, for every buffer *)
(* size, threshold and width of the id, whatever storage does.  With two    *)
(* cores these do not hold (EventManager_unlocked_save.cfg).                 *)

\* One core; a save never needs more than the ring holds, and size_t is wide enough
\* for the sum of two indices: 10, 1000 and 2^32 in the code.
Alone(c) ==
    /\ Cores = {c}
    /\ FlushThreshold =< BufferSize /\ 2 * BufferSize =< SizeModulus

\* Events that eventsSinceFlush has been moved on for, this save's included.
Counted(c) == IF Critical(c) THEN total - 1 ELSE total

\* How far the file may reach: behind it are the unsaved events.
Reach(c) == IF pc[c] = "reset" THEN total ELSE Counted(c) - eventsSinceFlush

CounterOK(c) ==
    /\ Critical(c) => total > 0
    /\ eventsSinceFlush =< Counted(c) /\ eventsSinceFlush =< FlushThreshold
    /\ Critical(c) \/ pc[c] = "idle" => eventsSinceFlush < FlushThreshold
    /\ pc[c] = "store" => reg[c] = eventsSinceFlush

\* What save_to_storage has in its hands.
SaveOK(c) ==
    /\ pc[c] \in {"first", "second", "rows", "close"} => base[c] = file
    /\ pc[c] \in {"first", "second"} => out[c] = <<>>
    /\ pc[c] = "second" => startIdx[c] = writeIndex
    /\ pc[c] = "rows" => startIdx[c] = Back(writeIndex, eventsSinceFlush)
    /\ pc[c] \in {"rows", "close"} =>
          /\ row[c] =< eventsSinceFlush /\ Len(out[c]) = row[c]
          /\ \A i \in 1 .. row[c] : out[c][i] = EntryOf((total - eventsSinceFlush) + i)
    /\ pc[c] = "close" => row[c] = eventsSinceFlush

\* Rows in the order of their events, none twice, all up to n; and all of them.
InOrder(rows, n) ==
    \A i \in 1 .. Len(rows) :
        /\ 0 < rows[i].body /\ rows[i].body =< n /\ rows[i] = EntryOf(rows[i].body)
        /\ i > 1 => rows[i - 1].body < rows[i].body
Complete(rows, n) == Len(rows) = n /\ \A i \in 1 .. Len(rows) : rows[i] = EntryOf(i)

FileOK(c) == InOrder(file, Reach(c)) /\ (~failed => Complete(file, Reach(c)))

SaveInv(c) == CounterOK(c) /\ SaveOK(c) /\ FileOK(c)

-----------------------------------------------------------------------------
(* Rows.                                                                   *)

LEMMA EntryFields ==
    ASSUME NEW n \in Nat \ {0}
    PROVE  EntryOf(n) \in Entry /\ EntryOf(n).body = n
<1>1. (n - 1) % IdModulus \in 0 .. (IdModulus - 1)
  BY IdOf
<1> QED
  BY <1>1 DEF EntryOf, Entry

LEMMA BodyType ==
    ASSUME NEW rows \in Seq(Entry)
    PROVE  \A j \in 1 .. Len(rows) : rows[j].body \in Nat
<1>1. \A j \in 1 .. Len(rows) : rows[j] \in Entry
  BY ElementOfSeq
<1>2. \A entry \in Entry : entry.body \in Nat
  BY DEF Entry
<1> QED
  BY <1>1, <1>2

\* The rows of a save, behind those of the file.
LEMMA AppendedRows ==
    ASSUME NEW old \in Seq(Entry), NEW new \in Seq(Entry), NEW a \in Nat,
           InOrder(old, a), \A i \in 1 .. Len(new) : new[i] = EntryOf(a + i)
    PROVE  /\ InOrder(old \o new, a + Len(new))
           /\ Complete(old, a) => Complete(old \o new, a + Len(new))
<1> DEFINE rows == old \o new
<1>1. Len(old) \in Nat /\ Len(new) \in Nat
  BY LenProperties
<1>2. /\ rows \in Seq(Entry) /\ Len(rows) = Len(old) + Len(new)
      /\ \A i \in 1 .. Len(old) + Len(new) :
            rows[i] = IF i =< Len(old) THEN old[i] ELSE new[i - Len(old)]
  BY ConcatProperties
<1> HIDE DEF rows
<1>3. ASSUME NEW i \in 1 .. Len(rows), i =< Len(old)
      PROVE  rows[i] = old[i] /\ i \in 1 .. Len(old)
  BY <1>1, <1>2, <1>3
<1>4. ASSUME NEW i \in 1 .. Len(rows), ~(i =< Len(old))
      PROVE  /\ rows[i] = EntryOf(a + (i - Len(old))) /\ i - Len(old) \in 1 .. Len(new)
             /\ rows[i].body = a + (i - Len(old))
  <2>1. i - Len(old) \in 1 .. Len(new) /\ i \in 1 .. Len(old) + Len(new)
    BY <1>1, <1>2, <1>4
  <2>2. rows[i] = EntryOf(a + (i - Len(old)))
    BY <1>2, <1>4, <2>1
  <2>3. a + (i - Len(old)) \in Nat \ {0}
    BY <2>1
  <2> QED
    BY <2>1, <2>2, <2>3, EntryFields
<1>5. ASSUME NEW i \in 1 .. Len(rows)
      PROVE  /\ 0 < rows[i].body /\ rows[i].body =< a + Len(new) /\ rows[i] = EntryOf(rows[i].body)
             /\ i > 1 => rows[i - 1].body < rows[i].body
  <2>0. \A j \in 1 .. Len(old) : old[j].body \in Nat
    BY BodyType
  <2>1. CASE i =< Len(old)
    <3>1. rows[i] = old[i] /\ i \in 1 .. Len(old)
      BY <1>3, <2>1
    <3>2. /\ 0 < old[i].body /\ old[i].body =< a /\ old[i] = EntryOf(old[i].body)
          /\ i > 1 => old[i - 1].body < old[i].body
      BY <3>1 DEF InOrder
    <3>3. i > 1 => rows[i - 1] = old[i - 1]
      BY <1>1, <1>2, <1>3, <2>1
    <3> QED
      BY <1>1, <2>0, <3>1, <3>2, <3>3
  <2>2. CASE ~(i =< Len(old))
    <3>1. /\ rows[i] = EntryOf(a + (i - Len(old))) /\ rows[i].body = a + (i - Len(old))
          /\ i - Len(old) \in 1 .. Len(new)
      BY <1>4, <2>2
    <3>2. ASSUME i > 1
          PROVE  rows[i - 1].body < rows[i].body
      <4>1. i - 1 \in 1 .. Len(rows)
        BY <1>1, <1>2, <3>2
      <4>2. CASE i - 1 =< Len(old)
        <5>1. rows[i - 1] = old[i - 1] /\ i - 1 \in 1 .. Len(old)
          BY <1>3, <4>1, <4>2
        <5>2. old[i - 1].body =< a
          BY <5>1 DEF InOrder
        <5> QED
          BY <1>1, <2>0, <3>1, <5>1, <5>2
      <4>3. CASE ~(i - 1 =< Len(old))
        <5>1. rows[i - 1].body = a + ((i - 1) - Len(old))
          BY <1>4, <4>1, <4>3
        <5> QED
          BY <1>1, <3>1, <5>1
      <4> QED
        BY <4>2, <4>3
    <3> QED
      BY <1>1, <3>1, <3>2
  <2> QED
    BY <2>1, <2>2
<1>6. InOrder(rows, a + Len(new))
  BY <1>5 DEF InOrder
<1>7. ASSUME Complete(old, a)
      PROVE  Complete(rows, a + Len(new))
  <2>1. Len(old) = a /\ Len(rows) = a + Len(new)
    BY <1>2, <1>7 DEF Complete
  <2>2. ASSUME NEW i \in 1 .. Len(rows)
        PROVE  rows[i] = EntryOf(i)
    <3>1. CASE i =< Len(old)
      BY <1>3, <1>7, <3>1 DEF Complete
    <3>2. CASE ~(i =< Len(old))
      <4>1. a + (i - Len(old)) = i
        BY <2>1
      <4> QED
        BY <1>4, <3>2, <4>1
    <3> QED
      BY <3>1, <3>2
  <2> QED
    BY <2>1, <2>2 DEF Complete
<1> QED
  BY <1>6, <1>7 DEF rows

LEMMA NoRowsYet == InOrder(<<>>, 0) /\ Complete(<<>>, 0) /\ \A n \in Nat : InOrder(<<>>, n)
<1>1. Len(<<>>) = 0
  BY EmptySeq
<1> QED
  BY <1>1 DEF InOrder, Complete

LEMMA InOrderMore ==
    ASSUME NEW rows \in Seq(Entry), NEW a \in Nat, NEW b \in Nat, a =< b, InOrder(rows, a)
    PROVE  InOrder(rows, b)
<1>1. \A j \in 1 .. Len(rows) : rows[j].body \in Nat
  BY BodyType
<1> QED
  BY <1>1 DEF InOrder

\* The slot of the loop's next row, and the event in it.
LEMMA SavedSlot ==
    ASSUME NEW w \in Slots, NEW n \in 0 .. BufferSize, NEW k \in Nat, k < n,
           2 * BufferSize =< SizeModulus
    PROVE  ((Back(w, n) + k) % SizeModulus) % BufferSize = Back(w, n - k)
<1> USE BufferAssumption, ModulusAssumption
<1>1. /\ w \in Nat /\ w < BufferSize /\ n \in Nat /\ n =< BufferSize /\ Back(w, n) \in Nat
      /\ Back(w, n) + k = (IF w >= n THEN w ELSE w + BufferSize) - (n - k)
  BY DEF Slots, Back
<1> DEFINE sum == Back(w, n) + k
<1>2. sum \in Nat /\ sum < 2 * BufferSize
  BY <1>1
<1>3. sum = IF w >= n - k THEN (IF w >= n THEN w - (n - k) ELSE (w - (n - k)) + BufferSize)
            ELSE (w + BufferSize) - (n - k)
  BY <1>1
<1> HIDE DEF sum
<1>4. sum % SizeModulus = sum
  BY <1>2
<1>5. sum % BufferSize = IF sum < BufferSize THEN sum ELSE sum - BufferSize
  BY <1>2
<1>6. sum % BufferSize = Back(w, n - k)
  BY <1>1, <1>3, <1>5 DEF Back
<1> QED
  BY <1>4, <1>6 DEF sum

LEMMA StartIsBack ==
    ASSUME NEW w \in Slots, NEW n \in 0 .. BufferSize
    PROVE  StartOf(w, n) = Back(w, n)
<1> USE BufferAssumption, ModulusAssumption
<1>1. CASE w >= n
  BY <1>1 DEF StartOf, Back
<1>2. CASE ~(w >= n)
  <2>1. BufferSize - (n - w) \in Nat /\ BufferSize - (n - w) < SizeModulus
    BY <1>2 DEF Slots
  <2>2. (BufferSize - (n - w)) % SizeModulus = BufferSize - (n - w)
    BY <2>1
  <2> QED
    BY <1>2, <2>2 DEF StartOf, Back, Slots
<1> QED
  BY <1>1, <1>2

-----------------------------------------------------------------------------
(* The steps of the one core.                                              *)

\* With one core the ring has no open slot while it saves.
LEMMA SettledAlone ==
    ASSUME NEW c, Alone(c), IInv, pc[c] \notin {"body", "advance"}
    PROVE  /\ Completed = total
           /\ \A k \in 1 .. BufferSize : k =< total => events[Back(writeIndex, k)] = EntryOf((total + 1) - k)
<1>1. Completed = total /\ Settled = eventCount
  BY DEF Alone, SlotOpen, Completed, Settled
<1>2. total \in Nat /\ eventCount = IF total < BufferSize THEN total ELSE BufferSize
  BY <1>1 DEF IInv, TypeOK, StateTypeOK, RingHoldsLatest
<1>3. \A k \in 1 .. eventCount : events[Back(writeIndex, k)] = EntryOf((total + 1) - k)
  BY <1>1 DEF IInv, RingHoldsLatest
<1>4. \A k \in 1 .. BufferSize : k =< total => k \in 1 .. eventCount
  BY <1>2, BufferAssumption
<1> QED
  BY <1>1, <1>3, <1>4

LEMMA InitSave == ASSUME NEW c, Alone(c), Init PROVE SaveInv(c)
<1>1. /\ pc[c] = "idle" /\ total = 0 /\ eventsSinceFlush = 0 /\ file = <<>>
  BY DEF Alone, Init
<1>2. ~Critical(c) /\ Counted(c) = 0 /\ Reach(c) = 0
  BY <1>1 DEF Critical, Counted, Reach
<1>3. CounterOK(c)
  BY <1>1, <1>2, BufferAssumption DEF CounterOK
<1>4. SaveOK(c)
  BY <1>1 DEF SaveOK
<1>5. FileOK(c)
  BY <1>1, <1>2, NoRowsYet DEF FileOK
<1> QED
  BY <1>3, <1>4, <1>5 DEF SaveInv

\* A step outside the save that moves the limit of the file not at all.
LEMMA SameFile ==
    ASSUME NEW c, FileOK(c), UNCHANGED <<file, failed>>, Reach(c)' = Reach(c)
    PROVE  FileOK(c)'
  BY DEF FileOK, InOrder, Complete

LEMMA LogSave ==
    ASSUME NEW c, Alone(c), IInv, SaveInv(c), NEW g \in Groups,
           LogEnter(c, g) \/ LogBody(c) \/ LogAdvance(c)
    PROVE  SaveInv(c)'
<1> USE DEF ring, storage, saving
<1>1. /\ pc \in [Cores -> Locations] /\ c \in Cores /\ total \in Nat /\ eventsSinceFlush \in Nat
  BY DEF IInv, TypeOK, StateTypeOK, Alone
<1>2. PICK to \in {"body", "advance", "load"} : pc' = [pc EXCEPT ![c] = to]
  BY DEF LogEnter, LogBody, LogAdvance, Goto
<1>3. pc[c] \in {"idle", "body", "advance"} /\ pc'[c] = to
  BY <1>1, <1>2 DEF LogEnter, LogBody, LogAdvance, Goto
<1>4. /\ UNCHANGED <<eventsSinceFlush, file, failed>>
      /\ total' = IF pc[c] = "idle" THEN total + 1 ELSE total
  BY <1>1, <1>2 DEF LogEnter, LogBody, LogAdvance, Goto
<1>5. /\ Critical(c)' /\ (Critical(c) <=> pc[c] # "idle") /\ total' > 0
      /\ Counted(c)' = Counted(c) /\ Reach(c)' = Reach(c)
  BY <1>1, <1>3, <1>4 DEF Critical, Counted, Reach, SaveInv, CounterOK
<1>6. CounterOK(c)'
  BY <1>3, <1>4, <1>5 DEF CounterOK, SaveInv
<1>7. SaveOK(c)'
  BY <1>3 DEF SaveOK
<1>8. FileOK(c)'
  BY <1>4, <1>5, SameFile DEF SaveInv
<1> QED
  BY <1>6, <1>7, <1>8 DEF SaveInv

LEMMA CountSave ==
    ASSUME NEW c, Alone(c), IInv, SaveInv(c),
           LogCountLoad(c) \/ LogCountStore(c) \/ LogReturn(c) \/ LogReset(c)
    PROVE  SaveInv(c)'
<1> USE DEF ring, storage, saving
<1>1. /\ pc \in [Cores -> Locations] /\ c \in Cores /\ total \in Nat /\ eventsSinceFlush \in Nat
      /\ reg \in [Cores -> Nat] /\ file \in Seq(Entry)
  BY DEF IInv, TypeOK, StateTypeOK, RowsTypeOK, Alone
<1>2. CASE LogCountLoad(c)
  <2>1. /\ pc[c] = "load" /\ pc'[c] = "store" /\ reg'[c] = eventsSinceFlush
        /\ UNCHANGED <<eventsSinceFlush, file, failed, total>>
    BY <1>1, <1>2 DEF LogCountLoad, Goto
  <2>2. Critical(c) /\ Critical(c)' /\ Counted(c)' = Counted(c) /\ Reach(c)' = Reach(c)
    BY <2>1 DEF Critical, Counted, Reach
  <2>3. CounterOK(c)' /\ SaveOK(c)'
    BY <2>1, <2>2 DEF CounterOK, SaveOK, SaveInv
  <2> QED
    BY <2>1, <2>2, <2>3, SameFile DEF SaveInv
<1>3. CASE LogCountStore(c)
  <2>1. /\ pc[c] = "store" /\ pc'[c] = "check" /\ eventsSinceFlush' = reg[c] + 1
        /\ UNCHANGED <<file, failed, total>>
    BY <1>1, <1>3 DEF LogCountStore, Goto
  <2>2. Critical(c) /\ ~Critical(c)'
    BY <2>1 DEF Critical
  <2>3. /\ eventsSinceFlush' = eventsSinceFlush + 1 /\ eventsSinceFlush < FlushThreshold
        /\ eventsSinceFlush =< total - 1
    BY <2>1, <2>2 DEF SaveInv, CounterOK, Counted
  <2>4. Counted(c)' = total /\ Counted(c) = total - 1
    BY <2>1, <2>2 DEF Counted
  <2>5. Reach(c)' = Reach(c)
    BY <1>1, <2>1, <2>3, <2>4 DEF Reach
  <2>6. CounterOK(c)' /\ SaveOK(c)'
    BY <1>1, <2>1, <2>2, <2>3, <2>4, BufferAssumption DEF CounterOK, SaveOK
  <2> QED
    BY <2>1, <2>5, <2>6, SameFile DEF SaveInv
<1>4. CASE LogReturn(c)
  <2>1. /\ pc[c] = "check" /\ pc'[c] = "idle" /\ eventsSinceFlush < FlushThreshold
        /\ UNCHANGED <<eventsSinceFlush, file, failed, total>>
    BY <1>1, <1>4, BufferAssumption DEF LogReturn, SaveDue, Goto
  <2>2. ~Critical(c) /\ ~Critical(c)' /\ Counted(c)' = Counted(c) /\ Reach(c)' = Reach(c)
    BY <2>1 DEF Critical, Counted, Reach
  <2>3. CounterOK(c)' /\ SaveOK(c)'
    BY <2>1, <2>2 DEF CounterOK, SaveOK, SaveInv
  <2> QED
    BY <2>1, <2>2, <2>3, SameFile DEF SaveInv
<1>5. CASE LogReset(c)
  <2>1. /\ pc[c] = "reset" /\ pc'[c] = "idle" /\ eventsSinceFlush' = 0
        /\ UNCHANGED <<file, failed, total>>
    BY <1>1, <1>5 DEF LogReset, Goto
  <2>2. ~Critical(c)' /\ Counted(c)' = total /\ Reach(c) = total /\ Reach(c)' = total
    BY <1>1, <2>1 DEF Critical, Counted, Reach
  <2>3. CounterOK(c)' /\ SaveOK(c)'
    BY <1>1, <2>1, <2>2, BufferAssumption DEF CounterOK, SaveOK
  <2> QED
    BY <2>1, <2>2, <2>3, SameFile DEF SaveInv
<1> QED
  BY <1>2, <1>3, <1>4, <1>5

\* The part of a save before its loop.
LEMMA OpenSave ==
    ASSUME NEW c, Alone(c), IInv, SaveInv(c),
           \/ SaveBegin(c) \/ FsInitBegin(c) \/ FsInitEnd(c) \/ FsInitFormat(c)
           \/ FsInitFail(c) \/ SaveOpen(c) \/ SaveOpenFail(c)
    PROVE  SaveInv(c)'
<1> USE DEF ring, storage, saving
<1>1. /\ pc \in [Cores -> Locations] /\ c \in Cores /\ total \in Nat /\ eventsSinceFlush \in Nat
      /\ file \in Seq(Entry) /\ base \in [Cores -> Seq(Entry)] /\ out \in [Cores -> Seq(Entry)]
  BY DEF IInv, TypeOK, StateTypeOK, RowsTypeOK, Alone
<1>2. /\ pc[c] \in {"check", "mount", "mounting", "open"} /\ UNCHANGED <<total, eventsSinceFlush>>
      /\ pc'[c] \in {"mount", "mounting", "open", "first", "reset"}
  BY <1>1 DEF SaveBegin, FsInitBegin, FsInitEnd, FsInitFormat, FsInitFail, SaveOpen,
              SaveOpenFail, Goto
<1>3. ~Critical(c) /\ ~Critical(c)' /\ Counted(c) = total /\ Counted(c)' = total
  BY <1>2 DEF Critical, Counted
<1>4. /\ Reach(c) = total - eventsSinceFlush /\ Reach(c) \in Nat /\ Reach(c) =< total
      /\ Reach(c)' = IF pc'[c] = "reset" THEN total ELSE total - eventsSinceFlush
  BY <1>1, <1>2, <1>3 DEF Reach, SaveInv, CounterOK
<1>5. CounterOK(c)'
  BY <1>2, <1>3 DEF CounterOK, SaveInv
<1>6. SaveOK(c)'
  <2>1. CASE pc'[c] = "first"
    <3>1. base' = [base EXCEPT ![c] = file] /\ out' = [out EXCEPT ![c] = <<>>] /\ file' = file
      BY <1>1, <2>1 DEF SaveBegin, FsInitBegin, FsInitEnd, FsInitFormat, FsInitFail, SaveOpen,
                        SaveOpenFail, Goto
    <3>2. base'[c] = file' /\ out'[c] = <<>>
      BY <1>1, <3>1
    <3> QED
      BY <2>1, <3>2 DEF SaveOK
  <2>2. CASE pc'[c] # "first"
    BY <1>2, <2>2 DEF SaveOK
  <2> QED
    BY <2>1, <2>2
<1>7. FileOK(c)'
  <2>1. CASE SaveBegin(c) \/ FsInitBegin(c) \/ FsInitEnd(c) \/ SaveOpen(c)
    <3>1. pc'[c] # "reset" /\ UNCHANGED <<file, failed>>
      BY <1>1, <2>1 DEF SaveBegin, FsInitBegin, FsInitEnd, SaveOpen, Goto
    <3> QED
      BY <1>4, <3>1, SameFile DEF SaveInv
  <2>2. CASE FsInitFormat(c)
    <3>1. pc'[c] # "reset" /\ file' = <<>> /\ failed'
      BY <1>1, <2>2 DEF FsInitFormat, Goto
    <3>2. Reach(c)' \in Nat
      BY <1>1, <1>4, <3>1
    <3> QED
      BY <3>1, <3>2, NoRowsYet DEF FileOK
  <2>3. CASE FsInitFail(c) \/ SaveOpenFail(c)
    <3>1. pc'[c] = "reset" /\ file' = file /\ failed'
      BY <1>1, <2>3 DEF FsInitFail, SaveOpenFail, Goto
    <3>2. Reach(c)' = total
      BY <1>4, <3>1
    <3>3. InOrder(file, total)
      BY <1>1, <1>4, InOrderMore DEF SaveInv, FileOK
    <3>4. InOrder(file, total)'
      BY <1>2, <3>1, <3>3 DEF InOrder
    <3> QED
      BY <1>2, <3>1, <3>2, <3>3 DEF FileOK
  <2> QED
    BY <2>1, <2>2, <2>3
<1> QED
  BY <1>5, <1>6, <1>7 DEF SaveInv

\* The loop over the unsaved events: nothing moves while the only core is in it.
LEMMA LoopSave ==
    ASSUME NEW c, Alone(c), IInv, SaveInv(c),
           SaveFirstLoad(c) \/ SaveSecondLoad(c) \/ SaveRow(c) \/ SaveRowsDone(c)
    PROVE  SaveInv(c)'
<1> USE DEF ring, storage, saving
<1>1. /\ pc \in [Cores -> Locations] /\ c \in Cores /\ total \in Nat /\ eventsSinceFlush \in Nat
      /\ out \in [Cores -> Seq(Entry)] /\ startIdx \in [Cores -> Nat] /\ row \in [Cores -> Nat]
      /\ writeIndex \in Slots
  BY DEF IInv, TypeOK, StateTypeOK, RowsTypeOK, Alone
<1>2. /\ pc[c] \in {"first", "second", "rows"} /\ pc'[c] \in {"second", "rows", "close"}
      /\ UNCHANGED <<total, eventsSinceFlush, file, failed, base, writeIndex>>
  BY <1>1 DEF SaveFirstLoad, SaveSecondLoad, SaveRow, SaveRowsDone, Goto
<1>3. /\ ~Critical(c) /\ ~Critical(c)' /\ Counted(c) = total /\ Counted(c)' = total
      /\ Reach(c)' = Reach(c)
  BY <1>2 DEF Critical, Counted, Reach
<1>4. CounterOK(c)'
  BY <1>2, <1>3 DEF CounterOK, SaveInv
<1>5. FileOK(c)'
  BY <1>2, <1>3, SameFile DEF SaveInv
<1>6. /\ eventsSinceFlush \in 0 .. BufferSize /\ eventsSinceFlush =< total
      /\ base'[c] = file'
      /\ pc[c] \in {"first", "second"} => out[c] = <<>>
  BY <1>1, <1>2, <1>3, BufferAssumption DEF Alone, SaveInv, CounterOK, SaveOK
<1>7. CASE SaveFirstLoad(c)
  <2>1. /\ pc[c] = "first" /\ pc'[c] = "second" /\ startIdx'[c] = writeIndex /\ out' = out
    BY <1>1, <1>7 DEF SaveFirstLoad, Goto
  <2>2. SaveOK(c)'
    BY <1>2, <1>6, <2>1 DEF SaveOK
  <2> QED
    BY <1>4, <1>5, <2>2 DEF SaveInv
<1>8. CASE SaveSecondLoad(c)
  <2>1. /\ pc[c] = "second" /\ pc'[c] = "rows" /\ row'[c] = 0 /\ out' = out
        /\ startIdx'[c] = StartOf(startIdx[c], eventsSinceFlush)
    BY <1>1, <1>8 DEF SaveSecondLoad, Goto
  <2>2. startIdx[c] = writeIndex
    BY <2>1 DEF SaveInv, SaveOK
  <2>3. startIdx'[c] = Back(writeIndex, eventsSinceFlush)
    BY <1>1, <1>6, <2>1, <2>2, StartIsBack
  <2>4. startIdx'[c] = Back(writeIndex, eventsSinceFlush)'
    BY <1>2, <2>3 DEF Back
  <2>5. out'[c] = <<>> /\ Len(out'[c]) = 0
    BY <1>6, <2>1, EmptySeq
  <2>6. SaveOK(c)'
    BY <1>1, <1>2, <1>6, <2>1, <2>4, <2>5 DEF SaveOK
  <2> QED
    BY <1>4, <1>5, <2>6 DEF SaveInv
<1>9. CASE SaveRow(c)
  <2> DEFINE next == events[((startIdx[c] + row[c]) % SizeModulus) % BufferSize]
  <2>1. /\ pc[c] = "rows" /\ pc'[c] = "rows" /\ row[c] < eventsSinceFlush /\ row'[c] = row[c] + 1
        /\ startIdx' = startIdx /\ out'[c] = Append(out[c], next)
    BY <1>1, <1>9 DEF SaveRow, Goto
  <2>2. /\ startIdx[c] = Back(writeIndex, eventsSinceFlush) /\ Len(out[c]) = row[c]
        /\ \A i \in 1 .. row[c] : out[c][i] = EntryOf((total - eventsSinceFlush) + i)
    BY <2>1 DEF SaveInv, SaveOK
  <2>3. next = events[Back(writeIndex, eventsSinceFlush - row[c])]
    <3>1. row[c] \in Nat
      BY <1>1
    <3>2. ((Back(writeIndex, eventsSinceFlush) + row[c]) % SizeModulus) % BufferSize
             = Back(writeIndex, eventsSinceFlush - row[c])
      BY <1>1, <1>6, <2>1, <3>1, SavedSlot DEF Alone
    <3> QED
      BY <2>2, <3>2
  <2>4. /\ eventsSinceFlush - row[c] \in 1 .. BufferSize /\ eventsSinceFlush - row[c] =< total
        /\ (total + 1) - (eventsSinceFlush - row[c]) = (total - eventsSinceFlush) + (row[c] + 1)
    <3>1. row[c] \in Nat /\ row[c] < eventsSinceFlush /\ BufferSize \in Nat
      BY <1>1, <2>1, BufferAssumption
    <3>2. eventsSinceFlush \in Nat /\ eventsSinceFlush =< BufferSize /\ eventsSinceFlush =< total
      BY <1>1, <1>6, <3>1
    <3> QED
      BY <1>1, <3>1, <3>2
  <2>5. events[Back(writeIndex, eventsSinceFlush - row[c])]
           = EntryOf((total + 1) - (eventsSinceFlush - row[c]))
    BY <2>1, <2>4, SettledAlone
  <2>6. next = EntryOf((total - eventsSinceFlush) + (row[c] + 1))
    BY <2>3, <2>4, <2>5
  <2> HIDE DEF next
  <2>7. out[c] \in Seq(Entry)
    BY <1>1
  <2>8. /\ Len(Append(out[c], next)) = Len(out[c]) + 1 /\ Append(out[c], next)[Len(out[c]) + 1] = next
        /\ \A i \in 1 .. Len(out[c]) : Append(out[c], next)[i] = out[c][i]
    BY <2>7
  <2>9. /\ Len(out'[c]) = row'[c]
        /\ \A i \in 1 .. row'[c] : out'[c][i] = EntryOf((total - eventsSinceFlush) + i)
    <3>1. row[c] \in Nat
      BY <1>1
    <3>2. ASSUME NEW i \in 1 .. row'[c]
          PROVE  out'[c][i] = EntryOf((total - eventsSinceFlush) + i)
      <4>1. CASE i = row[c] + 1
        BY <2>1, <2>2, <2>6, <2>8, <4>1
      <4>2. CASE i # row[c] + 1
        <5>1. i \in 1 .. row[c]
          BY <2>1, <3>1, <4>2
        <5> QED
          BY <2>1, <2>2, <2>8, <5>1
      <4> QED
        BY <4>1, <4>2
    <3> QED
      BY <2>1, <2>2, <2>8, <3>2
  <2>10. \A i \in 1 .. row'[c] : out'[c][i] = EntryOf((total' - eventsSinceFlush') + i)
    BY <1>2, <2>9
  <2>11. startIdx'[c] = Back(writeIndex, eventsSinceFlush)' /\ row'[c] =< eventsSinceFlush'
    BY <1>1, <1>2, <2>1, <2>2 DEF Back
  <2>12. SaveOK(c)'
    BY <1>6, <2>1, <2>9, <2>10, <2>11 DEF SaveOK, EntryOf
  <2> QED
    BY <1>4, <1>5, <2>12 DEF SaveInv
<1>10. CASE SaveRowsDone(c)
  <2>1. /\ pc[c] = "rows" /\ pc'[c] = "close" /\ row[c] >= eventsSinceFlush
        /\ UNCHANGED <<row, out>>
    BY <1>1, <1>10 DEF SaveRowsDone, Goto
  <2>2. /\ row[c] = eventsSinceFlush /\ Len(out[c]) = row[c]
        /\ \A i \in 1 .. row[c] : out[c][i] = EntryOf((total - eventsSinceFlush) + i)
    BY <1>1, <2>1 DEF SaveInv, SaveOK
  <2>3. /\ row'[c] = eventsSinceFlush' /\ row'[c] =< eventsSinceFlush' /\ Len(out'[c]) = row'[c]
        /\ \A i \in 1 .. row'[c] : out'[c][i] = EntryOf((total' - eventsSinceFlush') + i)
    BY <1>1, <1>2, <2>1, <2>2
  <2>4. SaveOK(c)'
    BY <1>6, <2>1, <2>3 DEF SaveOK, EntryOf
  <2> QED
    BY <1>4, <1>5, <2>4 DEF SaveInv
<1> QED
  BY <1>7, <1>8, <1>9, <1>10

LEMMA CloseSave ==
    ASSUME NEW c, Alone(c), IInv, SaveInv(c), SaveClose(c) \/ SaveCloseFail(c)
    PROVE  SaveInv(c)'
<1> USE DEF ring, storage, saving
<1>1. /\ pc \in [Cores -> Locations] /\ c \in Cores /\ total \in Nat /\ eventsSinceFlush \in Nat
      /\ file \in Seq(Entry) /\ out \in [Cores -> Seq(Entry)]
  BY DEF IInv, TypeOK, StateTypeOK, RowsTypeOK, Alone
<1>2. pc[c] = "close" /\ pc'[c] = "reset" /\ UNCHANGED <<total, eventsSinceFlush>>
  BY <1>1 DEF SaveClose, SaveCloseFail, Goto
<1>3. ~Critical(c) /\ ~Critical(c)' /\ Counted(c) = total /\ Counted(c)' = total
  BY <1>2 DEF Critical, Counted
<1>4. eventsSinceFlush =< total /\ Reach(c) = total - eventsSinceFlush /\ Reach(c)' = total
  BY <1>2, <1>3 DEF Reach, SaveInv, CounterOK
<1>5. CounterOK(c)'
  BY <1>2, <1>3 DEF CounterOK, SaveInv
<1>6. SaveOK(c)'
  BY <1>2 DEF SaveOK
<1>7. CASE SaveClose(c)
  <2>1. /\ base[c] = file /\ Len(out[c]) = eventsSinceFlush /\ out[c] \in Seq(Entry)
        /\ \A i \in 1 .. Len(out[c]) : out[c][i] = EntryOf((total - eventsSinceFlush) + i)
    BY <1>1, <1>2 DEF SaveInv, SaveOK
  <2>2. file' = IF out[c] = <<>> THEN file ELSE file \o out[c]
    BY <1>7, <2>1 DEF SaveClose
  <2>3. total - eventsSinceFlush \in Nat /\ (total - eventsSinceFlush) + Len(out[c]) = total
    BY <1>1, <1>4, <2>1
  <2>4. InOrder(file, total - eventsSinceFlush) /\ (~failed => Complete(file, total - eventsSinceFlush))
    BY <1>4 DEF SaveInv, FileOK
  <2>5. /\ InOrder(file \o out[c], total)
        /\ ~failed => Complete(file \o out[c], total)
    BY <1>1, <2>1, <2>3, <2>4, AppendedRows
  <2>6. InOrder(file', total) /\ (~failed => Complete(file', total))
    <3>1. CASE out[c] = <<>>
      <4>1. Len(out[c]) = 0
        BY <3>1, EmptySeq
      <4>2. total - eventsSinceFlush = total
        BY <2>3, <4>1
      <4> QED
        BY <2>2, <2>4, <3>1, <4>2
    <3>2. CASE out[c] # <<>>
      BY <2>2, <2>5, <3>2
    <3> QED
      BY <3>1, <3>2
  <2>7. failed' = failed
    BY <1>7 DEF SaveClose
  <2>8. FileOK(c)'
    BY <1>4, <2>6, <2>7 DEF FileOK, InOrder, Complete, EntryOf
  <2> QED
    BY <1>5, <1>6, <2>8 DEF SaveInv
<1>8. CASE SaveCloseFail(c)
  <2>1. file' = file /\ failed'
    BY <1>8 DEF SaveCloseFail
  <2>2. InOrder(file, total)
    BY <1>1, <1>4, InOrderMore DEF SaveInv, FileOK
  <2>3. FileOK(c)'
    BY <1>4, <2>1, <2>2 DEF FileOK, InOrder, EntryOf
  <2> QED
    BY <1>5, <1>6, <2>3 DEF SaveInv
<1> QED
  BY <1>7, <1>8

LEMMA StutterSave == ASSUME NEW c, SaveInv(c), UNCHANGED vars PROVE SaveInv(c)'
<1> USE DEF vars, ring, storage, saving
<1>1. /\ Critical(c)' = Critical(c) /\ Counted(c)' = Counted(c) /\ Reach(c)' = Reach(c)
  BY DEF Critical, Counted, Reach
<1>2. CounterOK(c)'
  BY <1>1 DEF CounterOK, SaveInv
<1>3. SaveOK(c)'
  BY DEF SaveInv, SaveOK, EntryOf, Back
<1>4. FileOK(c)'
  BY <1>1, SameFile DEF SaveInv
<1> QED
  BY <1>2, <1>3, <1>4 DEF SaveInv

LEMMA NextSave ==
    ASSUME NEW c, Alone(c), IInv, SaveInv(c), [Next]_vars
    PROVE  SaveInv(c)'
<1>1. CASE \E g \in Groups : LogEnter(c, g)
  BY <1>1, LogSave
<1>2. CASE LogStep(c)
  <2>1. Power \in Groups
    BY GroupsAssumption
  <2> QED
    BY <1>2, <2>1, LogSave, CountSave DEF LogStep
<1>3. CASE SaveStep(c)
  BY <1>3, OpenSave, LoopSave, CloseSave DEF SaveStep
<1>4. CASE AllReturned \/ UNCHANGED vars
  BY <1>4, StutterSave DEF AllReturned
<1> QED
  BY <1>1, <1>2, <1>3, <1>4 DEF Alone, Next, CoreStep

LEMMA AlwaysSave == ASSUME NEW CONSTANT c, Alone(c) PROVE Spec => []SaveInv(c)
<1>1. Init => SaveInv(c)
  BY InitSave
<1>2. IInv /\ SaveInv(c) /\ [Next]_vars => SaveInv(c)'
  BY NextSave
<1> QED
  BY <1>1, <1>2, InductiveInvariant, PTL DEF Spec

\* Whatever fails, the event file written by one core holds whole events in the
\* order in which they were logged, none of them twice.
THEOREM Once ==
    ASSUME NEW CONSTANT c, Alone(c)
    PROVE  Spec => []PersistedOnce
<1>1. SaveInv(c) => PersistedOnce
  BY DEF SaveInv, FileOK, InOrder, PersistedOnce
<1> QED
  BY <1>1, AlwaysSave, PTL

\* As long as storage works, between two calls of log_event that one core makes
\* the file has every event but the unsaved ones.
THEOREM Gapless ==
    ASSUME NEW CONSTANT c, Alone(c)
    PROVE  Spec => []NothingSkipped
<1>1. SaveInv(c) => NothingSkipped
  BY DEF SaveInv, FileOK, Complete, NothingSkipped, Alone, Idle, Reach, Counted, Critical
<1> QED
  BY <1>1, AlwaysSave, PTL

-----------------------------------------------------------------------------
(* Command 5.1 (EventCommands).                                            *)

FrameType ==
    [op : {"SEQ", "VAL", "ERR"},
     text : {"", "SEQ_DONE", "INVALID_OPERATION", "PARAM_INVALID", "INVALID_VALUE"},
     rows : Seq(Entry), number : Nat]

HandlerTypeOK ==
    /\ at \in {"ready", "get", "read", "page", "sent"}
    /\ available \in 0 .. BufferSize /\ wanted \in 0 .. available /\ toReturn \in 0 .. wanted
    /\ eventIndex \in Int /\ asked \in Nat /\ ref \in Slots \cup {-1}
    /\ page \in Seq(Entry) /\ frames \in Seq(FrameType)

\* The oldest event is in slot 0 until the ring is full, then behind the newest.
WriteOK == writeIndex = Completed % BufferSize

\* The row of the j-th latest event: of all events, or of those there were when the
\* command was read.
RowIs(entry, j) ==
    /\ asked = total => entry = EntryOf((total + 1) - j)
    /\ eventCount < BufferSize => entry = EntryOf((available + 1) - j)

\* Rows the handler is through with.
Given == wanted - toReturn

Answering == at \in {"get", "read", "page"}

\* What the handler knows of the ring is not ahead of it.
CountsOK ==
    /\ asked =< Completed
    /\ Answering => available = Lesser(asked, BufferSize)
    /\ at \in {"get", "page"} => eventIndex = available - Given

\* A reference is into the entry that is to be formatted, for as long as the ring stands
\* still or has not been filled.
RefOK ==
    /\ at # "read" => ref = -1
    /\ at = "read" =>
          /\ toReturn > 0 /\ eventIndex = (available - Given) - 1
          /\ asked = total => ref # -1 /\ events[ref] = EntryOf(total - Given)
          /\ eventCount < BufferSize => ref = eventIndex

\* Pages that hold all the wanted rows.
Whole(pages) ==
    /\ (Len(pages) - 1) * PageSize < wanted /\ wanted =< Len(pages) * PageSize
    /\ \A p \in 1 .. Len(pages) :
          /\ pages[p].op = "SEQ"
          /\ Len(pages[p].rows) = IF p < Len(pages) THEN PageSize ELSE wanted - (p - 1) * PageSize

\* Pages that are full, and the rows given are in them and in the page being built.
Full ==
    /\ Given = Len(frames) * PageSize + Len(page)
    /\ \A p \in 1 .. Len(frames) : frames[p].op = "SEQ" /\ Len(frames[p].rows) = PageSize

LayoutOK ==
    /\ at = "ready" => frames = <<>>
    /\ at \in {"ready", "sent"} => page = <<>>
    /\ at \in {"read", "page"} => Full
    /\ at = "read" => Len(page) < PageSize
    /\ at = "page" => Len(page) \in 1 .. PageSize
    /\ at = "get" => IF toReturn = 0 THEN page = <<>> /\ Whole(frames)
                                     ELSE Full /\ Len(page) < PageSize
    /\ at = "sent" => frames # <<>>
    /\ at = "sent" /\ Answered => Whole(Pages)

RowsOK ==
    /\ \A p \in 1 .. Len(frames) : \A r \in 1 .. Len(frames[p].rows) :
          RowIs(frames[p].rows[r], (p - 1) * PageSize + r)
    /\ \A r \in 1 .. Len(page) : RowIs(page[r], Len(frames) * PageSize + r)

HandlerInv == HandlerTypeOK /\ CountsOK /\ RefOK /\ LayoutOK /\ RowsOK

-----------------------------------------------------------------------------
(* What the logging cores do meanwhile.                                    *)

\* Counters only grow, the place to write follows them, and once every event given a
\* number has been logged, only another event touches the ring.
Growing ==
    /\ total =< total' /\ Completed =< Completed' /\ eventCount =< eventCount'
    /\ Completed = total /\ total' = total => events' = events

LEMMA CompletedType ==
    ASSUME IInv
    PROVE  /\ Completed \in Nat /\ Completed =< total /\ total \in Nat
           /\ eventCount \in 0 .. BufferSize /\ writeIndex \in Slots
           /\ events \in [Slots -> Entry]
<1>1. SlotOpen => total > 0
  BY DEF IInv, SlotInProgress, SlotOpen
<1> QED
  BY <1>1 DEF IInv, TypeOK, StateTypeOK, Completed

LEMMA EnterGrows ==
    ASSUME IInv, WriteOK, NEW c \in Cores, NEW g \in Groups, LogEnter(c, g)
    PROVE  WriteOK' /\ Growing
<1>1. /\ eventMutex = NoCore /\ pc' = [pc EXCEPT ![c] = "body"]
      /\ total' = total + 1 /\ eventCount' = eventCount /\ writeIndex' = writeIndex
  BY DEF LogEnter, MutexFree, Goto
<1>2. ~SlotOpen /\ SlotOpen'
  BY <1>1, CoresAssumption DEF SlotOpen, MutexHeld, Critical, IInv, TypeOK, StateTypeOK
<1>3. Completed' = Completed /\ Completed \in Nat /\ total \in Nat /\ eventCount \in Nat
  BY <1>1, <1>2, CompletedType DEF Completed
<1> QED
  BY <1>1, <1>3 DEF WriteOK, Growing

LEMMA AdvanceGrows ==
    ASSUME IInv, WriteOK, NEW c \in Cores, LogAdvance(c)
    PROVE  WriteOK' /\ Growing
<1>1. /\ pc[c] = "advance" /\ pc' = [pc EXCEPT ![c] = "load"]
      /\ writeIndex' = (writeIndex + 1) % BufferSize
      /\ eventCount' = IF eventCount < BufferSize THEN eventCount + 1 ELSE eventCount
      /\ UNCHANGED <<eventMutex, events, total>>
  BY DEF LogAdvance, Goto
<1>2. eventMutex = c
  BY <1>1 DEF MutexHeld, Critical, IInv
<1>3. SlotOpen /\ ~SlotOpen'
  <2>1. \A d \in Cores : d # c => pc'[d] = pc[d] /\ ~Critical(d)
    BY <1>1, <1>2, OthersOutside DEF StateTypeOK, TypeOK, IInv
  <2>2. pc'[c] = "load"
    BY <1>1 DEF StateTypeOK, TypeOK, IInv
  <2> QED
    BY <1>1, <2>1, <2>2 DEF SlotOpen, Critical
<1>4. Completed' = Completed + 1 /\ Completed \in Nat /\ total \in Nat /\ eventCount \in Nat
  BY <1>1, <1>3, CompletedType DEF Completed
<1>5. WriteOK'
  BY <1>1, <1>4, ModSucc, BufferAssumption DEF WriteOK
<1> QED
  BY <1>1, <1>4, <1>5 DEF Growing

\* Every other step opens and closes no slot, and only LogBody writes to one.
LEMMA OthersGrow ==
    ASSUME IInv, WriteOK, NEW c \in Cores, CoreStep(c), ~LogAdvance(c)
    PROVE  WriteOK' /\ Growing
<1>1. PICK to \in Locations :
        /\ pc[c] = "body" <=> to = "advance"
        /\ pc[c] # "advance" /\ to # "body"
        /\ pc' = [pc EXCEPT ![c] = to]
        /\ UNCHANGED <<eventCount, writeIndex, total>>
        /\ pc[c] # "body" => UNCHANGED events
  BY DEF CoreStep, LogStep, LogBody, LogCountLoad, LogCountStore, LogReturn,
         LogReset, SaveStep, SaveBegin, FsInitBegin, FsInitEnd, FsInitFormat,
         FsInitFail, SaveOpen, SaveOpenFail, SaveFirstLoad, SaveSecondLoad, SaveRow,
         SaveRowsDone, SaveClose, SaveCloseFail, Goto, ring, Locations
<1>2. SlotOpen' <=> SlotOpen
  <2>1. \A d \in Cores : pc'[d] \in {"body", "advance"} <=> pc[d] \in {"body", "advance"}
    BY <1>1 DEF IInv, TypeOK, StateTypeOK
  <2> QED
    BY <2>1 DEF SlotOpen
<1>3. Completed' = Completed /\ Completed \in Nat /\ total \in Nat /\ eventCount \in Nat
  BY <1>1, <1>2, CompletedType DEF Completed
<1>4. pc[c] = "body" => Completed # total
  BY <1>3 DEF Completed, SlotOpen
<1> QED
  BY <1>1, <1>3, <1>4 DEF WriteOK, Growing

LEMMA CoresGrow ==
    ASSUME IInv, WriteOK, [Next]_vars
    PROVE  WriteOK' /\ Growing
<1>1. CASE UNCHANGED vars
  <2>1. Completed' = Completed /\ UNCHANGED <<total, eventCount, writeIndex, events>>
    BY <1>1 DEF Completed, SlotOpen, vars, ring
  <2> QED
    BY <2>1, CompletedType DEF WriteOK, Growing
<1> QED
  BY <1>1, EnterGrows, AdvanceGrows, OthersGrow DEF Next, AllReturned

-----------------------------------------------------------------------------
(* Reading the ring.                                                       *)

\* The slot of the j-th latest of all events, from the index that the handler gives.
LEMMA SlotRead ==
    ASSUME IInv, WriteOK, NEW i \in 0 .. (eventCount - 1)
    PROVE  /\ ReadIndex(i) = Back(writeIndex, eventCount - i)
           /\ ReadIndex(i) \in Slots
           /\ eventCount < BufferSize => ReadIndex(i) = i
<1>1. writeIndex \in Slots /\ eventCount \in 0 .. BufferSize
  BY CompletedType
<1>2. CASE eventCount = BufferSize
  <2>1. ReadIndex(i) = (writeIndex + i) % BufferSize
    BY <1>2 DEF ReadIndex
  <2>2. CASE writeIndex + i < BufferSize
    <3>1. (writeIndex + i) % BufferSize = writeIndex + i
      BY <1>1, <2>2, BufferAssumption DEF Slots
    <3> QED
      BY <1>1, <1>2, <2>1, <2>2, <3>1 DEF Back, Slots
  <2>3. CASE writeIndex + i >= BufferSize
    <3>1. /\ writeIndex + i = BufferSize * 1 + ((writeIndex + i) - BufferSize)
          /\ (writeIndex + i) - BufferSize \in 0 .. (BufferSize - 1)
      BY <1>1, <1>2, <2>3, BufferAssumption DEF Slots
    <3>2. (writeIndex + i) % BufferSize = (writeIndex + i) - BufferSize
      BY <3>1, ModUnique, BufferAssumption
    <3> QED
      BY <1>1, <1>2, <2>1, <2>3, <3>2 DEF Back, Slots
  <2> QED
    BY <1>1, <1>2, <2>2, <2>3 DEF Slots
<1>3. CASE eventCount # BufferSize
  <2>1. Completed = eventCount /\ eventCount < BufferSize
    BY <1>1, <1>3, CompletedType, BufferAssumption DEF IInv, RingHoldsLatest
  <2>2. writeIndex = eventCount
    BY <1>1, <2>1, BufferAssumption DEF WriteOK
  <2>3. ReadIndex(i) = i
    BY <1>3 DEF ReadIndex
  <2>4. i \in Slots
    BY <1>1, <2>1, BufferAssumption DEF Slots
  <2>5. Back(writeIndex, eventCount - i) = i
    BY <1>1, <2>2 DEF Back, Slots
  <2> QED
    BY <2>3, <2>4, <2>5
<1> QED
  BY <1>2, <1>3

\* With no slot open, the entry behind it is that event, whole.
LEMMA EntryRead ==
    ASSUME IInv, WriteOK, NEW i \in 0 .. (eventCount - 1), Completed = total
    PROVE  events[ReadIndex(i)] = EntryOf((total + 1) - (eventCount - i))
<1>1. ~SlotOpen
  BY CompletedType DEF Completed
<1>2. Settled = eventCount
  BY <1>1 DEF Settled
<1>3. eventCount - i \in 1 .. Settled
  BY <1>2, CompletedType
<1> QED
  BY <1>3, SlotRead DEF IInv, RingHoldsLatest

\* In a ring that has not filled, slot i holds event number i + 1 whatever is logged.
LEMMA EntryKept ==
    ASSUME IInv, WriteOK, NEW i \in 0 .. (eventCount - 1), eventCount < BufferSize
    PROVE  events[i] = EntryOf(i + 1)
<1>1. Completed = eventCount /\ Settled = eventCount
  BY CompletedType, BufferAssumption DEF IInv, RingHoldsLatest, Settled
<1>2. eventCount - i \in 1 .. Settled /\ (Completed + 1) - (eventCount - i) = i + 1
  BY <1>1, CompletedType
<1>3. ReadIndex(i) = i /\ Back(writeIndex, eventCount - i) = i
  BY SlotRead
<1> QED
  BY <1>2, <1>3 DEF IInv, RingHoldsLatest

-----------------------------------------------------------------------------
(* The handler.                                                            *)

CountsTyped == Completed \in Nat /\ total \in Nat /\ eventCount \in Nat

LEMMA CountsNext == IInv' => CountsTyped'
<1>1. IInv => CountsTyped
  BY CompletedType DEF CountsTyped
<1> QED
  BY <1>1, PTL

\* While the other cores log, what the handler has read stays true.
LEMMA QuietHandler ==
    ASSUME HandlerInv, IInv, IInv', WriteOK, [Next]_vars, UNCHANGED handler
    PROVE  HandlerInv'
<1>1. Growing
  BY CoresGrow
<1>2. /\ UNCHANGED <<at, available, toReturn, eventIndex, ref, page, frames, wanted, asked>>
  BY DEF handler
<1>3. /\ Completed \in Nat /\ Completed =< total /\ total \in Nat /\ asked \in Nat
      /\ eventCount \in Nat /\ asked =< Completed
  BY CompletedType DEF HandlerInv, HandlerTypeOK, CountsOK
<1>4. Completed' \in Nat /\ total' \in Nat /\ eventCount' \in Nat
  BY CountsNext DEF CountsTyped
<1>5. asked = total' => total' = total /\ Completed = total /\ events' = events
  BY <1>1, <1>3, <1>4 DEF Growing
<1>6. eventCount' < BufferSize => eventCount < BufferSize
  BY <1>1, <1>3, <1>4, BufferAssumption DEF Growing
<1>7. ASSUME NEW entry, NEW j, RowIs(entry, j)
      PROVE  /\ asked' = total' => entry = EntryOf((total' + 1) - j)
             /\ eventCount' < BufferSize => entry = EntryOf((available' + 1) - j)
  BY <1>2, <1>5, <1>6, <1>7 DEF RowIs
<1>8. HandlerTypeOK'
  BY <1>2 DEF HandlerInv, HandlerTypeOK
<1>9. CountsOK'
  <2>1. asked' =< Completed'
    BY <1>1, <1>2, <1>3, <1>4 DEF Growing
  <2> QED
    BY <1>2, <2>1 DEF HandlerInv, CountsOK, Answering, Given
<1>10. RefOK'
  BY <1>2, <1>5, <1>6 DEF HandlerInv, RefOK, Given, EntryOf
<1>11. LayoutOK'
  BY <1>2 DEF HandlerInv, LayoutOK, Full, Whole, Pages, Answered, Given
<1>12. RowsOK'
  <2>1. ASSUME NEW entry, NEW j, RowIs(entry, j)
        PROVE  RowIs(entry, j)'
    BY <1>7, <2>1 DEF RowIs, EntryOf
  <2>2. ASSUME NEW p \in 1 .. Len(frames), NEW r \in 1 .. Len(frames[p].rows)
        PROVE  RowIs(frames[p].rows[r], (p - 1) * PageSize + r)'
    <3>1. PICK entry, j : entry = frames[p].rows[r] /\ j = (p - 1) * PageSize + r
      OBVIOUS
    <3>2. RowIs(entry, j)
      BY <3>1 DEF HandlerInv, RowsOK
    <3>3. RowIs(entry, j)'
      BY <3>2, <2>1
    <3> QED
      BY <1>2, <3>1, <3>3 DEF RowIs
  <2>3. ASSUME NEW r \in 1 .. Len(page)
        PROVE  RowIs(page[r], Len(frames) * PageSize + r)'
    <3>1. PICK entry, j : entry = page[r] /\ j = Len(frames) * PageSize + r
      OBVIOUS
    <3>2. RowIs(entry, j)
      BY <3>1 DEF HandlerInv, RowsOK
    <3>3. RowIs(entry, j)'
      BY <3>2, <2>1
    <3> QED
      BY <1>2, <3>1, <3>3 DEF RowIs
  <2> QED
    BY <1>2, <2>2, <2>3 DEF RowsOK
<1> QED
  BY <1>8, <1>9, <1>10, <1>11, <1>12 DEF HandlerInv

\* A command that is answered with one frame without rows, which is not SEQ_DONE.
LEMMA OneFrame ==
    ASSUME HandlerInv, at = "ready", NEW f \in FrameType, f.text # "SEQ_DONE", f.rows = <<>>,
           at' = "sent", frames' = <<f>>, UNCHANGED vars,
           UNCHANGED <<available, toReturn, eventIndex, ref, page, wanted, asked>>
    PROVE  HandlerInv'
<1>1. UNCHANGED <<total, events, eventCount, Completed>>
  BY DEF vars, ring, Completed, SlotOpen
<1>2. frames' \in Seq(FrameType) /\ Len(frames') = 1 /\ frames'[1] = f
  OBVIOUS
<1>3. HandlerTypeOK'
  BY <1>2 DEF HandlerInv, HandlerTypeOK
<1>4. CountsOK'
  BY <1>1 DEF HandlerInv, CountsOK, Answering
<1>5. RefOK'
  BY <1>1 DEF HandlerInv, RefOK
<1>6. LayoutOK'
  BY <1>2 DEF HandlerInv, LayoutOK, Answered
<1>7. RowsOK'
  <2>1. page' = <<>>
    BY DEF HandlerInv, LayoutOK
  <2> QED
    BY <1>2, <2>1 DEF RowsOK
<1> QED
  BY <1>3, <1>4, <1>5, <1>6, <1>7 DEF HandlerInv

LEMMA RefuseInv ==
    ASSUME HandlerInv, UNCHANGED vars,
           NEW op, NEW param, NEW code \in {"INVALID_OPERATION", "PARAM_INVALID", "INVALID_VALUE"},
           Refuse(op, param, code)
    PROVE  HandlerInv'
<1> DEFINE f == Frame("ERR", code, <<>>, 0)
<1>1. f \in FrameType /\ f.text # "SEQ_DONE" /\ f.rows = <<>>
  <2>1. <<>> \in Seq(Entry) /\ 0 \in Nat
    OBVIOUS
  <2> QED
    BY <2>1 DEF Frame, FrameType
<1> HIDE DEF f
<1> QED
  BY <1>1, OneFrame DEF Refuse, Ready, f

LEMMA CountInv ==
    ASSUME HandlerInv, IInv, UNCHANGED vars, GetEventCount
    PROVE  HandlerInv'
<1> DEFINE f == Frame("VAL", "", <<>>, eventCount)
<1>1. f \in FrameType /\ f.text # "SEQ_DONE" /\ f.rows = <<>>
  <2>1. <<>> \in Seq(Entry) /\ eventCount \in Nat
    BY CompletedType
  <2> QED
    BY <2>1 DEF Frame, FrameType
<1>2. PICK g \in FrameType : g.text # "SEQ_DONE" /\ g.rows = <<>> /\ frames' = <<g>>
  BY <1>1 DEF GetEventCount
<1> QED
  BY <1>2, OneFrame DEF GetEventCount, Ready

\* The first step of 5.1: as many rows as there are, at most as many as asked for.
LEMMA FirstInv ==
    ASSUME HandlerInv, IInv, UNCHANGED vars, NEW param \in Params, GetLastEvents(param)
    PROVE  HandlerInv'
<1>1. UNCHANGED <<total, events, eventCount, Completed>>
  BY DEF vars, ring, Completed, SlotOpen
<1>2. /\ at = "ready" /\ at' = "get" /\ available' = eventCount /\ eventIndex' = eventCount
      /\ toReturn' = Limit(CountOf(param), eventCount) /\ wanted' = toReturn'
      /\ asked' = Completed /\ UNCHANGED <<ref, page, frames>>
  BY DEF GetLastEvents, Ready
<1>3. CountOf(param) \in Nat
  BY ParamAssumption, PageAssumption DEF CountOf, GetLastEvents
<1>4. eventCount \in 0 .. BufferSize /\ Completed \in Nat
  BY CompletedType
<1>5. toReturn' \in 0 .. eventCount
  BY <1>2, <1>3, <1>4 DEF Limit, Lesser
<1>6. page' = <<>> /\ frames' = <<>> /\ ref' = -1
  BY <1>2 DEF HandlerInv, LayoutOK, RefOK
<1>7. HandlerTypeOK'
  BY <1>2, <1>4, <1>5 DEF HandlerInv, HandlerTypeOK
<1>8. CountsOK'
  <2>1. eventCount = Lesser(Completed, BufferSize)
    BY <1>4, BufferAssumption DEF IInv, RingHoldsLatest, Lesser
  <2> QED
    BY <1>1, <1>2, <1>4, <1>5, <2>1 DEF CountsOK, Given, Answering
<1>9. RefOK'
  BY <1>2, <1>6 DEF RefOK
<1>10. LayoutOK'
  <2>1. Len(page') = 0 /\ Len(frames') = 0
    BY <1>6
  <2>2. toReturn' = 0 => Whole(frames)'
    BY <1>2, <2>1, PageAssumption DEF Whole
  <2>3. Full' /\ Len(page') < PageSize
    BY <1>2, <1>5, <2>1, PageAssumption DEF Full, Given
  <2> QED
    BY <1>2, <1>6, <2>2, <2>3 DEF LayoutOK
<1>11. RowsOK'
  BY <1>6 DEF RowsOK
<1> QED
  BY <1>7, <1>8, <1>9, <1>10, <1>11 DEF HandlerInv

\* get_event: the row is given by its place behind the newest.
LEMMA GetInv ==
    ASSUME HandlerInv, IInv, WriteOK, UNCHANGED vars, GetEvent
    PROVE  HandlerInv'
<1>1. UNCHANGED <<total, events, eventCount, Completed>>
  BY DEF vars, ring, Completed, SlotOpen
<1>2. /\ at = "get" /\ at' = "read" /\ toReturn > 0 /\ eventIndex' = eventIndex - 1
      /\ ref' = IF eventIndex - 1 >= eventCount THEN -1 ELSE ReadIndex(eventIndex - 1)
      /\ UNCHANGED <<available, toReturn, page, frames, wanted, asked>>
  BY DEF GetEvent
<1>3. /\ eventCount \in 0 .. BufferSize /\ Completed \in Nat /\ total \in Nat
      /\ Completed =< total
  BY CompletedType
<1>4. /\ available \in 0 .. BufferSize /\ wanted \in 0 .. available
      /\ toReturn \in 1 .. wanted /\ asked \in Nat
  BY <1>2 DEF HandlerInv, HandlerTypeOK
<1>5. eventIndex = available - Given /\ Given \in 0 .. (available - 1)
  BY <1>2, <1>4 DEF HandlerInv, CountsOK, Given
<1>6. available = Lesser(asked, BufferSize) /\ asked =< Completed
  BY <1>2 DEF HandlerInv, CountsOK, Answering
<1>7. eventCount = Lesser(Completed, BufferSize)
  BY <1>3, BufferAssumption DEF IInv, RingHoldsLatest, Lesser
<1>8. available =< eventCount
  BY <1>3, <1>4, <1>6, <1>7, BufferAssumption DEF Lesser
<1>9. PICK i \in 0 .. (eventCount - 1) : i = eventIndex - 1
  BY <1>3, <1>4, <1>5, <1>8
<1>10. ref' = ReadIndex(i) /\ ref' \in Slots
  BY <1>2, <1>3, <1>9, SlotRead
<1>11. HandlerTypeOK'
  BY <1>2, <1>10 DEF HandlerInv, HandlerTypeOK
<1>12. CountsOK'
  BY <1>1, <1>2 DEF HandlerInv, CountsOK, Answering
<1>13. RefOK'
  <2>1. ASSUME asked = total
        PROVE  ref' # -1 /\ events[ref'] = EntryOf(total - Given)
    <3>1. Completed = total /\ available = eventCount
      BY <1>3, <1>4, <1>6, <1>7, <2>1
    <3>2. events[ReadIndex(i)] = EntryOf((total + 1) - (eventCount - i))
      BY <3>1, EntryRead
    <3>3. (total + 1) - (eventCount - i) = total - Given
      BY <1>3, <1>5, <1>9, <3>1
    <3> QED
      BY <1>10, <3>2, <3>3, BufferAssumption DEF Slots
  <2>2. ASSUME eventCount < BufferSize
        PROVE  ref' = eventIndex'
    BY <1>2, <1>9, <1>10, <2>2, SlotRead
  <2>3. Given' = Given /\ eventIndex' = (available - Given) - 1
    BY <1>2, <1>5 DEF Given
  <2> QED
    BY <1>1, <1>2, <2>1, <2>2, <2>3 DEF RefOK, EntryOf
<1>14. LayoutOK'
  <2>1. Full /\ Len(page) < PageSize
    BY <1>2, <1>4 DEF HandlerInv, LayoutOK
  <2> QED
    BY <1>2, <2>1 DEF LayoutOK, Full, Given
<1>15. RowsOK'
  BY <1>1, <1>2 DEF HandlerInv, RowsOK, RowIs, EntryOf
<1> QED
  BY <1>11, <1>12, <1>13, <1>14, <1>15 DEF HandlerInv

\* The entry behind the reference becomes the next row.
LEMMA ReadInv ==
    ASSUME HandlerInv, IInv, WriteOK, UNCHANGED vars, ReadEvent
    PROVE  HandlerInv'
<1>1. UNCHANGED <<total, events, eventCount, Completed>>
  BY DEF vars, ring, Completed, SlotOpen
<1>2. PICK entry : entry = IF ref = -1 THEN EmptyEntry ELSE events[ref]
  OBVIOUS
<1>3. /\ at = "read" /\ at' = "page" /\ page' = Append(page, entry)
      /\ toReturn' = toReturn - 1 /\ ref' = -1
      /\ UNCHANGED <<available, eventIndex, frames, wanted, asked>>
  BY <1>2 DEF ReadEvent
<1>4. /\ eventCount \in 0 .. BufferSize /\ Completed \in Nat /\ total \in Nat
      /\ Completed =< total /\ events \in [Slots -> Entry]
  BY CompletedType
<1>5. /\ available \in 0 .. BufferSize /\ wanted \in 0 .. available
      /\ toReturn \in 1 .. wanted /\ asked \in Nat /\ ref \in Slots \cup {-1}
      /\ page \in Seq(Entry)
  BY <1>3 DEF HandlerInv, HandlerTypeOK, RefOK
<1>6. eventIndex = (available - Given) - 1 /\ Given \in 0 .. (available - 1)
  BY <1>3, <1>5 DEF HandlerInv, RefOK, Given
<1>7. available = Lesser(asked, BufferSize) /\ asked =< Completed
  BY <1>3 DEF HandlerInv, CountsOK, Answering
<1>8. entry \in Entry
  <2>1. EmptyEntry \in Entry
    BY ModulusAssumption, BufferAssumption DEF EmptyEntry, Entry
  <2> QED
    BY <1>2, <1>4, <1>5, <2>1
<1>9. Given' = Given + 1 /\ Given \in Nat
  BY <1>3, <1>5 DEF Given
<1>10. RowIs(entry, Given + 1)
  <2>1. ASSUME asked = total
        PROVE  entry = EntryOf((total + 1) - (Given + 1))
    <3>1. entry = EntryOf(total - Given)
      BY <1>2, <1>3, <2>1 DEF HandlerInv, RefOK
    <3>2. (total + 1) - (Given + 1) = total - Given
      BY <1>4, <1>9
    <3> QED
      BY <3>1, <3>2
  <2>2. ASSUME eventCount < BufferSize
        PROVE  entry = EntryOf((available + 1) - (Given + 1))
    <3>1. eventCount = Completed
      BY <1>4, <2>2, BufferAssumption DEF IInv, RingHoldsLatest
    <3>2. available =< eventCount
      BY <1>4, <1>5, <1>7, <3>1, BufferAssumption DEF Lesser
    <3>3. eventIndex \in 0 .. (eventCount - 1) /\ ref = eventIndex
      BY <1>3, <1>4, <1>5, <1>6, <2>2, <3>2 DEF HandlerInv, RefOK
    <3>4. events[eventIndex] = EntryOf(eventIndex + 1)
      BY <2>2, <3>3, EntryKept
    <3>5. eventIndex + 1 = (available + 1) - (Given + 1)
      BY <1>5, <1>6
    <3>6. entry = events[eventIndex]
      BY <1>2, <3>3
    <3> QED
      BY <3>4, <3>5, <3>6
  <2> QED
    BY <2>1, <2>2 DEF RowIs
<1>11. /\ page' \in Seq(Entry) /\ Len(page') = Len(page) + 1 /\ Len(page) \in Nat
       /\ \A r \in 1 .. Len(page) : page'[r] = page[r]
       /\ page'[Len(page) + 1] = entry
  BY <1>3, <1>5, <1>8, AppendProperties
<1>12. HandlerTypeOK'
  BY <1>3, <1>5, <1>11 DEF HandlerInv, HandlerTypeOK
<1>13. CountsOK'
  <2>1. eventIndex' = available' - Given'
    BY <1>3, <1>5, <1>6, <1>9
  <2> QED
    BY <1>1, <1>3, <2>1 DEF HandlerInv, CountsOK, Answering
<1>14. RefOK'
  BY <1>3 DEF RefOK
<1>15. Full /\ Len(page) < PageSize
  BY <1>3 DEF HandlerInv, LayoutOK
<1>16. LayoutOK'
  <2>1. Full'
    <3>1. Given = Len(frames) * PageSize + Len(page)
      BY <1>15 DEF Full
    <3>2. PICK x : x = Len(frames) * PageSize
      OBVIOUS
    <3>3. x \in Int
      BY <3>2, PageAssumption DEF HandlerInv, HandlerTypeOK
    <3>4. Given' = x + Len(page')
      BY <1>9, <1>11, <3>1, <3>2, <3>3
    <3> QED
      BY <1>3, <1>15, <3>2, <3>4 DEF Full
  <2>2. Len(page') \in 1 .. PageSize
    BY <1>11, <1>15, PageAssumption
  <2> QED
    BY <1>3, <2>1, <2>2 DEF LayoutOK
<1>17. RowsOK'
  <2>1. \A e, j : RowIs(e, j) => RowIs(e, j)'
    BY <1>1, <1>3 DEF RowIs, EntryOf
  <2>2. Len(frames) * PageSize + (Len(page) + 1) = Given + 1
    <3>1. PICK x : x = Len(frames) * PageSize
      OBVIOUS
    <3>2. x \in Int
      BY <3>1, PageAssumption DEF HandlerInv, HandlerTypeOK
    <3> QED
      BY <1>11, <1>15, <3>1, <3>2 DEF Full
  <2>3. ASSUME NEW r \in 1 .. Len(page')
        PROVE  RowIs(page'[r], Len(frames) * PageSize + r)
    <3>1. CASE r = Len(page) + 1
      <4>1. page'[r] = entry
        BY <1>11, <3>1
      <4>2. Len(frames) * PageSize + r = Given + 1
        BY <2>2, <3>1, Zenon
      <4> QED
        BY <1>10, <4>1, <4>2
    <3>2. CASE r # Len(page) + 1
      BY <1>11, <3>2 DEF HandlerInv, RowsOK
    <3> QED
      BY <3>1, <3>2
  <2>4. \A p \in 1 .. Len(frames) : \A r \in 1 .. Len(frames[p].rows) :
           RowIs(frames[p].rows[r], (p - 1) * PageSize + r)
    BY DEF HandlerInv, RowsOK
  <2> QED
    BY <1>1, <1>3, <2>3, <2>4 DEF RowsOK, RowIs, EntryOf
<1> QED
  BY <1>12, <1>13, <1>14, <1>16, <1>17 DEF HandlerInv

\* One more frame behind those there are.
LEMMA FramePushed ==
    ASSUME frames \in Seq(FrameType), NEW f \in FrameType, frames' = Append(frames, f)
    PROVE  /\ frames' \in Seq(FrameType) /\ Len(frames') = Len(frames) + 1
           /\ Len(frames) \in Nat /\ frames' # <<>>
           /\ \A p \in 1 .. Len(frames) : frames'[p] = frames[p]
           /\ frames'[Len(frames) + 1] = f
  BY AppendProperties

\* A page that is full, or holds the last rows, is pushed; the next one is empty.
LEMMA PushInv ==
    ASSUME HandlerInv, UNCHANGED vars, NextRow, PageFull \/ toReturn = 0
    PROVE  HandlerInv'
<1>1. UNCHANGED <<total, events, eventCount, Completed>>
  BY DEF vars, ring, Completed, SlotOpen
<1>2. PICK f : f = Frame("SEQ", "", page, 0)
  OBVIOUS
<1>3. /\ at = "page" /\ at' = "get" /\ frames' = Append(frames, f) /\ page' = <<>>
      /\ UNCHANGED <<available, toReturn, eventIndex, ref, wanted, asked>>
  BY <1>2 DEF NextRow
<1>4. /\ page \in Seq(Entry) /\ frames \in Seq(FrameType) /\ toReturn \in Nat
      /\ wanted \in Nat
  BY DEF HandlerInv, HandlerTypeOK
<1>5. f \in FrameType /\ f.rows = page /\ f.op = "SEQ"
  BY <1>2, <1>4 DEF Frame, FrameType
<1>6. /\ frames' \in Seq(FrameType) /\ Len(frames') = Len(frames) + 1 /\ Len(frames) \in Nat
      /\ \A p \in 1 .. Len(frames) : frames'[p] = frames[p]
      /\ frames'[Len(frames) + 1] = f
  BY <1>3, <1>4, <1>5, FramePushed
<1>7. /\ Given = Len(frames) * PageSize + Len(page) /\ Len(page) \in 1 .. PageSize
      /\ \A p \in 1 .. Len(frames) : frames[p].op = "SEQ" /\ Len(frames[p].rows) = PageSize
  BY <1>3 DEF HandlerInv, LayoutOK, Full
<1>8. PICK x \in Int : x = Len(frames) * PageSize
  BY <1>6, PageAssumption
<1>9. Len(frames') * PageSize = x + PageSize /\ (Len(frames') - 1) * PageSize = x
  BY <1>6, <1>8, PageAssumption
<1>10. Len(page') = 0 /\ page' \in Seq(Entry)
  BY <1>3
<1>11. HandlerTypeOK'
  BY <1>3, <1>6, <1>10 DEF HandlerInv, HandlerTypeOK
<1>12. CountsOK'
  BY <1>1, <1>3 DEF HandlerInv, CountsOK, Answering, Given
<1>13. RefOK'
  BY <1>3 DEF HandlerInv, RefOK
<1>14. LayoutOK'
  <2>1. ASSUME toReturn = 0
        PROVE  Whole(frames)'
    <3>1. wanted = x + Len(page)
      BY <1>4, <1>7, <1>8, <2>1 DEF Given
    <3>2. (Len(frames') - 1) * PageSize < wanted /\ wanted =< Len(frames') * PageSize
      BY <1>7, <1>8, <1>9, <3>1, PageAssumption
    <3>3. ASSUME NEW p \in 1 .. Len(frames')
          PROVE  /\ frames'[p].op = "SEQ"
                 /\ Len(frames'[p].rows) = IF p < Len(frames') THEN PageSize
                                                               ELSE wanted - (p - 1) * PageSize
      <4>1. CASE p = Len(frames) + 1
        <5>1. wanted - (p - 1) * PageSize = Len(page)
          BY <1>6, <1>7, <1>8, <3>1, <4>1, PageAssumption
        <5> QED
          BY <1>5, <1>6, <4>1, <5>1
      <4>2. CASE p # Len(frames) + 1
        BY <1>6, <1>7, <4>2
      <4> QED
        BY <4>1, <4>2
    <3> QED
      BY <1>3, <3>2, <3>3 DEF Whole
  <2>2. ASSUME toReturn # 0
        PROVE  Full' /\ Len(page') < PageSize
    <3>1. Len(page) = PageSize
      BY <2>2 DEF PageFull
    <3>2. Given' = Len(frames') * PageSize + Len(page')
      BY <1>3, <1>7, <1>8, <1>9, <1>10, <3>1, PageAssumption DEF Given
    <3>3. ASSUME NEW p \in 1 .. Len(frames')
          PROVE  frames'[p].op = "SEQ" /\ Len(frames'[p].rows) = PageSize
      <4>1. CASE p = Len(frames) + 1
        BY <1>5, <1>6, <3>1, <4>1
      <4>2. CASE p # Len(frames) + 1
        BY <1>6, <1>7, <4>2
      <4> QED
        BY <4>1, <4>2
    <3> QED
      BY <1>10, <3>2, <3>3, PageAssumption DEF Full
  <2> QED
    BY <1>3, <2>1, <2>2 DEF LayoutOK
<1>15. RowsOK'
  <2>1. \A e, j : RowIs(e, j) => RowIs(e, j)'
    BY <1>1, <1>3 DEF RowIs, EntryOf
  <2>2. ASSUME NEW p \in 1 .. Len(frames'), NEW r \in 1 .. Len(frames'[p].rows)
        PROVE  RowIs(frames'[p].rows[r], (p - 1) * PageSize + r)
    <3>1. CASE p = Len(frames) + 1
      <4>1. frames'[p].rows = page /\ p - 1 = Len(frames)
        BY <1>5, <1>6, <3>1
      <4> QED
        BY <4>1 DEF HandlerInv, RowsOK
    <3>2. CASE p # Len(frames) + 1
      <4>1. p \in 1 .. Len(frames) /\ frames'[p] = frames[p]
        BY <1>6, <3>2
      <4> QED
        BY <4>1 DEF HandlerInv, RowsOK
    <3> QED
      BY <3>1, <3>2
  <2> QED
    BY <1>1, <1>3, <1>10, <2>2 DEF RowsOK, RowIs, EntryOf
<1> QED
  BY <1>11, <1>12, <1>13, <1>14, <1>15 DEF HandlerInv

LEMMA RowInv ==
    ASSUME HandlerInv, UNCHANGED vars, NextRow
    PROVE  HandlerInv'
<1>1. CASE PageFull \/ toReturn = 0
  BY <1>1, PushInv
<1>2. CASE ~(PageFull \/ toReturn = 0)
  <2>1. UNCHANGED <<total, events, eventCount, Completed>>
    BY DEF vars, ring, Completed, SlotOpen
  <2>2. /\ at = "page" /\ at' = "get"
        /\ UNCHANGED <<available, toReturn, eventIndex, ref, page, frames, wanted, asked>>
    BY <1>2 DEF NextRow
  <2>3. HandlerTypeOK' /\ RefOK'
    BY <2>2 DEF HandlerInv, HandlerTypeOK, RefOK
  <2>4. CountsOK'
    BY <2>1, <2>2 DEF HandlerInv, CountsOK, Answering, Given
  <2>5. LayoutOK'
    <3>1. Full /\ Len(page) \in 1 .. PageSize /\ Len(page) # PageSize
      BY <1>2, <2>2 DEF HandlerInv, LayoutOK, PageFull
    <3>2. Len(page) < PageSize
      BY <3>1, PageAssumption
    <3> QED
      BY <1>2, <2>2, <3>1, <3>2 DEF LayoutOK, Full, Given
  <2>6. RowsOK'
    BY <2>1, <2>2 DEF HandlerInv, RowsOK, RowIs, EntryOf
  <2> QED
    BY <2>3, <2>4, <2>5, <2>6 DEF HandlerInv
<1> QED
  BY <1>1, <1>2

\* The last frame says that the sequence is done.
LEMMA DoneInv ==
    ASSUME HandlerInv, UNCHANGED vars, SeqDone
    PROVE  HandlerInv'
<1>1. UNCHANGED <<total, events, eventCount, Completed>>
  BY DEF vars, ring, Completed, SlotOpen
<1>2. PICK f : f = Frame("VAL", "SEQ_DONE", <<>>, 0)
  OBVIOUS
<1>3. /\ at = "get" /\ toReturn = 0 /\ at' = "sent" /\ frames' = Append(frames, f)
      /\ UNCHANGED <<available, toReturn, eventIndex, ref, page, wanted, asked>>
  BY <1>2 DEF SeqDone
<1>4. frames \in Seq(FrameType)
  BY DEF HandlerInv, HandlerTypeOK
<1>5. f \in FrameType /\ f.rows = <<>>
  <2>1. <<>> \in Seq(Entry) /\ 0 \in Nat
    OBVIOUS
  <2> QED
    BY <1>2, <2>1 DEF Frame, FrameType
<1>6. /\ frames' \in Seq(FrameType) /\ Len(frames') = Len(frames) + 1 /\ Len(frames) \in Nat
      /\ frames' # <<>>
      /\ \A p \in 1 .. Len(frames) : frames'[p] = frames[p]
      /\ frames'[Len(frames) + 1] = f
  BY <1>3, <1>4, <1>5, FramePushed
<1>7. Pages' = frames
  <2>1. Pages' = SubSeq(frames', 1, Len(frames))
    BY <1>6 DEF Pages
  <2>2. /\ SubSeq(frames', 1, Len(frames)) \in Seq(FrameType)
        /\ Len(SubSeq(frames', 1, Len(frames))) = Len(frames)
        /\ \A p \in 1 .. Len(frames) : SubSeq(frames', 1, Len(frames))[p] = frames'[p]
    BY <1>6
  <2> QED
    BY <1>4, <1>6, <2>1, <2>2, SeqEqual
<1>8. HandlerTypeOK'
  BY <1>3, <1>6 DEF HandlerInv, HandlerTypeOK
<1>9. CountsOK'
  BY <1>1, <1>3 DEF HandlerInv, CountsOK, Answering, Given
<1>10. RefOK'
  BY <1>3 DEF HandlerInv, RefOK
<1>11. LayoutOK'
  <2>1. page = <<>> /\ Whole(frames)
    BY <1>3 DEF HandlerInv, LayoutOK
  <2>2. Whole(Pages)'
    BY <1>3, <1>7, <2>1 DEF Whole
  <2> QED
    BY <1>3, <1>6, <2>1, <2>2 DEF LayoutOK
<1>12. RowsOK'
  <2>1. page' = <<>>
    BY <1>3 DEF HandlerInv, LayoutOK
  <2>2. ASSUME NEW p \in 1 .. Len(frames'), NEW r \in 1 .. Len(frames'[p].rows)
        PROVE  RowIs(frames'[p].rows[r], (p - 1) * PageSize + r)
    <3>1. CASE p = Len(frames) + 1
      <4>1. Len(frames'[p].rows) = 0
        BY <1>5, <1>6, <3>1
      <4> QED
        BY <4>1
    <3>2. CASE p # Len(frames) + 1
      <4>1. p \in 1 .. Len(frames) /\ frames'[p] = frames[p]
        BY <1>6, <3>2
      <4> QED
        BY <4>1 DEF HandlerInv, RowsOK
    <3> QED
      BY <3>1, <3>2
  <2> QED
    BY <1>1, <1>3, <2>1, <2>2 DEF RowsOK, RowIs, EntryOf
<1> QED
  BY <1>8, <1>9, <1>10, <1>11, <1>12 DEF HandlerInv

LEMMA ReplyInv ==
    ASSUME HandlerInv, IInv, UNCHANGED vars, Reply
    PROVE  HandlerInv'
<1>1. /\ at' = "ready" /\ available' = 0 /\ toReturn' = 0 /\ eventIndex' = 0 /\ wanted' = 0
      /\ asked' = 0 /\ frames' = <<>> /\ ref' = -1 /\ page' = <<>>
  BY DEF Reply, HandlerInv, RefOK, LayoutOK
<1>2. 0 =< Completed'
  BY CompletedType DEF vars, ring, Completed, SlotOpen
<1>3. HandlerTypeOK'
  BY <1>1, BufferAssumption DEF HandlerTypeOK
<1> QED
  BY <1>1, <1>2, <1>3 DEF HandlerInv, CountsOK, Answering, RefOK, LayoutOK, RowsOK

-----------------------------------------------------------------------------
(* Every answer.                                                           *)

RInv == IInv /\ WriteOK /\ HandlerInv

LEMMA InitHandler == RInit => WriteOK /\ HandlerInv
<1> SUFFICES ASSUME RInit
             PROVE  WriteOK /\ HandlerInv
  OBVIOUS
<1>1. /\ at = "ready" /\ available = 0 /\ toReturn = 0 /\ eventIndex = 0 /\ wanted = 0
      /\ asked = 0 /\ frames = <<>> /\ ref = -1 /\ page = <<>>
  BY DEF RInit
<1>2. Completed = 0 /\ writeIndex = 0
  BY DEF RInit, Init, Completed, SlotOpen
<1>3. HandlerTypeOK
  BY <1>1, BufferAssumption DEF HandlerTypeOK
<1>4. WriteOK
  BY <1>2, BufferAssumption DEF WriteOK
<1> QED
  BY <1>1, <1>2, <1>3, <1>4
     DEF HandlerInv, CountsOK, Answering, RefOK, LayoutOK, RowsOK

\* The ring does not see the handler.
LEMMA RingStep == RNext => [Next]_vars
  BY DEF RNext, Next

LEMMA HandlerStepInv ==
    ASSUME RInv, HandlerStep, UNCHANGED vars
    PROVE  HandlerInv'
  BY RefuseInv, FirstInv, GetInv, ReadInv, RowInv, DoneInv, CountInv, ReplyInv
     DEF HandlerStep, RInv

LEMMA NextHandler == IInv' /\ RInv /\ [RNext]_allvars => RInv'
<1> SUFFICES ASSUME IInv', RInv, [RNext]_allvars
             PROVE  RInv'
  OBVIOUS
<1>1. [Next]_vars
  BY RingStep DEF allvars
<1>2. WriteOK'
  BY <1>1, CoresGrow DEF RInv
<1>3. ASSUME UNCHANGED handler
      PROVE  HandlerInv'
  BY <1>1, <1>3, QuietHandler DEF RInv
<1>4. ASSUME HandlerStep, UNCHANGED vars
      PROVE  HandlerInv'
  BY <1>4, HandlerStepInv
<1>5. HandlerInv'
  BY <1>3, <1>4 DEF RNext, allvars, RInv
<1> QED
  BY <1>2, <1>5 DEF RInv

LEMMA RingInReply == RSpec => []IInv
<1>1. RInit => Init
  BY DEF RInit
<1>2. [RNext]_allvars => [Next]_vars
  BY RingStep DEF allvars
<1> QED
  BY <1>1, <1>2, InductiveInvariant, PTL DEF RSpec, Spec

LEMMA AlwaysReply == RSpec => []RInv
<1>1. RInit /\ IInv => RInv
  BY InitHandler DEF RInv
<1> QED
  BY <1>1, NextHandler, RingInReply, PTL DEF RSpec

\* The quotient of a number written as m * q + r.
LEMMA DivUnique ==
    ASSUME NEW m \in Nat \ {0}, NEW q \in Int, NEW r \in 0 .. (m - 1)
    PROVE  (m * q + r) \div m = q
  OBVIOUS

LEMMA MoreTimes ==
    ASSUME NEW m \in Nat \ {0}, NEW p \in Int, NEW q \in Int, p * m < q * m
    PROVE  p < q
<1>1. CASE p >= q
  <2>1. PICK d \in Nat : p = q + d
    BY <1>1
  <2>2. p * m = q * m + d * m /\ d * m >= 0
    BY <2>1
  <2> QED
    BY <2>2
<1> QED
  BY <1>1

\* Row j of a finished answer is in the page, and at the place in it, where it is looked for.
LEMMA AnswerRows ==
    ASSUME RInv, Answered
    PROVE  Paged /\ \A j \in 1 .. wanted : RowIs(RowAt(j), j)
<1> DEFINE F == Len(Pages)
<1>1. frames \in Seq(FrameType) /\ frames # <<>> /\ wanted \in Nat
  BY DEF RInv, HandlerInv, HandlerTypeOK, LayoutOK, Answered
<1>2. /\ Pages \in Seq(FrameType) /\ F = Len(frames) - 1 /\ F \in Nat
      /\ \A p \in 1 .. F : Pages[p] = frames[p]
  <2>1. PICK n \in Nat : n = Len(frames) - 1
    BY <1>1
  <2>2. Pages = SubSeq(frames, 1, n)
    BY <2>1 DEF Pages
  <2>3. /\ SubSeq(frames, 1, n) \in Seq(FrameType) /\ Len(SubSeq(frames, 1, n)) = n
        /\ \A p \in 1 .. n : SubSeq(frames, 1, n)[p] = frames[p]
    BY <1>1, <2>1
  <2> QED
    BY <2>1, <2>2, <2>3
<1>3. /\ (F - 1) * PageSize < wanted /\ wanted =< F * PageSize
      /\ \A p \in 1 .. F :
            /\ Pages[p].op = "SEQ"
            /\ Len(Pages[p].rows) = IF p < F THEN PageSize ELSE wanted - (p - 1) * PageSize
  BY DEF RInv, HandlerInv, LayoutOK, Answered, Whole
<1> HIDE DEF F
<1>4. Paged
  <2>1. PICK x \in Int : x = F * PageSize
    BY <1>2, PageAssumption
  <2>2. (F - 1) * PageSize = x - PageSize /\ PageSize * F = x
    BY <1>2, <2>1, PageAssumption
  <2>3. PICK r \in 0 .. (PageSize - 1) : (wanted + PageSize) - 1 = x + r
    <3>1. (wanted + PageSize) - 1 = x + (((wanted + PageSize) - 1) - x)
          /\ ((wanted + PageSize) - 1) - x \in 0 .. (PageSize - 1)
      BY <1>1, <1>3, <2>1, <2>2, PageAssumption
    <3> QED
      BY <3>1
  <2>4. ((wanted + PageSize) - 1) \div PageSize = F
    <3>1. PageSize \in Nat \ {0} /\ F \in Int
      BY <1>2, PageAssumption
    <3>2. (PageSize * F + r) \div PageSize = F
      BY <3>1, DivUnique
    <3>3. PageSize * F + r = (wanted + PageSize) - 1
      BY <2>2, <2>3
    <3> QED
      BY <3>2, <3>3
  <2> QED
    BY <1>3, <2>4 DEF Paged, F
<1>5. ASSUME NEW j \in 1 .. wanted
      PROVE  RowIs(RowAt(j), j)
  <2>1. PICK q, r : q = (j - 1) \div PageSize /\ r = (j - 1) % PageSize
    OBVIOUS
  <2>2. q \in Int /\ r \in 0 .. (PageSize - 1) /\ j - 1 = PageSize * q + r
    <3>1. PageSize \in Nat \ {0} /\ j - 1 \in Int
      BY <1>1, PageAssumption
    <3>2. /\ j - 1 = PageSize * ((j - 1) \div PageSize) + ((j - 1) % PageSize)
          /\ (j - 1) \div PageSize \in Int /\ (j - 1) % PageSize \in 0 .. (PageSize - 1)
      BY <3>1, Division
    <3> QED
      BY <2>1, <3>2
  <2>3. PICK y \in Int : y = q * PageSize
    BY <2>2, PageAssumption
  <2>4. j - 1 = y + r /\ y = PageSize * q
    BY <2>2, <2>3, PageAssumption
  <2>5. q < F
    <3>1. q * PageSize < F * PageSize
      <4>1. F * PageSize \in Int
        BY <1>2, PageAssumption
      <4> QED
        BY <1>1, <1>3, <2>2, <2>3, <2>4, <4>1
    <3>2. PageSize \in Nat \ {0} /\ F \in Int
      BY <1>2, PageAssumption
    <3> QED
      BY <2>2, <3>1, <3>2, MoreTimes
  <2>6. 0 =< q
    <3>1. (0 - 1) * PageSize < q * PageSize
      BY <1>1, <2>2, <2>3, <2>4, PageAssumption
    <3>2. 0 - 1 < q
      BY <2>2, <3>1, MoreTimes, PageAssumption
    <3> QED
      BY <2>2, <3>2
  <2>7. q + 1 \in 1 .. F /\ (q + 1) - 1 = q
    BY <1>2, <2>2, <2>5, <2>6
  <2>8. r + 1 \in 1 .. Len(Pages[q + 1].rows)
    <3>1. CASE q + 1 < F
      BY <1>3, <2>2, <2>7, <3>1, PageAssumption
    <3>2. CASE ~(q + 1 < F)
      <4>1. Len(Pages[q + 1].rows) = wanted - y
        BY <1>3, <2>3, <2>7, <3>2
      <4> QED
        BY <1>1, <2>2, <2>4, <4>1
    <3> QED
      BY <3>1, <3>2
  <2>9. q + 1 \in 1 .. Len(frames) /\ Pages[q + 1] = frames[q + 1]
    BY <1>1, <1>2, <2>7
  <2>10. RowIs(frames[q + 1].rows[r + 1], ((q + 1) - 1) * PageSize + (r + 1))
    BY <2>8, <2>9 DEF RInv, HandlerInv, RowsOK
  <2>11. ((q + 1) - 1) * PageSize + (r + 1) = j
    <3>1. ((q + 1) - 1) * PageSize = y
      BY <2>3, <2>7
    <3> QED
      BY <2>2, <2>3, <2>4, <3>1
  <2>12. RowAt(j) = frames[q + 1].rows[r + 1]
    BY <2>1, <2>9 DEF RowAt
  <2> QED
    BY <2>10, <2>11, <2>12
<1> QED
  BY <1>4, <1>5

\* When nothing is logged between the command and its answer, the answer is the latest
\* events, the newest first, in full pages: get_event and handle_get_last_events, for
\* every size of ring and page, also after the ring has wrapped.
THEOREM AnswerIsLatest == RSpec => []ReplyIsLatest
<1>1. RInv => ReplyIsLatest
  BY AnswerRows DEF ReplyIsLatest, RowIs
<1> QED
  BY <1>1, AlwaysReply, PTL

\* While the ring has not filled, the answer is exact though other cores log and the
\* reference that get_event returns is read without the mutex.
THEOREM AnswerExactWhileNotFull == RSpec => []ReplyExactWhileNotFull
<1>1. RInv => ReplyExactWhileNotFull
  BY AnswerRows DEF ReplyExactWhileNotFull, RowIs
<1> QED
  BY <1>1, AlwaysReply, PTL

\* A handler that reads the ring without the mutex takes nothing from what the ring is.
THEOREM ReaderKeepsLog == RSpec => ImplementsLog
<1>1. RInit => Init
  BY DEF RInit
<1>2. [RNext]_allvars => [Next]_vars
  BY RingStep DEF allvars
<1> QED
  BY <1>1, <1>2, RingRefinesLog, PTL DEF RSpec, Spec
=============================================================================
