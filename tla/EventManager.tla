---------------------------- MODULE EventManager ----------------------------
(***************************************************************************)
(* lib/eventman/event_manager.{h,cpp}: the ring buffer of events, its mutex *)
(* and the code that appends the unsaved events to /event_log.csv.          *)
(*                                                                         *)
(* EventManager::log_event runs on either core of the RP2040.  The slot     *)
(* write and the index updates happen under eventMutex; the decision to     *)
(* save, save_to_storage() and the reset of eventsSinceFlush happen after   *)
(* the mutex is released, so each load and store there is a step of its own.*)
(*                                                                         *)
(* An event's payload (timestamp, group, code) is represented by its        *)
(* serial, the number of log_event calls that took the mutex up to and      *)
(* including its own; 0 is the payload of the zero-initialised array.  An   *)
(* entry whose id and body belong to different events is a torn entry.      *)
(* The locals of a call that has returned are put back to their initial     *)
(* values, so that dead values tell no states apart.                        *)
(***************************************************************************)
EXTENDS Integers, Sequences

CONSTANTS
    Cores,          \* cores that log events (one before core 1 is launched)
    NoCore,         \* owner of a free mutex
    BufferSize,     \* EVENT_BUFFER_SIZE
    FlushThreshold, \* EVENT_FLUSH_THRESHOLD
    IdModulus,      \* 2^16: nextEventId is a uint16_t
    SizeModulus,    \* 2^32: size_t arithmetic of startIdx wraps here
    Groups, Power,  \* event groups; Power is EventGroup::POWER
    StorageFaults,  \* TRUE iff mounting, opening and writing may fail
    MaxEvents       \* bound of the model: number of log_event calls

ASSUME CoresAssumption == NoCore \notin Cores
ASSUME BufferAssumption == BufferSize \in Nat \ {0} /\ FlushThreshold \in Nat \ {0}
ASSUME ModulusAssumption ==
    /\ IdModulus \in Nat /\ SizeModulus \in Nat
    /\ BufferSize =< IdModulus /\ BufferSize =< SizeModulus
ASSUME GroupsAssumption == Power \in Groups
ASSUME BoundsAssumption == MaxEvents \in Nat /\ StorageFaults \in BOOLEAN

VARIABLES
    eventMutex,        \* owner of EventManager::eventMutex, or NoCore
    events,            \* EventManager::events
    eventCount,        \* EventManager::eventCount
    writeIndex,        \* EventManager::writeIndex
    nextEventId,       \* EventManager::nextEventId
    eventsSinceFlush,  \* EventManager::eventsSinceFlush
    mounted,           \* SystemStateManager::sd_card_mounted
    file,              \* rows of /event_log.csv
    failed,            \* ghost: some call to the storage has failed
    total,             \* ghost: log_event calls that took the mutex
    pc,                \* where each core is in log_event / save_to_storage
    group,             \* log_event's parameter, per core
    reg,               \* the register of the load-increment-store, per core
    startIdx, row,     \* save_to_storage's locals startIdx and i, per core
    base,              \* rows of the file when this core's handle was opened
    out                \* rows in this core's FILE buffer

ring == <<events, eventCount, writeIndex, nextEventId>>
storage == <<mounted, file, failed>>
saving == <<startIdx, row, base, out>>
vars == <<eventMutex, ring, eventsSinceFlush, storage, total, pc, group, reg,
          saving>>

Slots == 0 .. (BufferSize - 1)
Entry == [id : 0 .. (IdModulus - 1), body : Nat]
EmptyEntry == [id |-> 0, body |-> 0]

\* The entry a complete write of event number n (1, 2, ...) leaves in its slot.
EntryOf(n) == [id |-> (n - 1) % IdModulus, body |-> n]

Init ==
    /\ eventMutex = NoCore
    /\ events = [s \in Slots |-> EmptyEntry]
    /\ eventCount = 0 /\ writeIndex = 0 /\ nextEventId = 0
    /\ eventsSinceFlush = 0
    /\ mounted = FALSE
    /\ file = <<>>
    /\ failed = FALSE
    /\ total = 0
    /\ pc = [c \in Cores |-> "idle"]
    /\ group = [c \in Cores |-> Power]
    /\ reg = [c \in Cores |-> 0]
    /\ startIdx = [c \in Cores |-> 0]
    /\ row = [c \in Cores |-> 0]
    /\ base = [c \in Cores |-> <<>>]
    /\ out = [c \in Cores |-> <<>>]

Goto(c, from, to) == pc[c] = from /\ pc' = [pc EXCEPT ![c] = to]

-----------------------------------------------------------------------------
(* log_event: the part under eventMutex.                                   *)

\* Mutant: the mutex is not taken.
MutexFree_Ignored == TRUE

MutexFree == eventMutex = NoCore

\* mutex_enter_blocking, id = nextEventId++, log.id = id.
LogEnter(c, g) ==
    /\ total < MaxEvents
    /\ MutexFree
    /\ Goto(c, "idle", "body")
    /\ eventMutex' = c
    /\ group' = [group EXCEPT ![c] = g]
    /\ events' = [events EXCEPT ![writeIndex].id = nextEventId]
    /\ nextEventId' = (nextEventId + 1) % IdModulus
    /\ total' = total + 1
    /\ UNCHANGED <<eventCount, writeIndex, eventsSinceFlush, storage, reg, saving>>

\* log.timestamp, log.group and log.event.
LogBody(c) ==
    /\ Goto(c, "body", "advance")
    /\ events' = [events EXCEPT ![writeIndex].body = total]
    /\ UNCHANGED <<eventMutex, eventCount, writeIndex, nextEventId, eventsSinceFlush,
                   storage, total, group, reg, saving>>

\* Mutant: writeIndex wraps one slot early.
LogAdvance_WrapEarly(c) ==
    /\ Goto(c, "advance", "load")
    /\ writeIndex' = (writeIndex + 1) % (BufferSize - 1)
    /\ eventCount' = IF eventCount < BufferSize THEN eventCount + 1 ELSE eventCount
    /\ UNCHANGED <<eventMutex, events, nextEventId, eventsSinceFlush, storage, total,
                   group, reg, saving>>

\* writeIndex and eventCount; the unlocked readers load only one of the two.
LogAdvance(c) ==
    /\ Goto(c, "advance", "load")
    /\ writeIndex' = (writeIndex + 1) % BufferSize
    /\ eventCount' = IF eventCount < BufferSize THEN eventCount + 1 ELSE eventCount
    /\ UNCHANGED <<eventMutex, events, nextEventId, eventsSinceFlush, storage, total,
                   group, reg, saving>>

\* eventsSinceFlush++ is a load and a store: the other core's reset of it,
\* which does not take the mutex, can come between them.
LogCountLoad(c) ==
    /\ Goto(c, "load", "store")
    /\ reg' = [reg EXCEPT ![c] = eventsSinceFlush]
    /\ UNCHANGED <<eventMutex, ring, eventsSinceFlush, storage, total, group, saving>>

LogCountStore(c) ==
    /\ Goto(c, "store", "check")
    /\ eventsSinceFlush' = reg[c] + 1
    /\ eventMutex' = NoCore
    /\ reg' = [reg EXCEPT ![c] = 0]
    /\ UNCHANGED <<ring, storage, total, group, saving>>

-----------------------------------------------------------------------------
(* log_event after mutex_exit, and save_to_storage: nothing is locked.      *)

\* Mutant: POWER events wait for the threshold too.
SaveDue_NoPower(c) == eventsSinceFlush >= FlushThreshold

SaveDue(c) == eventsSinceFlush >= FlushThreshold \/ group[c] = Power

LogReturn(c) ==
    /\ ~SaveDue(c)
    /\ Goto(c, "check", "idle")
    /\ group' = [group EXCEPT ![c] = Power]
    /\ UNCHANGED <<eventMutex, ring, eventsSinceFlush, storage, total, reg, saving>>

SaveBegin(c) ==
    /\ SaveDue(c)
    /\ Goto(c, "check", IF mounted THEN "open" ELSE "mount")
    /\ UNCHANGED <<eventMutex, ring, eventsSinceFlush, storage, total, group, reg, saving>>

\* fs_init clears the flag, then mounts and sets the flag again unless that
\* failed.  Two cores may both be in it.
FsInitBegin(c) ==
    /\ Goto(c, "mount", "mounting")
    /\ mounted' = FALSE
    /\ UNCHANGED <<eventMutex, ring, eventsSinceFlush, file, failed, total, group, reg,
                   saving>>

FsInitEnd(c) ==
    /\ Goto(c, "mounting", "open")
    /\ mounted' = TRUE
    /\ UNCHANGED <<eventMutex, ring, eventsSinceFlush, file, failed, total, group, reg,
                   saving>>

\* The first mount fails, the card is formatted and the second one works.
FsInitFormat(c) ==
    /\ StorageFaults
    /\ Goto(c, "mounting", "open")
    /\ mounted' = TRUE
    /\ file' = <<>>
    /\ failed' = TRUE
    /\ UNCHANGED <<eventMutex, ring, eventsSinceFlush, total, group, reg, saving>>

FsInitFail(c) ==
    /\ StorageFaults
    /\ Goto(c, "mounting", "reset")
    /\ failed' = TRUE
    /\ UNCHANGED <<eventMutex, ring, eventsSinceFlush, mounted, file, total, group, reg,
                   saving>>

\* fopen(EVENT_LOG_FILE, "a"): the handle takes the size the file has now and
\* reads the sector its end is in.
SaveOpen(c) ==
    /\ Goto(c, "open", "first")
    /\ base' = [base EXCEPT ![c] = file]
    /\ out' = [out EXCEPT ![c] = <<>>]
    /\ UNCHANGED <<eventMutex, ring, eventsSinceFlush, storage, total, group, reg,
                   startIdx, row>>

SaveOpenFail(c) ==
    /\ StorageFaults
    /\ Goto(c, "open", "reset")
    /\ failed' = TRUE
    /\ UNCHANGED <<eventMutex, ring, eventsSinceFlush, mounted, file, total, group, reg,
                   saving>>

\* startIdx is computed from two loads, writeIndex and then eventsSinceFlush.
SaveFirstLoad(c) ==
    /\ Goto(c, "first", "second")
    /\ startIdx' = [startIdx EXCEPT ![c] = writeIndex]
    /\ UNCHANGED <<eventMutex, ring, eventsSinceFlush, storage, total, group, reg,
                   row, base, out>>

\* Mutant: the first unsaved event of a wrapped buffer is one slot off.
StartOf_OffByOne(w, n) ==
    IF w >= n THEN w - n ELSE ((BufferSize - (n - w)) - 1) % SizeModulus

\* The size_t value of startIdx for the two loaded values.
StartOf(w, n) == IF w >= n THEN w - n ELSE (BufferSize - (n - w)) % SizeModulus

SaveSecondLoad(c) ==
    /\ Goto(c, "second", "rows")
    /\ startIdx' = [startIdx EXCEPT ![c] = StartOf(startIdx[c], eventsSinceFlush)]
    /\ row' = [row EXCEPT ![c] = 0]
    /\ UNCHANGED <<eventMutex, ring, eventsSinceFlush, storage, total, group, reg,
                   base, out>>

\* One round of the for loop, which reads eventsSinceFlush again each time.
SaveRow(c) ==
    /\ row[c] < eventsSinceFlush
    /\ Goto(c, "rows", "rows")
    /\ out' = [out EXCEPT ![c] = Append(@, events[((startIdx[c] + row[c]) % SizeModulus)
                                                  % BufferSize])]
    /\ row' = [row EXCEPT ![c] = @ + 1]
    /\ UNCHANGED <<eventMutex, ring, eventsSinceFlush, storage, total, group, reg,
                   startIdx, base>>

SaveRowsDone(c) ==
    /\ row[c] >= eventsSinceFlush
    /\ Goto(c, "rows", "close")
    /\ UNCHANGED <<eventMutex, ring, eventsSinceFlush, storage, total, group, reg, saving>>

SaveReturn(c) ==
    /\ startIdx' = [startIdx EXCEPT ![c] = 0]
    /\ row' = [row EXCEPT ![c] = 0]
    /\ base' = [base EXCEPT ![c] = <<>>]
    /\ out' = [out EXCEPT ![c] = <<>>]

\* fclose writes the FILE buffer behind what the handle knows of the file and
\* records the handle's own size: FatFS is built with FF_FS_LOCK 0, so another
\* handle's rows written since the open are overwritten.
SaveClose(c) ==
    /\ Goto(c, "close", "reset")
    /\ file' = IF out[c] = <<>> THEN file ELSE base[c] \o out[c]
    /\ SaveReturn(c)
    /\ UNCHANGED <<eventMutex, ring, eventsSinceFlush, mounted, failed, total, group, reg>>

\* The results of fprintf and fclose are not looked at.
SaveCloseFail(c) ==
    /\ StorageFaults
    /\ Goto(c, "close", "reset")
    /\ failed' = TRUE
    /\ SaveReturn(c)
    /\ UNCHANGED <<eventMutex, ring, eventsSinceFlush, mounted, file, total, group, reg>>

\* Mutant: the counter is left alone, so the next save writes the rows again.
LogReset_Missing(c) ==
    /\ Goto(c, "reset", "idle")
    /\ group' = [group EXCEPT ![c] = Power]
    /\ UNCHANGED <<eventMutex, ring, eventsSinceFlush, storage, total, reg, saving>>

\* Back in log_event: eventsSinceFlush = 0 whatever save_to_storage returned.
LogReset(c) ==
    /\ Goto(c, "reset", "idle")
    /\ eventsSinceFlush' = 0
    /\ group' = [group EXCEPT ![c] = Power]
    /\ UNCHANGED <<eventMutex, ring, storage, total, reg, saving>>

-----------------------------------------------------------------------------
LogStep(c) ==
    \/ LogBody(c) \/ LogAdvance(c) \/ LogCountLoad(c) \/ LogCountStore(c)
    \/ LogReturn(c) \/ LogReset(c)

SaveStep(c) ==
    \/ SaveBegin(c)
    \/ FsInitBegin(c) \/ FsInitEnd(c) \/ FsInitFormat(c) \/ FsInitFail(c)
    \/ SaveOpen(c) \/ SaveOpenFail(c)
    \/ SaveFirstLoad(c) \/ SaveSecondLoad(c)
    \/ SaveRow(c) \/ SaveRowsDone(c)
    \/ SaveClose(c) \/ SaveCloseFail(c)

CoreStep(c) == LogStep(c) \/ SaveStep(c)

\* The model stops when MaxEvents calls have returned; any other stop is a deadlock.
AllReturned ==
    /\ total = MaxEvents
    /\ \A c \in Cores : pc[c] = "idle"
    /\ UNCHANGED vars

Next ==
    \/ \E c \in Cores, g \in Groups : LogEnter(c, g)
    \/ \E c \in Cores : CoreStep(c)
    \/ AllReturned

Spec == Init /\ [][Next]_vars

\* A core inside log_event keeps running: nothing preempts it for ever.
Fairness == \A c \in Cores : WF_vars(CoreStep(c))
FairSpec == Spec /\ Fairness

-----------------------------------------------------------------------------
(* Properties.                                                             *)

Locations == {"idle", "body", "advance", "load", "store", "check", "mount", "mounting",
              "open", "first", "second", "rows", "close", "reset"}

StateTypeOK ==
    /\ eventMutex \in Cores \cup {NoCore}
    /\ events \in [Slots -> Entry]
    /\ eventCount \in 0 .. BufferSize
    /\ writeIndex \in Slots
    /\ nextEventId \in 0 .. (IdModulus - 1)
    /\ eventsSinceFlush \in Nat
    /\ mounted \in BOOLEAN /\ failed \in BOOLEAN
    /\ total \in Nat
    /\ pc \in [Cores -> Locations]
    /\ group \in [Cores -> Groups]
    /\ reg \in [Cores -> Nat]
    /\ startIdx \in [Cores -> Nat]
    /\ row \in [Cores -> Nat]

RowsTypeOK ==
    /\ file \in Seq(Entry)
    /\ base \in [Cores -> Seq(Entry)]
    /\ out \in [Cores -> Seq(Entry)]

TypeOK == StateTypeOK /\ RowsTypeOK

\* The slot k places before the write position.
Back(w, k) == IF w >= k THEN w - k ELSE (w + BufferSize) - k

\* Some core is between taking an id and moving writeIndex on.
SlotOpen == \E c \in Cores : pc[c] \in {"body", "advance"}

Completed == IF SlotOpen THEN total - 1 ELSE total

\* Entries of the ring that are not the open slot.
Settled == IF SlotOpen /\ eventCount = BufferSize THEN BufferSize - 1 ELSE eventCount

\* At every moment the k-th slot behind writeIndex holds the k-th latest event,
\* whole and under its own id, for every event the ring still has; eventCount
\* says how many those are.  This is what get_event's index arithmetic and
\* save_to_storage's startIdx rely on, and it needs the mutex: two cores inside
\* log_event would tear or overwrite a slot.
RingHoldsLatest ==
    /\ eventCount = IF Completed < BufferSize THEN Completed ELSE BufferSize
    /\ \A k \in 1 .. Settled : events[Back(writeIndex, k)] = EntryOf((Completed + 1) - k)

\* The rows of /event_log.csv are whole events, each written once, in the order
\* in which they were logged, whatever fails: a failed save may lose rows but
\* the next one never repeats or mixes them.  (The save runs without the mutex,
\* so this is for a single core.)
PersistedOnce ==
    \A i \in 1 .. Len(file) :
        /\ file[i].body > 0 /\ file[i] = EntryOf(file[i].body)
        /\ i > 1 => file[i - 1].body < file[i].body

Idle == \A c \in Cores : pc[c] = "idle"

\* As long as storage works, whenever log_event has returned the file holds every
\* event but the last eventsSinceFlush ones, without a gap.
NothingSkipped ==
    Idle /\ ~failed =>
        /\ Len(file) = total - eventsSinceFlush
        /\ \A i \in 1 .. Len(file) : file[i] = EntryOf(i)

\* As long as storage works, a POWER event reaches the file: EventGroup::POWER is
\* saved without waiting for the threshold.
PowerPersisted ==
    \A n \in 1 .. MaxEvents :
        (\E c \in Cores : pc[c] = "check" /\ group[c] = Power /\ total = n)
            ~> (failed \/ \E i \in 1 .. Len(file) : file[i].body = n)

-----------------------------------------------------------------------------
(* The inductive invariant behind RingHoldsLatest (EventLogProofs).         *)

Critical(c) == pc[c] \in {"body", "advance", "load", "store"}

\* A core is in the locked part of log_event exactly while it owns the mutex.
MutexHeld == \A c \in Cores : Critical(c) <=> eventMutex = c

\* The next id is the number of ids given out, modulo 2^16, and the open slot
\* holds what its writer has written so far.
SlotInProgress ==
    /\ nextEventId = total % IdModulus
    /\ \A c \in Cores :
          /\ pc[c] \in {"body", "advance"} =>
                total > 0 /\ events[writeIndex].id = (total - 1) % IdModulus
          /\ pc[c] = "advance" => events[writeIndex].body = total

IInv == TypeOK /\ MutexHeld /\ SlotInProgress /\ RingHoldsLatest

-----------------------------------------------------------------------------
(* The ring implements the bounded log.                                    *)

RingEntries == [j \in 1 .. Settled |-> events[Back(writeIndex, (Settled + 1) - j)]]

Log == INSTANCE BoundedLog WITH
           Capacity <- BufferSize, entries <- RingEntries, writing <- SlotOpen,
           last <- Completed

\* Read through its indices, the ring behaves as the bounded log: the locked part
\* of log_event on two cores is one atomic append after the other.
ImplementsLog == Log!Spec
=============================================================================
