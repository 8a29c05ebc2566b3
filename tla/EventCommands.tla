---------------------------- MODULE EventCommands ----------------------------
(***************************************************************************)
(* lib/comms/commands/event_commands.cpp composed with EventManager: core 0 *)
(* answers "last N events" (5.1) and "event count" (5.2) while core 1 goes  *)
(* on logging.  get_event computes a slot under eventMutex but returns a    *)
(* reference into the ring, which the handler reads after the mutex has been*)
(* released; get_event_count takes no mutex at all.                         *)
(*                                                                         *)
(* A frame is its operation and its value: the rows of one page, a number or *)
(* a text (an error, or "SEQ_DONE").  The hexadecimal text of a row is not modelled*)
(* but for what it says: one entry of the ring.                             *)
(***************************************************************************)
EXTENDS EventManager

CONSTANTS
    Reader,         \* the core that runs the command handlers: core 0
    PageSize,       \* events in one SEQ frame: 10
    DefaultCount,   \* events returned when the parameter is empty: 10
    Params,         \* the values of the parameter: numbers, Empty and Junk
    Empty, Junk,    \* no parameter; a parameter stoul refuses
    MaxRequests     \* bound of the model: number of commands

ASSUME ReaderAssumption == Reader \in Cores
ASSUME PageAssumption == PageSize \in Nat \ {0} /\ DefaultCount \in Nat
ASSUME ParamAssumption == Params \ {Empty, Junk} \subseteq Nat
ASSUME RequestAssumption == MaxRequests \in Nat

VARIABLES
    at,         \* where the handler is: "ready", "get", "read", "page" or "sent"
    available,  \* get_event_count() at the start of the handler
    toReturn,   \* to_return
    eventIndex, \* event_index
    ref,        \* slot the returned reference points to, or -1: the static emptyEvent
    page,       \* rows of the frame being built
    frames,     \* the frames built so far
    wanted,     \* ghost: to_return at the start
    asked,      \* ghost: number of events logged when the command was read
    served      \* ghost: number of commands answered

handler == <<at, available, toReturn, eventIndex, ref, page, frames, wanted, asked,
             served>>
allvars == <<vars, handler>>

Frame(op, text, rows, number) ==
    [op |-> op, text |-> text, rows |-> rows, number |-> number]

RInit ==
    /\ Init
    /\ at = "ready" /\ available = 0 /\ toReturn = 0 /\ eventIndex = 0 /\ ref = -1
    /\ page = <<>> /\ frames = <<>> /\ wanted = 0 /\ asked = 0
    /\ served = 0

Lesser(a, b) == IF a < b THEN a ELSE b

\* to_return: everything for 0, else at most what there is.
Limit(count, avail) == IF count = 0 THEN avail ELSE Lesser(count, avail)

CountOf(param) == IF param = Empty THEN DefaultCount ELSE param

Ready == at = "ready" /\ pc[Reader] = "idle" /\ served < MaxRequests

\* An operation other than GET, a parameter that is no number or too large a
\* number is answered with one ERR frame.
Refuse(op, param, code) ==
    /\ Ready
    /\ \/ op # "GET" /\ code = "INVALID_OPERATION"
       \/ op = "GET" /\ param = Junk /\ code = "PARAM_INVALID"
       \/ op = "GET" /\ param \notin {Junk, Empty} /\ param > BufferSize
          /\ code = "INVALID_VALUE"
    /\ at' = "sent"
    /\ frames' = <<Frame("ERR", code, <<>>, 0)>>
    /\ UNCHANGED <<available, toReturn, eventIndex, ref, page, wanted, asked, served>>

\* handle_get_last_events up to the loop; eventCount is read without the mutex.
GetLastEvents(param) ==
    /\ Ready
    /\ param # Junk /\ CountOf(param) =< BufferSize
    /\ at' = "get"
    /\ available' = eventCount
    /\ toReturn' = Limit(CountOf(param), eventCount)
    /\ wanted' = Limit(CountOf(param), eventCount)
    /\ eventIndex' = eventCount
    /\ asked' = Completed
    /\ UNCHANGED <<ref, page, frames, served>>

\* Mutants: the oldest slot is taken to be 0, or to be writeIndex, always.
ReadIndex_NeverFull(index) == index
ReadIndex_AlwaysFull(index) == (writeIndex + index) % BufferSize

\* The slot of the index-th oldest event.
ReadIndex(index) ==
    IF eventCount = BufferSize THEN (writeIndex + index) % BufferSize ELSE index

\* get_event, whole: it holds the mutex from its first to its last load.
GetEvent ==
    /\ at = "get" /\ toReturn > 0
    /\ eventMutex = NoCore
    /\ at' = "read"
    /\ eventIndex' = eventIndex - 1
    /\ ref' = IF eventIndex - 1 >= eventCount THEN -1 ELSE ReadIndex(eventIndex - 1)
    /\ UNCHANGED <<available, toReturn, page, frames, wanted, asked, served>>

\* The handler formats the entry behind the reference.
ReadEvent ==
    /\ at = "read"
    /\ page' = Append(page, IF ref = -1 THEN EmptyEntry ELSE events[ref])
    /\ toReturn' = toReturn - 1
    /\ ref' = -1
    /\ at' = "page"
    /\ UNCHANGED <<available, eventIndex, frames, wanted, asked, served>>

PageFull == Len(page) = PageSize

\* The inner for loop goes on, or ends and its frame is pushed.
NextRow ==
    /\ at = "page"
    /\ at' = "get"
    /\ IF PageFull \/ toReturn = 0
         THEN frames' = Append(frames, Frame("SEQ", "", page, 0)) /\ page' = <<>>
         ELSE UNCHANGED <<frames, page>>
    /\ UNCHANGED <<available, toReturn, eventIndex, ref, wanted, asked, served>>

SeqDone ==
    /\ at = "get" /\ toReturn = 0
    /\ at' = "sent"
    /\ frames' = Append(frames, Frame("VAL", "SEQ_DONE", <<>>, 0))
    /\ UNCHANGED <<available, toReturn, eventIndex, ref, page, wanted, asked, served>>

\* handle_get_event_count.
GetEventCount ==
    /\ Ready
    /\ at' = "sent"
    /\ frames' = <<Frame("VAL", "", <<>>, eventCount)>>
    /\ UNCHANGED <<available, toReturn, eventIndex, ref, page, wanted, asked, served>>

\* execute_command returns the frames and they are sent.
Reply ==
    /\ at = "sent"
    /\ at' = "ready" /\ served' = served + 1
    /\ available' = 0 /\ toReturn' = 0 /\ eventIndex' = 0 /\ wanted' = 0 /\ asked' = 0
    /\ frames' = <<>>
    /\ UNCHANGED <<ref, page>>

HandlerStep ==
    \/ \E op \in {"GET", "SET"}, param \in Params,
          code \in {"INVALID_OPERATION", "PARAM_INVALID", "INVALID_VALUE"} :
          Refuse(op, param, code)
    \/ \E param \in Params : GetLastEvents(param)
    \/ GetEvent \/ ReadEvent \/ NextRow \/ SeqDone
    \/ GetEventCount
    \/ Reply

\* Core 0 logs events of its own between two commands only.
RNext ==
    \/ \E c \in Cores, g \in Groups :
          LogEnter(c, g) /\ (c = Reader => at = "ready") /\ UNCHANGED handler
    \/ \E c \in Cores : CoreStep(c) /\ UNCHANGED handler
    \/ HandlerStep /\ UNCHANGED vars
    \/ AllReturned /\ at = "ready" /\ served = MaxRequests /\ UNCHANGED handler

RSpec == RInit /\ [][RNext]_allvars

-----------------------------------------------------------------------------
(* Properties.                                                             *)

\* The frames of a finished answer to 5.1 that come before the last one.
Pages == SubSeq(frames, 1, Len(frames) - 1)
Answered == at = "sent" /\ frames[Len(frames)].text = "SEQ_DONE"

\* The rows of the answer, page after page.
RowAt(j) == Pages[((j - 1) \div PageSize) + 1].rows[((j - 1) % PageSize) + 1]

\* They are pages, all of them full but the last, and have the wanted rows between them.
Paged ==
    /\ \A p \in 1 .. Len(Pages) : Pages[p].op = "SEQ"
    /\ Len(Pages) = ((wanted + PageSize) - 1) \div PageSize
    /\ \A p \in 1 .. Len(Pages) :
          Len(Pages[p].rows) = IF p < Len(Pages) THEN PageSize
                                                 ELSE wanted - (p - 1) * PageSize

\* When no event is logged meanwhile, the answer is the latest events, the newest
\* first, in full pages, also after the ring has wrapped.
ReplyIsLatest ==
    Answered /\ asked = total =>
        Paged /\ \A j \in 1 .. wanted : RowAt(j) = EntryOf((total + 1) - j)

\* With core 1 logging, the answer is still exact for as long as the ring has
\* not filled: it is the events there were when the command arrived.
ReplyExactWhileNotFull ==
    Answered /\ eventCount < BufferSize =>
        Paged /\ \A j \in 1 .. wanted : RowAt(j) = EntryOf((available + 1) - j)
=============================================================================
