------------------------------ MODULE BoundedLog ------------------------------
(***************************************************************************)
(* What the event buffer promises: it holds the last Capacity events, oldest*)
(* first, with consecutive ids, and an event is added to it in one step.    *)
(* The one thing a caller can notice of the write in progress is that the   *)
(* oldest event of a full log is given up before the new one is there.      *)
(*                                                                         *)
(* Abstraction of EventManager::log_event, get_event and get_event_count    *)
(* (lib/eventman/event_manager.cpp).                                        *)
(***************************************************************************)
EXTENDS Integers, Sequences

CONSTANTS Capacity, IdModulus

VARIABLES entries, writing, last

logvars == <<entries, writing, last>>

Init == entries = <<>> /\ writing = FALSE /\ last = 0

\* A writer takes the log: the oldest event of a full log goes.
Begin ==
    /\ ~writing
    /\ writing' = TRUE
    /\ entries' = IF Len(entries) = Capacity THEN Tail(entries) ELSE entries
    /\ UNCHANGED last

\* The new event appears at the end, whole, under the next id.
Commit ==
    /\ writing
    /\ writing' = FALSE
    /\ last' = last + 1
    /\ entries' = Append(entries, [id |-> last % IdModulus, body |-> last + 1])

Next == Begin \/ Commit

Spec == Init /\ [][Next]_logvars
=============================================================================
