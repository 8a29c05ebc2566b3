----------------------------- MODULE SampleTimer -----------------------------
(***************************************************************************)
(* is_telemetry_collection_time, as the loop of core 1 calls it with the    *)
(* 32-bit millisecond clock of the SDK, which wraps every 49.7 days.        *)
(***************************************************************************)
EXTENDS Integers

CONSTANTS
    Wrap,     \* 2^32: uint32_t
    Interval, \* sample_interval_ms
    MaxGap,   \* longest time between two looks at the clock
    MaxNow    \* bound of the model: how long the system runs

ASSUME TimerAssumption ==
    /\ Wrap \in Nat \ {0} /\ Interval \in Nat \ {0} /\ MaxGap \in Nat \ {0}
    /\ MaxNow \in Nat
    /\ Interval + MaxGap =< Wrap

VARIABLES
    now,   \* milliseconds since boot, not wrapped
    last,  \* last_telemetry_time of core1_entry
    since  \* ghost: now at the last collection, or 0

timerVars == <<now, last, since>>

TimerInit == now = 0 /\ last = 0 /\ since = 0

CurrentTime(t) == t % Wrap

\* Mutants: the deadline is compared in place of the elapsed time, with and
\* without the wrap of the addition.
CollectionTime_Deadline(t) == CurrentTime(t) >= (last + Interval) % Wrap
CollectionTime_NoWrap(t) == CurrentTime(t) >= last + Interval

\* current_time - last_collection_time is an unsigned difference.
CollectionTime(t) == (CurrentTime(t) - last) % Wrap >= Interval

\* One round of core1_entry: the time that passed, then the look at the clock.
Look(t) ==
    /\ t \in (now + 1) .. (now + MaxGap) /\ t =< MaxNow
    /\ now' = t

TakeSample(t) ==
    /\ Look(t)
    /\ CollectionTime(t)
    /\ last' = CurrentTime(t)
    /\ since' = t

SkipSample(t) ==
    /\ Look(t)
    /\ ~CollectionTime(t)
    /\ UNCHANGED <<last, since>>

TimerDone == now = MaxNow /\ UNCHANGED timerVars

TimerNext ==
    \/ \E d \in 1 .. MaxGap : TakeSample(now + d) \/ SkipSample(now + d)
    \/ TimerDone

-----------------------------------------------------------------------------
TimerTypeOK == now \in Nat /\ last \in 0 .. (Wrap - 1) /\ since \in 0 .. now

\* Records are at least sample_interval_ms of real time apart, also when the
\* clock wraps between them.
CollectionsSpaced == [][TakeSample(now') => now' - since >= Interval]_timerVars

\* No look at the clock that comes sample_interval_ms or more after the last
\* collection goes by without a collection, also across the wrap: so two records
\* are never further apart than the interval and one round of the loop.
NeverOverdue == now - since < Interval

TimerIInv == TimerTypeOK /\ last = CurrentTime(since) /\ NeverOverdue
=============================================================================
