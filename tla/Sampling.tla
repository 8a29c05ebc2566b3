------------------------------ MODULE Sampling ------------------------------
(***************************************************************************)
(* The loop of core 1: when the interval has passed, collect_telemetry takes *)
(* a sample of the power monitor and emits the events it gives rise to;      *)
(* otherwise nothing is sampled.                                            *)
(***************************************************************************)
EXTENDS SampleTimer, PowerEvents

SInit == TimerInit /\ PowerInit

\* One round of the loop, t being the time at which it looks at the clock.
Round(t) ==
    \/ TakeSample(t) /\ \E s \in Samples : EmitPowerEvents(s)
    \/ SkipSample(t) /\ UNCHANGED powerVars

SNext ==
    \/ \E d \in 1 .. MaxGap : Round(now + d)
    \/ TimerDone /\ UNCHANGED powerVars

SSpec == SInit /\ [][SNext]_<<timerVars, powerVars>>
=============================================================================
