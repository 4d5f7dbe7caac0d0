-------------------------- MODULE HeartbeatMonitor --------------------------
(***************************************************************************)
(* The heartbeat monitor of one feed (market_data/heartbeat.py): a loop    *)
(* that sleeps, judges the feed by what it did in the interval, tells of a *)
(* change, and clears the interval's counters.  Only the callback for an   *)
(* unhealthy feed is awaited inside the loop; the one for a stale feed     *)
(* becomes a task at every check that finds it stale.                      *)
(*                                                                         *)
(* Time is in units; a task that is ready runs before time goes on.        *)
(***************************************************************************)
EXTENDS Integers, Sequences, SequencesExt

CONSTANTS CheckInterval,   \* check_interval_seconds
          StaleThreshold,  \* stale_threshold_ms
          MinMessages,     \* min_messages_per_second, times the interval
          MaxErrors,       \* max_errors_per_minute, for the interval
          Latencies,       \* what a message may be measured at
          MaxLatency,      \* max_latency_ms
          MaxSamples,      \* latency samples kept, 100 in the code
          MaxCount,        \* bound: where the counters of an interval stop
          MaxStaleCalls    \* bound: on_stale tasks not yet run

ASSUME HeartbeatAssumption ==
    /\ {CheckInterval, MaxSamples} \subseteq Nat \ {0}
    /\ {StaleThreshold, MinMessages, MaxErrors, MaxLatency, MaxStaleCalls} \subseteq Nat
    /\ Latencies \subseteq Nat
    /\ MaxCount \in Nat /\ MaxCount >= MinMessages /\ MaxCount > MaxErrors

VARIABLES
    monitoring,   \* _running
    stage,        \* the loop: "none", "sleeping", "in callback"
    sleep,        \* what is left of its sleep
    silence,      \* time since the last heartbeat, capped
    messages,     \* messages_last_interval
    errors,       \* errors_last_interval
    samples,      \* latency_samples
    verdict,      \* _health_status
    staleCalls,   \* on_stale tasks that have not run
    judged        \* history: has there been a check since the last start?

counters == <<messages, errors, samples>>
beatVars == <<monitoring, stage, sleep, silence, messages, errors, samples, verdict, staleCalls,
              judged>>

MaxSilence == StaleThreshold + CheckInterval + 1

Verdicts == {"unknown", "healthy", "degraded", "unhealthy"}

HeartbeatInit ==
    /\ monitoring = FALSE
    /\ stage = "none"
    /\ sleep = 0
    /\ silence = 0
    /\ messages = 0 /\ errors = 0 /\ samples = <<>>
    /\ verdict = "unknown"
    /\ staleCalls = 0
    /\ judged = FALSE

-----------------------------------------------------------------------------
(* The metrics *)

Capped(n) == IF n > MaxCount THEN MaxCount ELSE n

Trimmed(s) == IF Len(s) > MaxSamples THEN SubSeq(s, Len(s) - MaxSamples + 1, Len(s)) ELSE s

\* A message, with its latency or without.
RecordMessage(measured) ==
    /\ messages' = Capped(messages + 1)
    /\ silence' = 0
    /\ samples' = Trimmed(samples \o measured)
    /\ UNCHANGED <<monitoring, stage, sleep, errors, verdict, staleCalls, judged>>

RecordError ==
    /\ errors' = Capped(errors + 1)
    /\ UNCHANGED <<monitoring, stage, sleep, silence, messages, samples, verdict, staleCalls,
                   judged>>

TotalLatency == FoldSeq(LAMBDA a, b : a + b, 0, samples)

Stale == silence > StaleThreshold
Slow == Len(samples) > 0 /\ TotalLatency > MaxLatency * Len(samples)

\* Mutant of Assessment: a message makes up for any silence.
AssessmentByRate ==
    IF messages < MinMessages THEN verdict
    ELSE IF Slow THEN "degraded"
    ELSE IF errors > MaxErrors THEN "unhealthy"
    ELSE "healthy"

\* _check_health: silence and a low rate hide the errors.
Assessment ==
    IF Stale \/ messages < MinMessages \/ Slow THEN "degraded"
    ELSE IF errors > MaxErrors THEN "unhealthy"
    ELSE "healthy"

-----------------------------------------------------------------------------
(* The loop *)

MonitorStart ==
    /\ ~ monitoring
    /\ monitoring' = TRUE
    /\ stage' = "sleeping"
    /\ sleep' = CheckInterval
    /\ judged' = FALSE
    /\ UNCHANGED <<silence, counters, verdict, staleCalls>>

\* The loop is cancelled wherever it waits; the verdict stays as it is.
MonitorStop ==
    /\ monitoring
    /\ monitoring' = FALSE
    /\ stage' = "none"
    /\ UNCHANGED <<sleep, silence, counters, verdict, staleCalls, judged>>

\* The interval's counters are cleared and the loop sleeps again.
NextRound ==
    /\ stage' = "sleeping"
    /\ sleep' = CheckInterval
    /\ messages' = 0 /\ errors' = 0

CheckHealth ==
    /\ stage = "sleeping" /\ sleep = 0
    /\ judged' = TRUE
    /\ verdict' = Assessment
    /\ staleCalls' = IF Stale /\ staleCalls < MaxStaleCalls THEN staleCalls + 1 ELSE staleCalls
    /\ IF Assessment # verdict /\ Assessment = "unhealthy"
       THEN stage' = "in callback" /\ UNCHANGED <<sleep, messages, errors>>
       ELSE NextRound
    /\ UNCHANGED <<monitoring, silence, samples>>

\* on_unhealthy is over; what arrived meanwhile is cleared with the rest.
CallbackReturns ==
    /\ stage = "in callback"
    /\ NextRound
    /\ UNCHANGED <<monitoring, silence, samples, verdict, staleCalls, judged>>

RunStaleCallback ==
    /\ staleCalls > 0
    /\ staleCalls' = staleCalls - 1
    /\ UNCHANGED <<monitoring, stage, sleep, silence, counters, verdict, judged>>

TimePasses ==
    /\ ~ (stage = "sleeping" /\ sleep = 0)
    /\ silence' = IF silence < MaxSilence THEN silence + 1 ELSE silence
    /\ sleep' = IF stage = "sleeping" THEN sleep - 1 ELSE sleep
    /\ UNCHANGED <<monitoring, stage, counters, verdict, staleCalls, judged>>

HeartbeatNext ==
    \/ MonitorStart \/ MonitorStop \/ CheckHealth \/ CallbackReturns \/ RunStaleCallback
    \/ TimePasses \/ RecordError \/ RecordMessage(<<>>)
    \/ \E l \in Latencies : RecordMessage(<<l>>)

HeartbeatSpec == HeartbeatInit /\ [][HeartbeatNext]_beatVars

-----------------------------------------------------------------------------
(* Properties *)

\* The types; the latency samples are those of the recent past only, and the
\* loop is alive exactly while the monitor runs.
HeartbeatTypeOK ==
    /\ monitoring \in BOOLEAN
    /\ stage \in {"none", "sleeping", "in callback"}
    /\ monitoring <=> stage # "none"
    /\ sleep \in 0 .. CheckInterval
    /\ silence \in 0 .. MaxSilence
    /\ messages \in 0 .. MaxCount /\ errors \in 0 .. MaxCount
    /\ samples \in Seq(Latencies) /\ Len(samples) <= MaxSamples
    /\ verdict \in Verdicts
    /\ staleCalls \in 0 .. MaxStaleCalls

\* A monitor that has found its feed healthy since it was started has heard
\* from it at most the stale threshold before that check (heartbeat.py:203).
\* A monitor started again keeps its old verdict until its first check.
HealthyIsRecent ==
    monitoring /\ judged /\ verdict = "healthy" =>
        silence <= StaleThreshold + (CheckInterval - sleep)

\* What holds of the monitor at any time: the parts above.
HeartbeatInvariant == HeartbeatTypeOK /\ HealthyIsRecent
=============================================================================
