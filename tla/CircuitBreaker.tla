--------------------------- MODULE CircuitBreaker ---------------------------
(***************************************************************************)
(* CircuitBreaker (core/circuit_breaker.py) under concurrent callers.      *)
(*                                                                         *)
(* The code under the lock never suspends, so each locked section is one   *)
(* step: the admission at the head of call, and the recording of a result. *)
(* The protected function runs in between, for as long as it likes.        *)
(*                                                                         *)
(* The counters are only compared with their thresholds, so they stop      *)
(* there; the time since the last failure is only compared with            *)
(* recovery_timeout, so it is kept as whether that has passed.             *)
(***************************************************************************)
EXTENDS Integers, FiniteSets

CONSTANTS Callers,             \* coroutines that use the breaker
          FailureThreshold,    \* failure_threshold
          HalfOpenMaxCalls     \* half_open_max_calls

ASSUME BreakerAssumption ==
    /\ IsFiniteSet(Callers)
    /\ FailureThreshold \in Nat \ {0}
    /\ HalfOpenMaxCalls \in Nat \ {0}

VARIABLES
    state,          \* _state
    failureCount,   \* _failure_count
    successCount,   \* _success_count
    halfOpenCalls,  \* _half_open_calls
    cooled,         \* recovery_timeout has passed since _last_failure_time
    calls,          \* what each caller is doing: "idle", "running" a call let
                    \* through by a closed circuit, or a "probe" of a half-open one
    unrecorded      \* history: some call has ended without a result

vars == <<state, failureCount, successCount, halfOpenCalls, cooled, calls, unrecorded>>

Init ==
    /\ state = "CLOSED"
    /\ failureCount = 0
    /\ successCount = 0
    /\ halfOpenCalls = 0
    /\ cooled = FALSE
    /\ calls = [c \in Callers |-> "idle"]
    /\ unrecorded = FALSE

UpTo(limit, n) == IF n < limit THEN n ELSE limit

Busy(c) == calls[c] # "idle"

Probes == {c \in Callers : calls[c] = "probe"}

-----------------------------------------------------------------------------
(* The head of call: _update_state, then the admission.  A call that is    *)
(* turned away leaves the breaker as it found it.                          *)

AdmitClosed(c) ==
    /\ ~Busy(c)
    /\ state = "CLOSED"
    /\ calls' = [calls EXCEPT ![c] = "running"]
    /\ UNCHANGED <<state, failureCount, successCount, halfOpenCalls, cooled, unrecorded>>

\* OPEN turns HALF_OPEN for the first caller after the timeout, its first probe.
AdmitFirstProbe(c) ==
    /\ ~Busy(c)
    /\ state = "OPEN"
    /\ cooled
    /\ state' = "HALF_OPEN"
    /\ halfOpenCalls' = 1
    /\ successCount' = 0
    /\ calls' = [calls EXCEPT ![c] = "probe"]
    /\ UNCHANGED <<failureCount, cooled, unrecorded>>

AdmitProbe(c) ==
    /\ ~Busy(c)
    /\ state = "HALF_OPEN"
    /\ halfOpenCalls < HalfOpenMaxCalls
    /\ halfOpenCalls' = halfOpenCalls + 1
    /\ calls' = [calls EXCEPT ![c] = "probe"]
    /\ UNCHANGED <<state, failureCount, successCount, cooled, unrecorded>>

Admit(c) == AdmitClosed(c) \/ AdmitFirstProbe(c) \/ AdmitProbe(c)

-----------------------------------------------------------------------------
(* The end of the protected function.  Whatever the state was when the     *)
(* call was let through, its result counts in the state of the moment.     *)

\* Mutant of RecordSuccess: > where the code has >=.
RecordSuccessPast(c) ==
    /\ Busy(c)
    /\ calls' = [calls EXCEPT ![c] = "idle"]
    /\ IF state = "HALF_OPEN" /\ successCount + 1 > HalfOpenMaxCalls
       THEN /\ state' = "CLOSED"
            /\ failureCount' = 0
            /\ successCount' = 0
            /\ halfOpenCalls' = 0
       ELSE /\ successCount' = UpTo(HalfOpenMaxCalls, successCount + 1)
            /\ UNCHANGED <<state, failureCount, halfOpenCalls>>
    /\ UNCHANGED <<cooled, unrecorded>>

RecordSuccess(c) ==
    /\ Busy(c)
    /\ calls' = [calls EXCEPT ![c] = "idle"]
    /\ IF state = "HALF_OPEN" /\ successCount + 1 >= HalfOpenMaxCalls
       THEN /\ state' = "CLOSED"
            /\ failureCount' = 0
            /\ successCount' = 0
            /\ halfOpenCalls' = 0
       ELSE /\ successCount' = UpTo(HalfOpenMaxCalls, successCount + 1)
            /\ UNCHANGED <<state, failureCount, halfOpenCalls>>
    /\ UNCHANGED <<cooled, unrecorded>>

\* Mutant of RecordFailure: a failed probe leaves the circuit half open.
RecordFailureHalfOpen(c) ==
    /\ Busy(c)
    /\ calls' = [calls EXCEPT ![c] = "idle"]
    /\ failureCount' = UpTo(FailureThreshold, failureCount + 1)
    /\ cooled' = FALSE
    /\ state' = IF state = "CLOSED" /\ failureCount' >= FailureThreshold THEN "OPEN" ELSE state
    /\ UNCHANGED <<successCount, halfOpenCalls, unrecorded>>

RecordFailure(c) ==
    /\ Busy(c)
    /\ calls' = [calls EXCEPT ![c] = "idle"]
    /\ failureCount' = UpTo(FailureThreshold, failureCount + 1)
    /\ cooled' = FALSE
    /\ \/ /\ state = "HALF_OPEN"
          /\ state' = "OPEN"
          /\ halfOpenCalls' = 0
       \/ /\ state # "HALF_OPEN"
          /\ state' = IF failureCount' >= FailureThreshold THEN "OPEN" ELSE state
          /\ UNCHANGED halfOpenCalls
    /\ UNCHANGED <<successCount, unrecorded>>

\* A cancellation, or an exception that is not expected, passes both by.
EndUnrecorded(c) ==
    /\ Busy(c)
    /\ calls' = [calls EXCEPT ![c] = "idle"]
    /\ unrecorded' = TRUE
    /\ UNCHANGED <<state, failureCount, successCount, halfOpenCalls, cooled>>

EndCall(c) == RecordSuccess(c) \/ RecordFailure(c) \/ EndUnrecorded(c)

-----------------------------------------------------------------------------

TimeoutPasses ==
    /\ state = "OPEN"
    /\ ~cooled
    /\ cooled' = TRUE
    /\ UNCHANGED <<state, failureCount, successCount, halfOpenCalls, calls, unrecorded>>

Reset ==
    /\ state' = "CLOSED"
    /\ failureCount' = 0
    /\ successCount' = 0
    /\ halfOpenCalls' = 0
    /\ cooled' = FALSE
    /\ UNCHANGED <<calls, unrecorded>>

Next ==
    \/ \E c \in Callers : Admit(c) \/ EndCall(c)
    \/ TimeoutPasses
    \/ Reset

Spec == Init /\ [][Next]_vars

\* The protected function returns, time passes, and callers keep calling.
Fairness ==
    /\ \A c \in Callers : WF_vars(EndCall(c)) /\ WF_vars(Admit(c))
    /\ WF_vars(TimeoutPasses)

FairSpec == Spec /\ Fairness

-----------------------------------------------------------------------------
(* Properties *)

TypeOK ==
    /\ state \in {"CLOSED", "OPEN", "HALF_OPEN"}
    /\ failureCount \in 0..FailureThreshold
    /\ successCount \in 0..HalfOpenMaxCalls
    /\ halfOpenCalls \in 0..HalfOpenMaxCalls
    /\ cooled \in BOOLEAN
    /\ calls \in [Callers -> {"idle", "running", "probe"}]
    /\ unrecorded \in BOOLEAN

\* The circuit lets calls through freely exactly as long as fewer failures than
\* the threshold have been counted since it was last closed: results that come
\* in late, in whatever state, neither hide a tripped circuit nor leave a healthy
\* one open.
OpenIffTripped == state # "CLOSED" <=> failureCount >= FailureThreshold

\* A half-open circuit has let at least one probe through, never more than the
\* maximum, and has not seen the successes that would have closed it.
HalfOpenIsProbing ==
    state = "HALF_OPEN" =>
        /\ halfOpenCalls \in 1..HalfOpenMaxCalls
        /\ successCount < HalfOpenMaxCalls

\* As long as every call has been recorded, a half-open circuit that turns all
\* callers away has a probe still running, whose end will change its state.
NeverWedged ==
    state = "HALF_OPEN" /\ halfOpenCalls >= HalfOpenMaxCalls => Probes # {} \/ unrecorded

\* A probing circuit comes to a verdict, unless some call ends unrecorded.
ProbingEnds == state = "HALF_OPEN" ~> state # "HALF_OPEN" \/ unrecorded

\* An open circuit tries again, although late failures restart its timeout.
OpenTriesAgain == state = "OPEN" ~> state # "OPEN"

\* What holds of the breaker at any time: the parts above.
BreakerInvariant == TypeOK /\ OpenIffTripped /\ HalfOpenIsProbing /\ NeverWedged

\* What a breaker whose callers go on calling comes to in the end: it neither
\* stays open for good, nor half-open while its calls are recorded.
BreakerProgress == ProbingEnds /\ OpenTriesAgain
=============================================================================
