----------------------------- MODULE RetryLoop ------------------------------
(***************************************************************************)
(* retry_with_backoff (src/core/retry.py:81), behind the `retry' decorator *)
(* for coroutines and RetryableOperation.execute: a function is called up  *)
(* to max_attempts times, with a sleep between two calls that doubles up   *)
(* to max_delay.  Only an exception of the configured types is retried.    *)
(***************************************************************************)
EXTENDS Integers, FiniteSetsExt

CONSTANTS
    MaxAttempts,    \* the largest max_attempts tried
    BaseDelay,      \* base_delay; exponential_base is 2
    MaxDelay,       \* max_delay
    JitterMax       \* jitter_max

ASSUME RetryAssumption ==
    /\ MaxAttempts \in Nat /\ BaseDelay \in Nat \ {0}
    /\ MaxDelay \in Nat /\ JitterMax \in Nat

VARIABLES
    maxAttempts,    \* config.max_attempts
    attempt,        \* the loop's counter, from 0
    phase,          \* "calling" the function, "sleeping", or how it ended:
                    \* "returned", "exhausted", "raised"
    delay,          \* what the last sleep was asked for
    made,           \* history: calls of the function begun, counted to MaxAttempts + 1
    naps            \* history: sleeps, counted likewise

retryVars == <<maxAttempts, attempt, phase, delay, made, naps>>

Ended == {"returned", "exhausted", "raised"}

OneMore(n) == Min({n + 1, MaxAttempts + 1})

(* A loop over no attempts is over before it begins: RetryExhaustedError   *)
(* without a call.                                                         *)
BeginWith(n) ==
    /\ maxAttempts' = n
    /\ attempt' = 0
    /\ phase' = IF n = 0 THEN "exhausted" ELSE "calling"
    /\ made' = IF n = 0 THEN 0 ELSE 1
    /\ delay' = 0 /\ naps' = 0

RetryInit ==
    /\ maxAttempts = 0 /\ attempt = 0 /\ phase = "returned"
    /\ delay = 0 /\ made = 0 /\ naps = 0

RetryBegins ==
    /\ phase \in Ended
    /\ \E n \in 0 .. MaxAttempts : BeginWith(n)
-----------------------------------------------------------------------------
(* calculate_delay, with what the jitter adds.                             *)
Delay(n, jitter) == Min({BaseDelay * 2 ^ n, MaxDelay}) + jitter

(* Is this the last attempt, after which no sleep follows?  The mutant     *)
(* sleeps after it too.                                                    *)
IsLastTooLate == attempt >= maxAttempts
IsLast == attempt >= maxAttempts - 1

FunctionReturns ==
    /\ phase = "calling"
    /\ phase' = "returned"
    /\ UNCHANGED <<maxAttempts, attempt, delay, made, naps>>

(* An exception that is not to be retried, a cancellation in the call or   *)
(* in the sleep, or one that on_retry raises: the loop is left.            *)
RetryLeft ==
    /\ phase \in {"calling", "sleeping"}
    /\ phase' = "raised"
    /\ UNCHANGED <<maxAttempts, attempt, delay, made, naps>>

(* The function fails in a way to retry.                                   *)
FailsBeforeLast ==
    /\ phase = "calling"
    /\ ~IsLast
    /\ phase' = "sleeping"
    /\ \E jitter \in 0 .. JitterMax : delay' = Delay(attempt, jitter)
    /\ naps' = OneMore(naps)
    /\ UNCHANGED <<maxAttempts, attempt, made>>

FailsAtLast ==
    /\ phase = "calling"
    /\ IsLast
    /\ phase' = "exhausted"
    /\ UNCHANGED <<maxAttempts, attempt, delay, made, naps>>

(* The sleep is over: the next attempt, if the range has one.              *)
SleepOver ==
    /\ phase = "sleeping"
    /\ attempt' = attempt + 1
    /\ IF attempt' < maxAttempts
       THEN phase' = "calling" /\ made' = OneMore(made)
       ELSE phase' = "exhausted" /\ made' = made
    /\ UNCHANGED <<maxAttempts, delay, naps>>

CallEnds == FunctionReturns \/ FailsBeforeLast \/ FailsAtLast

RetryNext == RetryBegins \/ CallEnds \/ RetryLeft \/ SleepOver

RetrySpec == RetryInit /\ [][RetryNext]_retryVars
-----------------------------------------------------------------------------
(* No sleep is longer than max_delay and the jitter.                       *)
RetryTypeOK ==
    /\ maxAttempts \in 0 .. MaxAttempts
    /\ attempt \in 0 .. MaxAttempts
    /\ phase \in {"calling", "sleeping"} \cup Ended
    /\ delay \in 0 .. MaxDelay + JitterMax
    /\ {made, naps} \subseteq 0 .. MaxAttempts + 1

(* "Exhausted" means that the function was called max_attempts times, and  *)
(* that the caller waited between the calls only, never after the last     *)
(* (retry.py:112).  No outcome has more calls than that.                   *)
ExhaustedAfterAll ==
    /\ made <= maxAttempts
    /\ phase = "exhausted" => made = maxAttempts /\ naps = Max({0, maxAttempts - 1})

(* What holds of the loop at any time: the parts above.                    *)
RetryInvariant == RetryTypeOK /\ ExhaustedAfterAll
=============================================================================
