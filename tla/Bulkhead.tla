------------------------------ MODULE Bulkhead ------------------------------
(***************************************************************************)
(* Bulkhead.execute (src/core/retry.py:255): a counter of the calls that   *)
(* wait, then a semaphore of max_concurrent permits.  The lock is never    *)
(* held across an await, so what it encloses is one step; a call can be    *)
(* suspended for the semaphore and inside the function it protects, and be *)
(* cancelled in either place.                                              *)
(***************************************************************************)
EXTENDS Integers, Sequences, SequencesExt, FiniteSetsExt

CONSTANTS
    Jobs,           \* coroutines that call execute
    MaxConcurrent,  \* max_concurrent
    MaxQueue,       \* max_queue
    MaxFailures,    \* bound: functions that fail
    MaxCancels      \* bound: calls cancelled while they wait

ASSUME BulkheadAssumption ==
    /\ IsFiniteSet(Jobs)
    /\ MaxConcurrent \in Nat \ {0} /\ MaxQueue \in Nat \ {0}
    /\ MaxFailures \in Nat /\ MaxCancels \in Nat

VARIABLES
    job,            \* "idle", "waiting" for the semaphore, "granted" a permit
                    \* by a release but not resumed, "running" the function
    waiters,        \* the semaphore's waiters, oldest first
    permits,        \* _semaphore._value
    queueSize,      \* _queue_size
    failures,       \* history: the functions that failed
    cancels         \* history: the calls cancelled before they ran

bulkVars == <<job, waiters, permits, queueSize, failures, cancels>>

BulkInit ==
    /\ job = [j \in Jobs |-> "idle"]
    /\ waiters = <<>>
    /\ permits = MaxConcurrent
    /\ queueSize = 0
    /\ failures = 0 /\ cancels = 0

In(stages) == {j \in Jobs : job[j] \in stages}
-----------------------------------------------------------------------------
(* The semaphore is free: it has a permit and no call is ahead.            *)
Unlocked == permits > 0 /\ In({"waiting", "granted"}) = {}

(* The check before a call is counted.                                     *)
QueueFull == queueSize >= MaxQueue

(* execute with the queue full: BulkheadFullError, nothing changes.        *)
ExecuteRefused(j) ==
    /\ job[j] = "idle"
    /\ QueueFull
    /\ UNCHANGED bulkVars

(* The call is counted and goes on at once, its count taken back ...       *)
ExecuteAtOnce(j) ==
    /\ job[j] = "idle"
    /\ ~QueueFull
    /\ Unlocked
    /\ permits' = permits - 1
    /\ job' = [job EXCEPT ![j] = "running"]
    /\ UNCHANGED <<waiters, queueSize, failures, cancels>>

(* ... or waits, counted, for the semaphore.                               *)
ExecuteWaits(j) ==
    /\ job[j] = "idle"
    /\ ~QueueFull
    /\ ~Unlocked
    /\ job' = [job EXCEPT ![j] = "waiting"]
    /\ waiters' = Append(waiters, j)
    /\ queueSize' = queueSize + 1
    /\ UNCHANGED <<permits, failures, cancels>>

(* The semaphore hands its free permits to the first of the line, to at    *)
(* most `most' of them.                                                    *)
HandOver(jobs, line, free, most) ==
    LET n == Min({most, free, Len(line)})
    IN  /\ job' = [j \in Jobs |-> IF j \in ToSet(SubSeq(line, 1, n)) THEN "granted"
                                  ELSE jobs[j]]
        /\ waiters' = SubSeq(line, n + 1, Len(line))
        /\ permits' = free - n

(* The call that was given a permit resumes, wakes whom the semaphore      *)
(* still has permits for, and leaves the queue.                            *)
JobResumes(j) ==
    /\ job[j] = "granted"
    /\ HandOver([job EXCEPT ![j] = "running"], waiters, permits, Len(waiters))
    /\ queueSize' = queueSize - 1
    /\ UNCHANGED <<failures, cancels>>

(* A call leaves the semaphore, which wakes one waiter.  The mutant none.  *)
ReleaseToNobody(j) == HandOver([job EXCEPT ![j] = "idle"], waiters, permits + 1, 0)
Release(j) == HandOver([job EXCEPT ![j] = "idle"], waiters, permits + 1, 1)

(* The function returns, or is cancelled: `except Exception' does not see  *)
(* the cancellation.                                                       *)
FunctionEnds(j) ==
    /\ job[j] = "running"
    /\ Release(j)
    /\ UNCHANGED <<queueSize, failures, cancels>>

(* The function fails.  The counter was taken back when the call began to  *)
(* run; the handler takes it back again, not below zero.                   *)
FunctionFails(j) ==
    /\ job[j] = "running"
    /\ failures < MaxFailures
    /\ Release(j)
    /\ queueSize' = Max({0, queueSize - 1})
    /\ failures' = failures + 1
    /\ UNCHANGED cancels

(* A call is cancelled before it ran and stays counted: it leaves the line *)
(* in which it waits ...                                                   *)
CancelWaiting(j) ==
    /\ job[j] = "waiting"
    /\ cancels < MaxCancels
    /\ cancels' = cancels + 1
    /\ \E i \in DOMAIN waiters :
          /\ waiters[i] = j
          /\ HandOver([job EXCEPT ![j] = "idle"], RemoveAt(waiters, i), permits, permits)
    /\ UNCHANGED <<queueSize, failures>>

(* ... or gives back the permit it had been given.                         *)
CancelGranted(j) ==
    /\ job[j] = "granted"
    /\ cancels < MaxCancels
    /\ cancels' = cancels + 1
    /\ HandOver([job EXCEPT ![j] = "idle"], waiters, permits + 1, permits + 1)
    /\ UNCHANGED <<queueSize, failures>>

BulkNext ==
    \E j \in Jobs : \/ ExecuteRefused(j) \/ ExecuteAtOnce(j) \/ ExecuteWaits(j)
                    \/ JobResumes(j)
                    \/ FunctionEnds(j) \/ FunctionFails(j)
                    \/ CancelWaiting(j) \/ CancelGranted(j)

BulkSpec == BulkInit /\ [][BulkNext]_bulkVars
-----------------------------------------------------------------------------
(* Types.  The counter never passes max_queue, but can go below zero: a    *)
(* failure takes back the count of a call that still waits.                *)
BulkTypeOK ==
    /\ job \in [Jobs -> {"idle", "waiting", "granted", "running"}]
    /\ ToSet(waiters) = In({"waiting"}) /\ Len(waiters) = Cardinality(In({"waiting"}))
    /\ permits \in 0 .. MaxConcurrent
    /\ queueSize \in - Cardinality(Jobs) .. MaxQueue
    /\ failures \in 0 .. MaxFailures /\ cancels \in 0 .. MaxCancels

(* Every permit is free, with a call that runs, or on its way to one: a    *)
(* failure or a cancellation loses none.  While calls wait beside a free   *)
(* permit, one that was granted another is about to resume and wakes them. *)
PermitsAreKept ==
    /\ permits + Cardinality(In({"granted", "running"})) = MaxConcurrent
    /\ permits > 0 /\ waiters # <<>> => In({"granted"}) # {}

(* The counter differs from the number of calls that wait only by what     *)
(* failures and cancellations left behind (retry.py:270-291): each call    *)
(* cancelled in the queue is counted for ever, each failure hides at most  *)
(* one call.  Without them max_queue is exact.                             *)
CountIsOffByFaults ==
    LET waiting == Cardinality(In({"waiting", "granted"}))
    IN  queueSize - waiting \in - failures .. cancels

(* What holds of the bulkhead at any time: the parts above.                *)
BulkheadInvariant == BulkTypeOK /\ PermitsAreKept /\ CountIsOffByFaults
=============================================================================
