------------------------- MODULE CoreServicesProofs -------------------------
(***************************************************************************)
(* Proofs about the services of src/core: the circuit breaker, the rate    *)
(* limiter, the bulkhead, the retry loop, the audit trail and the backups, *)
(* for any values of the constants.                                        *)
(***************************************************************************)
EXTENDS CoreServices, CollectionLemmas

-----------------------------------------------------------------------------
(* CircuitBreaker.                                                         *)

\* The invariants of the safety run support each other: the counts stay within
\* their limits because a half-open circuit closes at its last success.
BreakerIInv == TypeOK /\ OpenIffTripped /\ HalfOpenIsProbing

LEMMA Limits ==
    /\ FailureThreshold \in Nat /\ HalfOpenMaxCalls \in Nat
    /\ FailureThreshold >= 1 /\ HalfOpenMaxCalls >= 1
    /\ 0 \in 0..FailureThreshold /\ ~(0 >= FailureThreshold)
    /\ 0 \in 0..HalfOpenMaxCalls
  BY BreakerAssumption

LEMMA Counting ==
    ASSUME NEW limit \in Nat, NEW n \in 0..limit
    PROVE  /\ UpTo(limit, n + 1) \in 0..limit
           /\ n < limit => UpTo(limit, n + 1) = n + 1
           /\ n >= limit => UpTo(limit, n + 1) >= limit
  BY DEF UpTo

LEMMA BreakerInitial == Init => BreakerIInv
  <1> SUFFICES ASSUME Init PROVE BreakerIInv
    OBVIOUS
  <1>1. TypeOK
    BY Limits DEF Init, TypeOK
  <1>2. OpenIffTripped /\ HalfOpenIsProbing
    BY Limits DEF Init, OpenIffTripped, HalfOpenIsProbing
  <1>3. QED
    BY <1>1, <1>2 DEF BreakerIInv

LEMMA BreakerStep == BreakerIInv /\ [Next]_vars => BreakerIInv'
  <1> SUFFICES ASSUME BreakerIInv, [Next]_vars PROVE BreakerIInv'
    OBVIOUS
  <1> USE Limits DEF BreakerIInv, TypeOK, OpenIffTripped, HalfOpenIsProbing
  <1>1. ASSUME NEW c \in Callers, AdmitClosed(c) PROVE BreakerIInv'
    BY <1>1 DEF AdmitClosed
  <1>2. ASSUME NEW c \in Callers, AdmitFirstProbe(c) PROVE BreakerIInv'
    BY <1>2 DEF AdmitFirstProbe
  <1>3. ASSUME NEW c \in Callers, AdmitProbe(c) PROVE BreakerIInv'
    BY <1>3 DEF AdmitProbe
  <1>4. ASSUME NEW c \in Callers, RecordSuccess(c) PROVE BreakerIInv'
    BY <1>4 DEF RecordSuccess, UpTo
  <1>5. ASSUME NEW c \in Callers, RecordFailure(c) PROVE BreakerIInv'
    <2>1. failureCount' \in 0..FailureThreshold
      BY <1>5, Counting DEF RecordFailure
    <2>2. failureCount >= FailureThreshold => failureCount' >= FailureThreshold
      BY <1>5, Counting DEF RecordFailure
    <2>3. /\ calls' \in [Callers -> {"idle", "running", "probe"}]
          /\ cooled' = FALSE /\ UNCHANGED <<successCount, unrecorded>>
      BY <1>5 DEF RecordFailure
    <2>4. CASE state = "HALF_OPEN"
      <3>1. state' = "OPEN" /\ halfOpenCalls' = 0
        BY <1>5, <2>4 DEF RecordFailure
      <3>2. QED
        BY <2>1, <2>2, <2>3, <2>4, <3>1
    <2>5. CASE state # "HALF_OPEN"
      <3>1. /\ state' = IF failureCount' >= FailureThreshold THEN "OPEN" ELSE state
            /\ UNCHANGED halfOpenCalls
        BY <1>5, <2>5 DEF RecordFailure
      <3>2. QED
        BY <2>1, <2>2, <2>3, <2>5, <3>1
    <2>6. QED
      BY <2>4, <2>5
  <1>6. ASSUME NEW c \in Callers, EndUnrecorded(c) PROVE BreakerIInv'
    BY <1>6 DEF EndUnrecorded
  <1>7. ASSUME TimeoutPasses PROVE BreakerIInv'
    BY <1>7 DEF TimeoutPasses
  <1>8. ASSUME Reset PROVE BreakerIInv'
    <2> DEFINE zero == 0
    <2>1. /\ state' = "CLOSED" /\ failureCount' = zero /\ successCount' = zero
          /\ halfOpenCalls' = zero /\ cooled' = FALSE /\ UNCHANGED <<calls, unrecorded>>
      BY <1>8 DEF Reset
    <2>2. zero \in 0..FailureThreshold /\ zero \in 0..HalfOpenMaxCalls
          /\ ~(zero >= FailureThreshold)
      OBVIOUS
    <2> HIDE DEF zero
    <2>3. QED
      BY <2>1, <2>2
  <1>9. ASSUME UNCHANGED vars PROVE BreakerIInv'
    BY <1>9 DEF vars
  <1>10. QED
    BY <1>1, <1>2, <1>3, <1>4, <1>5, <1>6, <1>7, <1>8, <1>9 DEF Next, Admit, EndCall

LEMMA BreakerInductive == Spec => []BreakerIInv
  BY BreakerInitial, BreakerStep, PTL DEF Spec

\* The counters of the breaker never leave their ranges.
THEOREM BreakerTypeCorrect == Spec => []TypeOK
  <1>1. BreakerIInv => TypeOK
    BY DEF BreakerIInv
  <1>2. QED
    BY <1>1, BreakerInductive, PTL

\* The circuit is closed exactly while fewer failures than the threshold count.
THEOREM Tripping == Spec => []OpenIffTripped
  <1>1. BreakerIInv => OpenIffTripped
    BY DEF BreakerIInv
  <1>2. QED
    BY <1>1, BreakerInductive, PTL

\* A half-open circuit is always in the middle of its probes.
THEOREM Probing == Spec => []HalfOpenIsProbing
  <1>1. BreakerIInv => HalfOpenIsProbing
    BY DEF BreakerIInv
  <1>2. QED
    BY <1>1, BreakerInductive, PTL

-----------------------------------------------------------------------------
(* Why a breaker whose calls all end recorded cannot wedge. *)

\* Each probe let through is still running or has been counted as a success.
ProbesAccounted ==
    state = "HALF_OPEN" /\ ~unrecorded =>
        halfOpenCalls <= successCount + Cardinality(Probes)

LEMMA ProbesFinite ==
    IsFiniteSet(Probes) /\ Cardinality(Probes) \in Nat
  <1>1. IsFiniteSet(Probes)
    BY BreakerAssumption, FS_Subset DEF Probes
  <1>2. QED
    BY <1>1, FS_CardinalityType

\* A caller that starts a probe, and one that ends whatever call it was in.
LEMMA ProbesMove ==
    ASSUME TypeOK, NEW c \in Callers
    PROVE  /\ ~Busy(c) /\ calls' = [calls EXCEPT ![c] = "probe"]
                => Cardinality(Probes') = Cardinality(Probes) + 1
           /\ calls' = [calls EXCEPT ![c] = "idle"]
                => /\ Cardinality(Probes') \in Nat
                   /\ Cardinality(Probes') + 1 >= Cardinality(Probes)
  <1>1. ASSUME ~Busy(c), calls' = [calls EXCEPT ![c] = "probe"]
        PROVE  Cardinality(Probes') = Cardinality(Probes) + 1
    <2>1. Probes' = Probes \cup {c} /\ c \notin Probes
      BY <1>1 DEF Probes, Busy, TypeOK
    <2>2. QED
      BY <2>1, ProbesFinite, FS_AddElement
  <1>2. ASSUME calls' = [calls EXCEPT ![c] = "idle"]
        PROVE  /\ Cardinality(Probes') \in Nat
               /\ Cardinality(Probes') + 1 >= Cardinality(Probes)
    <2>1. Probes' = Probes \ {c}
      BY <1>2 DEF Probes, TypeOK
    <2>2. CASE c \in Probes
      <3>1. Cardinality(Probes') = Cardinality(Probes) - 1 /\ Cardinality(Probes) # 0
        BY <2>1, <2>2, ProbesFinite, FS_RemoveElement, FS_EmptySet
      <3>2. QED
        BY <3>1, ProbesFinite
    <2>3. CASE c \notin Probes
      <3>1. Probes' = Probes
        BY <2>1, <2>3
      <3>2. QED
        BY <3>1, ProbesFinite
    <2>4. QED
      BY <2>2, <2>3
  <1>3. QED
    BY <1>1, <1>2

LEMMA ProbesAccountedStep ==
    ASSUME BreakerIInv, ProbesAccounted, [Next]_vars
    PROVE  ProbesAccounted'
  <1> DEFINE n == Cardinality(Probes)
             m == Cardinality(Probes')
  <1>1. /\ TypeOK /\ HalfOpenIsProbing
        /\ halfOpenCalls \in Nat /\ successCount \in Nat /\ n \in Nat
        /\ HalfOpenMaxCalls \in Nat
        /\ state = "HALF_OPEN" => successCount < HalfOpenMaxCalls
        /\ state = "HALF_OPEN" /\ ~unrecorded => halfOpenCalls <= successCount + n
    BY BreakerAssumption, ProbesFinite DEF BreakerIInv, TypeOK, ProbesAccounted, HalfOpenIsProbing
  <1>2. ASSUME NEW c \in Callers, Admit(c) PROVE ProbesAccounted'
    <2>1. CASE AdmitClosed(c)
      BY <2>1 DEF AdmitClosed, ProbesAccounted
    <2>2. CASE AdmitFirstProbe(c)
      <3>1. m = n + 1 /\ halfOpenCalls' = 1 /\ successCount' = 0
        BY <1>1, <2>2, ProbesMove DEF AdmitFirstProbe
      <3>2. QED
        BY <1>1, <3>1 DEF ProbesAccounted
    <2>3. CASE AdmitProbe(c)
      <3>1. /\ m = n + 1 /\ halfOpenCalls' = halfOpenCalls + 1
            /\ UNCHANGED <<state, successCount, unrecorded>>
        BY <1>1, <2>3, ProbesMove DEF AdmitProbe
      <3>2. QED
        BY <1>1, <3>1 DEF ProbesAccounted
    <2>4. QED
      BY <1>2, <2>1, <2>2, <2>3 DEF Admit
  <1>3. ASSUME NEW c \in Callers, RecordSuccess(c) PROVE ProbesAccounted'
    <2>1. m \in Nat /\ m + 1 >= n
      BY <1>1, <1>3, ProbesMove DEF RecordSuccess
    <2>2. CASE state = "HALF_OPEN" /\ successCount + 1 >= HalfOpenMaxCalls
      BY <1>3, <2>2 DEF RecordSuccess, ProbesAccounted
    <2>3. CASE state = "HALF_OPEN" /\ ~(successCount + 1 >= HalfOpenMaxCalls)
      <3>1. successCount' = successCount + 1 /\ UNCHANGED <<halfOpenCalls, unrecorded>>
        BY <1>1, <1>3, <2>3 DEF RecordSuccess, UpTo
      <3>2. QED
        BY <1>1, <2>1, <2>3, <3>1 DEF ProbesAccounted
    <2>4. CASE state # "HALF_OPEN"
      BY <1>3, <2>4 DEF RecordSuccess, ProbesAccounted
    <2>5. QED
      BY <2>2, <2>3, <2>4
  <1>4. ASSUME NEW c \in Callers, RecordFailure(c) PROVE ProbesAccounted'
    BY <1>4 DEF RecordFailure, ProbesAccounted
  <1>5. ASSUME Reset \/ TimeoutPasses PROVE ProbesAccounted'
    BY <1>5 DEF Reset, TimeoutPasses, ProbesAccounted
  <1>6. ASSUME UNCHANGED vars PROVE ProbesAccounted'
    BY <1>6 DEF vars, ProbesAccounted, Probes
  <1>7. ASSUME NEW c \in Callers, EndUnrecorded(c) PROVE ProbesAccounted'
    BY <1>7 DEF EndUnrecorded, ProbesAccounted
  <1>8. QED
    BY <1>2, <1>3, <1>4, <1>5, <1>6, <1>7 DEF Next, EndCall

\* As long as no call is cancelled or raises what the breaker does not expect, a
\* half-open circuit that is out of probes to hand out has one under way.
THEOREM NotWedged == Spec => []NeverWedged
  <1>1. Init => ProbesAccounted
    BY DEF Init, ProbesAccounted
  <1>2. BreakerIInv /\ ProbesAccounted /\ [Next]_vars => ProbesAccounted'
    BY ProbesAccountedStep
  <1>3. BreakerIInv /\ ProbesAccounted => NeverWedged
    <2> SUFFICES ASSUME BreakerIInv, ProbesAccounted, state = "HALF_OPEN", ~unrecorded,
                        halfOpenCalls >= HalfOpenMaxCalls, Probes = {}
                 PROVE  FALSE
      BY DEF NeverWedged
    <2>1. Cardinality(Probes) = 0
      BY FS_EmptySet
    <2>2. QED
      BY <2>1, BreakerAssumption DEF BreakerIInv, TypeOK, HalfOpenIsProbing, ProbesAccounted
  <1>4. QED
    BY <1>1, <1>2, <1>3, BreakerInductive, PTL DEF Spec

\* The breaker agrees with what its counters have seen, in every behaviour and
\* for all thresholds and callers.
THEOREM BreakerAgrees == Spec => []BreakerInvariant
  <1>1. TypeOK /\ OpenIffTripped /\ HalfOpenIsProbing /\ NeverWedged => BreakerInvariant
    BY DEF BreakerInvariant
  <1>2. QED
    BY <1>1, BreakerTypeCorrect, Tripping, Probing, NotWedged, PTL

-----------------------------------------------------------------------------
(***************************************************************************)
(* Bulkhead.  The inductive invariant says which calls stand in the line,  *)
(* once each, and keeps the counter within the number of jobs of the calls *)
(* that really wait: that bounds it from below.                            *)
(***************************************************************************)
JobStages == {"idle", "waiting", "granted", "running"}

\* The jobs of a state of the bulkhead in some stages, and a line of them.
JobsIn(jobs, stages) == {j \in Jobs : jobs[j] \in stages}

IsLine(jobs, line) ==
    /\ jobs \in [Jobs -> JobStages]
    /\ line \in Seq(Jobs)
    /\ \A i, k \in DOMAIN line : line[i] = line[k] => i = k
    /\ \A j \in Jobs : jobs[j] = "waiting" <=> j \in ToSet(line)

Queued == Cardinality(In({"waiting", "granted"}))

BulkIInv ==
    /\ IsLine(job, waiters)
    /\ permits \in Nat
    /\ PermitsAreKept
    /\ queueSize \in Int /\ queueSize <= MaxQueue
    /\ failures \in 0 .. MaxFailures /\ cancels \in 0 .. MaxCancels
    /\ Queued - failures <= queueSize /\ queueSize <= Queued + cancels
    /\ Queued <= queueSize + Cardinality(Jobs)

LEMMA BulkNumbers ==
    /\ IsFiniteSet(Jobs) /\ Cardinality(Jobs) \in Nat
    /\ MaxConcurrent \in Nat /\ MaxConcurrent > 0 /\ MaxQueue \in Nat /\ MaxQueue > 0
    /\ MaxFailures \in Nat /\ MaxCancels \in Nat
  BY BulkheadAssumption, FS_CardinalityType

LEMMA InIsJobsIn ==
    /\ \A stages : In(stages) = JobsIn(job, stages)
    /\ \A stages : In(stages)' = JobsIn(job', stages)
  BY DEF In, JobsIn

LEMMA JobsInFinite ==
    ASSUME NEW jobs, NEW stages
    PROVE  /\ IsFiniteSet(JobsIn(jobs, stages)) /\ Cardinality(JobsIn(jobs, stages)) \in Nat
           /\ Cardinality(JobsIn(jobs, stages)) <= Cardinality(Jobs)
  BY BulkNumbers, FS_Subset, FS_CardinalityType DEF JobsIn

LEMMA AtOrBelow == ASSUME NEW a \in Nat, NEW b \in Nat, a <= b PROVE a = b \/ a < b
  OBVIOUS

\* The least of three numbers.
LEMMA MinOfThree ==
    ASSUME NEW a \in Nat, NEW b \in Nat, NEW c \in Nat, NEW n, n = Min({a, b, c})
    PROVE  n \in Nat /\ n <= a /\ n <= b /\ n <= c /\ (n = a \/ n = b \/ n = c)
  <1>1. \E x \in {a, b, c} : \A y \in {a, b, c} : x <= y
    OBVIOUS
  <1>2. n \in {a, b, c} /\ \A y \in {a, b, c} : n <= y
    BY <1>1 DEF Min
  <1>3. QED
    BY <1>2

(***************************************************************************)
(* What the semaphore's hand-over does, whoever leaves or comes: n calls   *)
(* of the line get a permit, and none is free beside a line unless the     *)
(* hand-over was limited.                                                  *)
(***************************************************************************)
LEMMA HandOverDoes ==
    ASSUME NEW jobs, NEW line, IsLine(jobs, line), NEW free \in Nat, NEW most \in Nat,
           HandOver(jobs, line, free, most)
    PROVE  /\ IsLine(job', waiters')
           /\ permits' \in Nat
           /\ permits' + Cardinality(JobsIn(job', {"granted", "running"}))
                = free + Cardinality(JobsIn(jobs, {"granted", "running"}))
           /\ JobsIn(job', {"waiting", "granted"}) = JobsIn(jobs, {"waiting", "granted"})
           /\ \/ permits' = 0 \/ waiters' = <<>>
              \/ /\ most < free /\ most < Len(line)
                 /\ most > 0 => JobsIn(job', {"granted"}) # {}
  <1>0. /\ jobs \in [Jobs -> JobStages] /\ line \in Seq(Jobs)
        /\ Len(line) \in Nat /\ DOMAIN line = 1 .. Len(line)
        /\ \A i \in 1 .. Len(line) : line[i] \in Jobs
    BY LenProperties DEF IsLine
  <1>a. Min({most, free, Len(line)}) \in Nat
        /\ Min({most, free, Len(line)}) <= most
        /\ Min({most, free, Len(line)}) <= free
        /\ Min({most, free, Len(line)}) <= Len(line)
        /\ (\/ Min({most, free, Len(line)}) = most
            \/ Min({most, free, Len(line)}) = free
            \/ Min({most, free, Len(line)}) = Len(line))
    BY <1>0, MinOfThree
  <1>b. PICK n \in Nat :
           /\ n <= most /\ n <= free /\ n <= Len(line)
           /\ n = most \/ n = free \/ n = Len(line)
           /\ job' = [j \in Jobs |-> IF j \in ToSet(SubSeq(line, 1, n)) THEN "granted"
                                     ELSE jobs[j]]
           /\ waiters' = SubSeq(line, n + 1, Len(line))
           /\ permits' = free - n
    BY <1>a, Zenon DEF HandOver
  <1>1. n \in Nat /\ n <= most /\ n <= free /\ n <= Len(line)
    BY <1>b, Zenon
  <1>c. n = most \/ n = free \/ n = Len(line)
    BY <1>b, Zenon
  <1> DEFINE first == SubSeq(line, 1, n)
             G == ToSet(first)
             rest == SubSeq(line, n + 1, Len(line))
  <1>2. /\ job' = [j \in Jobs |-> IF j \in G THEN "granted" ELSE jobs[j]]
        /\ waiters' = rest /\ permits' = free - n
    BY <1>b, Zenon
  <1> HIDE DEF G, rest, first
  <1>3. /\ first \in Seq(Jobs) /\ Len(first) = n /\ DOMAIN first = 1 .. n
        /\ \A i \in 1 .. n : first[i] = line[i]
        /\ rest \in Seq(Jobs) /\ Len(rest) = Len(line) - n
        /\ DOMAIN rest = 1 .. Len(line) - n
        /\ \A i \in 1 .. Len(line) - n : rest[i] = line[n + i]
    <2>1. n \in 0 .. Len(line) /\ Len(line) \in Nat /\ line \in Seq(Jobs)
      BY <1>0, <1>1
    <2>2. QED
      <3>1. \A m \in Nat : m = Len(line) /\ n \in 0 .. m =>
               /\ SubSeq(line, 1, n) \in Seq(Jobs) /\ Len(SubSeq(line, 1, n)) = n
               /\ DOMAIN SubSeq(line, 1, n) = 1 .. n
               /\ \A i \in 1 .. n : SubSeq(line, 1, n)[i] = line[i]
               /\ SubSeq(line, n + 1, m) \in Seq(Jobs) /\ Len(SubSeq(line, n + 1, m)) = m - n
               /\ DOMAIN SubSeq(line, n + 1, m) = 1 .. m - n
               /\ \A i \in 1 .. m - n : SubSeq(line, n + 1, m)[i] = line[n + i]
        <4> SUFFICES ASSUME NEW m \in Nat, m = Len(line), n \in 0 .. m
                     PROVE  /\ SubSeq(line, 1, n) \in Seq(Jobs) /\ Len(SubSeq(line, 1, n)) = n
                            /\ DOMAIN SubSeq(line, 1, n) = 1 .. n
                            /\ \A i \in 1 .. n : SubSeq(line, 1, n)[i] = line[i]
                            /\ SubSeq(line, n + 1, m) \in Seq(Jobs)
                            /\ Len(SubSeq(line, n + 1, m)) = m - n
                            /\ DOMAIN SubSeq(line, n + 1, m) = 1 .. m - n
                            /\ \A i \in 1 .. m - n : SubSeq(line, n + 1, m)[i] = line[n + i]
          OBVIOUS
        <4>1. QED
          BY <2>1, CutProperties
      <3>2. QED
        BY <2>1, <3>1, Zenon DEF first, rest
  <1>4. ToSet(rest) = {rest[i] : i \in 1 .. Len(line) - n}
    BY <1>3 DEF ToSet
  <1>5. /\ \A x \in G : \E i \in 1 .. n : x = line[i]
        /\ \A i \in 1 .. n : line[i] \in G
        /\ G \subseteq Jobs
    <2>1. G = {first[i] : i \in 1 .. n}
      BY <1>3 DEF ToSet, G
    <2>2. \A i \in 1 .. n : first[i] = line[i] /\ line[i] \in Jobs
      BY <1>0, <1>1, <1>3
    <2>3. QED
      BY <2>1, <2>2
  <1>6. /\ \A x \in ToSet(rest) : \E i \in n + 1 .. Len(line) : x = line[i]
        /\ \A i \in n + 1 .. Len(line) : line[i] \in ToSet(rest)
    <2>1. \A i \in 1 .. Len(line) - n : n + i \in n + 1 .. Len(line)
      BY <1>0, <1>1
    <2>2. \A i \in n + 1 .. Len(line) : i - n \in 1 .. Len(line) - n /\ n + (i - n) = i
      BY <1>0, <1>1
    <2>3. \A i \in 1 .. Len(line) - n : rest[i] = line[n + i]
      BY <1>3
    <2>4. \A x \in ToSet(rest) : \E i \in n + 1 .. Len(line) : x = line[i]
      BY <2>1, <2>3, <1>4
    <2>5. ASSUME NEW i \in n + 1 .. Len(line) PROVE line[i] \in ToSet(rest)
      <3>1. PICK k \in 1 .. Len(line) - n : n + k = i
        BY <2>2
      <3>2. rest[k] = line[i]
        BY <2>3, <3>1
      <3>3. QED
        BY <3>2, <1>4
    <2>6. QED
      BY <2>4, <2>5
  <1>7. \A x \in G : jobs[x] = "waiting"
    BY <1>0, <1>1, <1>5 DEF IsLine, ToSet
  <1>8. Cardinality(G) = n /\ IsFiniteSet(G)
    <2>1. \A i, k \in DOMAIN first : first[i] = first[k] => i = k
      BY <1>0, <1>1, <1>3 DEF IsLine
    <2>2. Cardinality(ToSet(first)) = n
      BY <2>1, <1>3, DistinctCardinality
    <2>3. QED
      BY <2>2, <1>5, BulkNumbers, FS_Subset DEF G
  <1>9. JobsIn(job', {"waiting", "granted"}) = JobsIn(jobs, {"waiting", "granted"})
    BY <1>2, <1>7 DEF JobsIn
  <1>10. /\ JobsIn(job', {"granted", "running"}) = JobsIn(jobs, {"granted", "running"}) \cup G
         /\ JobsIn(jobs, {"granted", "running"}) \cap G = {}
    BY <1>2, <1>5, <1>7 DEF JobsIn
  <1>11. Cardinality(JobsIn(job', {"granted", "running"}))
           = Cardinality(JobsIn(jobs, {"granted", "running"})) + n
    BY <1>8, <1>10, JobsInFinite, DisjointUnion
  <1>12. permits' \in Nat /\ permits' = free - n
    BY <1>1, <1>2
  <1>13. IsLine(job', waiters')
    <2>1. job' \in [Jobs -> JobStages]
      BY <1>0, <1>2 DEF JobStages
    <2>2. \A i, k \in DOMAIN waiters' : waiters'[i] = waiters'[k] => i = k
      <3> SUFFICES ASSUME NEW i \in 1 .. Len(line) - n, NEW k \in 1 .. Len(line) - n,
                          line[n + i] = line[n + k]
                   PROVE  i = k
        <4>1. DOMAIN waiters' = 1 .. Len(line) - n
          BY <1>2, <1>3
        <4>2. \A i \in 1 .. Len(line) - n : waiters'[i] = line[n + i]
          BY <1>2, <1>3
        <4>3. QED
          BY <4>1, <4>2
      <3>1. n + i \in DOMAIN line /\ n + k \in DOMAIN line
        BY <1>0, <1>1
      <3>2. n + i = n + k
        BY <3>1 DEF IsLine
      <3>3. QED
        BY <3>2, <1>1
    <2>3. ASSUME NEW j \in Jobs PROVE job'[j] = "waiting" <=> j \in ToSet(waiters')
      <3>1. job'[j] = "waiting" <=> jobs[j] = "waiting" /\ j \notin G
        BY <1>2
      <3>2. jobs[j] = "waiting" <=> \E i \in 1 .. Len(line) : j = line[i]
        BY <1>0 DEF IsLine, ToSet
      <3>3. \A i, k \in 1 .. Len(line) : line[i] = line[k] => i = k
        BY <1>0 DEF IsLine
      <3>4. j \in G <=> \E i \in 1 .. n : j = line[i]
        BY <1>5
      <3>5. j \in ToSet(waiters') <=> \E i \in n + 1 .. Len(line) : j = line[i]
        BY <1>2, <1>6
      <3>6. \A i \in 1 .. Len(line) : i \in 1 .. n <=> i \notin n + 1 .. Len(line)
        BY <1>0, <1>1
      <3>7. /\ \A i \in 1 .. n : i \in 1 .. Len(line)
            /\ \A i \in n + 1 .. Len(line) : i \in 1 .. Len(line)
        BY <1>0, <1>1
      <3>8. QED
        BY <3>1, <3>2, <3>3, <3>4, <3>5, <3>6, <3>7
    <2>4. QED
      BY <2>1, <2>2, <2>3, <1>2, <1>3 DEF IsLine
  <1>14. \/ permits' = 0 \/ waiters' = <<>>
         \/ /\ most < free /\ most < Len(line)
            /\ most > 0 => JobsIn(job', {"granted"}) # {}
    <2>1. n = free => permits' = 0
      BY <1>12, <1>1
    <2>2. n = Len(line) => waiters' = <<>>
      <3>1. n = Len(line) => Len(rest) = 0
        BY <1>0, <1>1, <1>3
      <3>2. QED
        BY <3>1, <1>2, <1>3, EmptySeq
    <2>3. n > 0 => JobsIn(job', {"granted"}) # {}
      <3> SUFFICES ASSUME n > 0 PROVE JobsIn(job', {"granted"}) # {}
        OBVIOUS
      <3>1. line[1] \in G /\ line[1] \in Jobs
        BY <1>1, <1>5
      <3>2. QED
        BY <3>1, <1>2 DEF JobsIn
    <2>4. (n = free \/ n < free) /\ (n = Len(line) \/ n < Len(line))
      BY <1>0, <1>1, AtOrBelow, Zenon
    <2>5. QED
      BY <2>1, <2>2, <2>3, <2>4, <1>c, Zenon
  <1>15. QED
    BY <1>9, <1>11, <1>12, <1>13, <1>14, <1>1, JobsInFinite

\* A call that changes its stage joins or leaves the sets of calls.
LEMMA OneMoves ==
    ASSUME job \in [Jobs -> JobStages], NEW j \in Jobs, NEW to \in JobStages, NEW stages
    PROVE  LET moved == [job EXCEPT ![j] = to]
               before == Cardinality(JobsIn(job, stages))
               after == Cardinality(JobsIn(moved, stages))
           IN  /\ moved \in [Jobs -> JobStages]
               /\ before \in Nat /\ after \in Nat
               /\ (job[j] \in stages <=> to \in stages) => after = before
               /\ job[j] \notin stages /\ to \in stages => after = before + 1
               /\ job[j] \in stages /\ to \notin stages => after = before - 1
  <1> DEFINE moved == [job EXCEPT ![j] = to]
             B == JobsIn(job, stages)
             A == JobsIn(moved, stages)
  <1>1. moved \in [Jobs -> JobStages]
    OBVIOUS
  <1>2. IsFiniteSet(B) /\ IsFiniteSet(A) /\ Cardinality(B) \in Nat /\ Cardinality(A) \in Nat
    BY JobsInFinite
  <1>3. (job[j] \in stages <=> to \in stages) => A = B
    BY DEF JobsIn
  <1>4. job[j] \notin stages /\ to \in stages => A = B \cup {j} /\ j \notin B
    BY DEF JobsIn
  <1>5. job[j] \in stages /\ to \notin stages => A = B \ {j} /\ j \in B
    BY DEF JobsIn
  <1> HIDE DEF A, B, moved
  <1>6. job[j] \notin stages /\ to \in stages => Cardinality(A) = Cardinality(B) + 1
    BY <1>2, <1>4, FS_AddElement
  <1>7. job[j] \in stages /\ to \notin stages => Cardinality(A) = Cardinality(B) - 1
    BY <1>2, <1>5, FS_RemoveElement
  <1>8. QED
    BY <1>1, <1>2, <1>3, <1>6, <1>7 DEF A, B, moved

LEMMA BulkInitial == BulkInit => BulkIInv
  <1> SUFFICES ASSUME BulkInit PROVE BulkIInv
    OBVIOUS
  <1> USE BulkNumbers DEF BulkInit
  <1>1. JobsIn(job, {"granted", "running"}) = {} /\ JobsIn(job, {"waiting", "granted"}) = {}
        /\ \A j \in Jobs : job[j] # "waiting"
    BY DEF JobsIn
  <1>2. Queued = 0 /\ Cardinality(In({"granted", "running"})) = 0
    BY <1>1, FS_EmptySet, InIsJobsIn DEF Queued
  <1>3. IsLine(job, waiters)
    <2>1. job \in [Jobs -> JobStages]
      BY DEF JobStages
    <2>2. waiters \in Seq(Jobs) /\ DOMAIN waiters = {} /\ ToSet(waiters) = {}
      BY DEF ToSet
    <2>3. QED
      BY <1>1, <2>1, <2>2 DEF IsLine
  <1>4. PermitsAreKept
    BY <1>2 DEF PermitsAreKept
  <1>5. QED
    BY <1>2, <1>3, <1>4 DEF BulkIInv

LEMMA BulkFacts ==
    ASSUME BulkIInv
    PROVE  /\ job \in [Jobs -> JobStages] /\ waiters \in Seq(Jobs)
           /\ permits \in Nat /\ queueSize \in Int /\ failures \in Nat /\ cancels \in Nat
           /\ Queued \in Nat /\ Queued <= Cardinality(Jobs)
           /\ Queued = Cardinality(JobsIn(job, {"waiting", "granted"}))
           /\ Queued' = Cardinality(JobsIn(job', {"waiting", "granted"}))
           /\ permits + Cardinality(JobsIn(job, {"granted", "running"})) = MaxConcurrent
           /\ permits > 0 /\ waiters # <<>> => JobsIn(job, {"granted"}) # {}
  BY InIsJobsIn, JobsInFinite, BulkNumbers
  DEF BulkIInv, IsLine, PermitsAreKept, Queued

\* Permits and line are in order again after any hand-over that wakes as many as
\* it may: what remains to be shown of a step is what it does to the counter.
LEMMA HandOverKeeps ==
    ASSUME NEW jobs, NEW line, IsLine(jobs, line), NEW free \in Nat, NEW most \in Nat,
           HandOver(jobs, line, free, most),
           free + Cardinality(JobsIn(jobs, {"granted", "running"})) = MaxConcurrent,
           most > 0 \/ most >= free \/ most >= Len(line)
    PROVE  /\ IsLine(job', waiters') /\ permits' \in Nat /\ PermitsAreKept'
           /\ Queued' = Cardinality(JobsIn(jobs, {"waiting", "granted"}))
  <1>1. /\ IsLine(job', waiters') /\ permits' \in Nat
        /\ permits' + Cardinality(JobsIn(job', {"granted", "running"})) = MaxConcurrent
        /\ JobsIn(job', {"waiting", "granted"}) = JobsIn(jobs, {"waiting", "granted"})
    BY HandOverDoes
  <1>2. Len(line) \in Nat
    BY LenProperties DEF IsLine
  <1>3. ~ (most < free /\ most < Len(line)) \/ most > 0
    BY <1>2
  <1>4. permits' > 0 /\ waiters' # <<>> => JobsIn(job', {"granted"}) # {}
    <2>1. ~ (permits' = 0 /\ permits' > 0)
      BY <1>1
    <2>2. QED
      BY HandOverDoes, <1>3, <2>1, Zenon
  <1>5. QED
    BY <1>1, <1>4, InIsJobsIn DEF PermitsAreKept, Queued

\* What OneMoves says of the two sets of the bulkhead.
LEMMA StageChange ==
    ASSUME BulkIInv, NEW j \in Jobs, NEW to \in JobStages
    PROVE  LET moved == [job EXCEPT ![j] = to]
               held == Cardinality(JobsIn(job, {"granted", "running"}))
               holds == Cardinality(JobsIn(moved, {"granted", "running"}))
               wait == Cardinality(JobsIn(moved, {"waiting", "granted"}))
           IN  /\ moved \in [Jobs -> JobStages]
               /\ held \in Nat /\ holds \in Nat /\ wait \in Nat
               /\ (job[j] \in {"granted", "running"} <=> to \in {"granted", "running"})
                    => holds = held
               /\ job[j] \notin {"granted", "running"} /\ to \in {"granted", "running"}
                    => holds = held + 1
               /\ job[j] \in {"granted", "running"} /\ to \notin {"granted", "running"}
                    => holds = held - 1
               /\ (job[j] \in {"waiting", "granted"} <=> to \in {"waiting", "granted"})
                    => wait = Queued
               /\ job[j] \notin {"waiting", "granted"} /\ to \in {"waiting", "granted"}
                    => wait = Queued + 1
               /\ job[j] \in {"waiting", "granted"} /\ to \notin {"waiting", "granted"}
                    => wait = Queued - 1
  <1>1. job \in [Jobs -> JobStages] /\ Queued = Cardinality(JobsIn(job, {"waiting", "granted"}))
    BY BulkFacts
  <1> DEFINE GR == {"granted", "running"}
             WG == {"waiting", "granted"}
             moved == [job EXCEPT ![j] = to]
  <1>2. /\ moved \in [Jobs -> JobStages]
        /\ Cardinality(JobsIn(job, GR)) \in Nat /\ Cardinality(JobsIn(moved, GR)) \in Nat
        /\ (job[j] \in GR <=> to \in GR)
             => Cardinality(JobsIn(moved, GR)) = Cardinality(JobsIn(job, GR))
        /\ job[j] \notin GR /\ to \in GR
             => Cardinality(JobsIn(moved, GR)) = Cardinality(JobsIn(job, GR)) + 1
        /\ job[j] \in GR /\ to \notin GR
             => Cardinality(JobsIn(moved, GR)) = Cardinality(JobsIn(job, GR)) - 1
    <2> HIDE DEF GR
    <2>1. QED
      BY <1>1, OneMoves
  <1>3. /\ Cardinality(JobsIn(moved, WG)) \in Nat
        /\ (job[j] \in WG <=> to \in WG)
             => Cardinality(JobsIn(moved, WG)) = Cardinality(JobsIn(job, WG))
        /\ job[j] \notin WG /\ to \in WG
             => Cardinality(JobsIn(moved, WG)) = Cardinality(JobsIn(job, WG)) + 1
        /\ job[j] \in WG /\ to \notin WG
             => Cardinality(JobsIn(moved, WG)) = Cardinality(JobsIn(job, WG)) - 1
    <2> HIDE DEF WG
    <2>1. QED
      BY <1>1, OneMoves
  <1> HIDE DEF moved
  <1>4. QED
    BY <1>1, <1>2, <1>3, Zenon DEF moved

\* A call outside the line may change its stage, to one outside the line.
LEMMA LineKept ==
    ASSUME BulkIInv, NEW j \in Jobs, job[j] # "waiting",
           NEW to \in JobStages, to # "waiting"
    PROVE  IsLine([job EXCEPT ![j] = to], waiters)
  BY DEF BulkIInv, IsLine

LEMMA BulkAtOnce ==
    ASSUME BulkIInv, NEW j \in Jobs, ExecuteAtOnce(j)
    PROVE  BulkIInv'
  <1> DEFINE moved == [job EXCEPT ![j] = "running"]
  <1>1. /\ job[j] = "idle" /\ job' = moved /\ permits > 0 /\ permits' = permits - 1
        /\ In({"waiting", "granted"}) = {}
        /\ waiters' = waiters /\ queueSize' = queueSize
        /\ failures' = failures /\ cancels' = cancels
    BY DEF ExecuteAtOnce, Unlocked
  <1>2. JobsIn(job, {"waiting", "granted"}) = {}
    BY <1>1, InIsJobsIn
  <1>3. /\ Cardinality(JobsIn(moved, {"granted", "running"}))
              = Cardinality(JobsIn(job, {"granted", "running"})) + 1
        /\ Cardinality(JobsIn(moved, {"waiting", "granted"})) = Queued
        /\ Cardinality(JobsIn(job, {"granted", "running"})) \in Nat
    BY <1>1, StageChange DEF JobStages
  <1>4. IsLine(job', waiters')
    <2>1. IsLine(moved, waiters)
      BY <1>1, LineKept DEF JobStages
    <2>2. QED
      BY <2>1, <1>1
  <1>5. permits' \in Nat /\ Queued' = Queued
        /\ permits' + Cardinality(JobsIn(job', {"granted", "running"})) = MaxConcurrent
    BY <1>1, <1>3, BulkFacts
  <1>6. waiters' = <<>>
    <2>1. ToSet(waiters) = {}
      BY <1>2 DEF BulkIInv, IsLine, JobsIn, ToSet
    <2>2. waiters \in Seq(Jobs)
      BY BulkFacts
    <2>3. QED
      BY <1>1, <2>1, <2>2, EmptySeq, LenProperties DEF ToSet
  <1>7. PermitsAreKept'
    BY <1>5, <1>6, InIsJobsIn DEF PermitsAreKept
  <1>8. QED
    BY <1>1, <1>4, <1>5, <1>7 DEF BulkIInv

LEMMA BulkWaits ==
    ASSUME BulkIInv, NEW j \in Jobs, ExecuteWaits(j)
    PROVE  BulkIInv'
  <1> DEFINE moved == [job EXCEPT ![j] = "waiting"]
  <1>1. /\ job[j] = "idle" /\ job' = moved /\ permits' = permits
        /\ ~ (queueSize >= MaxQueue)
        /\ permits > 0 => In({"waiting", "granted"}) # {}
        /\ waiters' = Append(waiters, j) /\ queueSize' = queueSize + 1
        /\ failures' = failures /\ cancels' = cancels
    BY DEF ExecuteWaits, Unlocked, QueueFull
  <1>3. /\ moved \in [Jobs -> JobStages]
        /\ Cardinality(JobsIn(moved, {"granted", "running"}))
              = Cardinality(JobsIn(job, {"granted", "running"}))
        /\ Cardinality(JobsIn(moved, {"waiting", "granted"})) = Queued + 1
        /\ Cardinality(JobsIn(moved, {"waiting", "granted"})) \in Nat
    BY <1>1, StageChange DEF JobStages
  <1>4. IsLine(job', waiters')
    <2> DEFINE l == Len(waiters)
    <2>1. /\ waiters \in Seq(Jobs) /\ l \in Nat /\ DOMAIN waiters = 1 .. l
          /\ \A i \in 1 .. l : waiters[i] \in Jobs
      BY BulkFacts, LenProperties
    <2>2. /\ waiters' \in Seq(Jobs) /\ Len(waiters') = l + 1
          /\ \A i \in 1 .. l : waiters'[i] = waiters[i]
          /\ waiters'[l + 1] = j
      BY <1>1, <2>1, AppendProperties
    <2>3. DOMAIN waiters' = 1 .. l + 1
      BY <2>2, LenProperties
    <2>4. /\ \A i, k \in 1 .. l : waiters[i] = waiters[k] => i = k
          /\ \A x \in Jobs : job[x] = "waiting" <=> \E i \in 1 .. l : x = waiters[i]
      BY <2>1 DEF BulkIInv, IsLine, ToSet
    <2> HIDE DEF l
    <2>5. \A i \in 1 .. l : waiters[i] # j
      BY <1>1, <2>4
    <2>6. \A i \in 1 .. l + 1 : i \in 1 .. l \/ i = l + 1
      BY <2>1
    <2>7. \A i, k \in 1 .. l + 1 : waiters'[i] = waiters'[k] => i = k
      BY <2>2, <2>4, <2>5, <2>6
    <2>8. \A x \in Jobs : job'[x] = "waiting" <=> \E i \in 1 .. l + 1 : x = waiters'[i]
      <3> SUFFICES ASSUME NEW x \in Jobs
                   PROVE  job'[x] = "waiting" <=> \E i \in 1 .. l + 1 : x = waiters'[i]
        OBVIOUS
      <3>1. \A i \in 1 .. l : i \in 1 .. l + 1
        BY <2>1
      <3>2. l + 1 \in 1 .. l + 1
        BY <2>1
      <3>3. CASE x = j
        BY <3>3, <1>1, <1>3, <2>2, <3>2
      <3>4. CASE x # j
        <4>1. job'[x] = job[x]
          BY <3>4, <1>1, BulkFacts
        <4>2. (\E i \in 1 .. l : x = waiters[i]) <=> \E i \in 1 .. l + 1 : x = waiters'[i]
          BY <3>4, <3>1, <2>2, <2>6
        <4>3. QED
          BY <4>1, <4>2, <2>4
      <3>5. QED
        BY <3>3, <3>4
    <2>9. job' \in [Jobs -> JobStages]
      BY <1>1, <1>3
    <2>10. QED
      BY <2>2, <2>3, <2>7, <2>8, <2>9 DEF IsLine, ToSet
  <1>5. /\ permits' \in Nat /\ Queued' = Queued + 1
        /\ permits' + Cardinality(JobsIn(job', {"granted", "running"})) = MaxConcurrent
    BY <1>1, <1>3, BulkFacts
  <1>6. permits' > 0 => JobsIn(job', {"granted"}) # {}
    <2> SUFFICES ASSUME permits > 0 PROVE JobsIn(moved, {"granted"}) # {}
      BY <1>1
    <2>1. JobsIn(job, {"waiting", "granted"}) # {}
      BY <1>1, InIsJobsIn
    <2>2. JobsIn(job, {"granted"}) # {} \/ waiters # <<>>
      BY <2>1 DEF JobsIn, BulkIInv, IsLine, ToSet
    <2>3. PICK k \in Jobs : job[k] = "granted"
      BY <2>2, BulkFacts DEF JobsIn
    <2>4. moved[k] = "granted"
      BY <2>3, <1>1, BulkFacts
    <2>5. QED
      BY <2>4 DEF JobsIn
  <1>7. PermitsAreKept'
    BY <1>5, <1>6, InIsJobsIn DEF PermitsAreKept
  <1>8. queueSize' \in Int /\ queueSize' <= MaxQueue
        /\ Queued' - failures' <= queueSize' /\ queueSize' <= Queued' + cancels'
        /\ Queued' <= queueSize' + Cardinality(Jobs)
    BY <1>1, <1>5, BulkNumbers, BulkFacts DEF BulkIInv
  <1>9. QED
    BY <1>1, <1>4, <1>5, <1>7, <1>8 DEF BulkIInv

LEMMA BulkResumes ==
    ASSUME BulkIInv, NEW j \in Jobs, JobResumes(j)
    PROVE  BulkIInv'
  <1> DEFINE moved == [job EXCEPT ![j] = "running"]
  <1>1. /\ job[j] = "granted" /\ HandOver(moved, waiters, permits, Len(waiters))
        /\ queueSize' = queueSize - 1 /\ failures' = failures /\ cancels' = cancels
    BY DEF JobResumes
  <1>2. /\ Cardinality(JobsIn(moved, {"granted", "running"}))
              = Cardinality(JobsIn(job, {"granted", "running"}))
        /\ Cardinality(JobsIn(moved, {"waiting", "granted"})) = Queued - 1
    BY <1>1, StageChange DEF JobStages
  <1>3. IsLine(moved, waiters)
    BY <1>1, LineKept DEF JobStages
  <1>4. Len(waiters) \in Nat
    BY BulkFacts, LenProperties
  <1> HIDE DEF moved
  <1>5. /\ IsLine(job', waiters') /\ permits' \in Nat /\ PermitsAreKept'
        /\ Queued' = Queued - 1
    <2>1. /\ permits + Cardinality(JobsIn(moved, {"granted", "running"})) = MaxConcurrent
          /\ permits \in Nat /\ Len(waiters) >= Len(waiters)
      BY <1>2, <1>4, BulkFacts
    <2>2. QED
      BY <1>1, <1>2, <1>3, <1>4, <2>1, HandOverKeeps
  <1>6. queueSize' \in Int /\ queueSize' <= MaxQueue
        /\ Queued' - failures' <= queueSize' /\ queueSize' <= Queued' + cancels'
        /\ Queued' <= queueSize' + Cardinality(Jobs)
    BY <1>1, <1>5, BulkNumbers, BulkFacts DEF BulkIInv
  <1>7. QED
    BY <1>1, <1>5, <1>6 DEF BulkIInv

\* A call that ran gives its permit to the first of the line.
LEMMA Releasing ==
    ASSUME BulkIInv, NEW j \in Jobs, job[j] = "running", Release(j)
    PROVE  /\ IsLine(job', waiters') /\ permits' \in Nat /\ PermitsAreKept'
           /\ Queued' = Queued
  <1> DEFINE moved == [job EXCEPT ![j] = "idle"]
  <1>1. HandOver(moved, waiters, permits + 1, 1)
    BY DEF Release
  <1>2. /\ Cardinality(JobsIn(moved, {"granted", "running"}))
              = Cardinality(JobsIn(job, {"granted", "running"})) - 1
        /\ Cardinality(JobsIn(moved, {"waiting", "granted"})) = Queued
        /\ Cardinality(JobsIn(job, {"granted", "running"})) \in Nat
    BY StageChange DEF JobStages
  <1>3. IsLine(moved, waiters)
    BY LineKept DEF JobStages
  <1> HIDE DEF moved
  <1>4. /\ (permits + 1) + Cardinality(JobsIn(moved, {"granted", "running"})) = MaxConcurrent
        /\ permits + 1 \in Nat
    BY <1>2, BulkFacts
  <1>5. QED
    BY <1>1, <1>2, <1>3, <1>4, HandOverKeeps

LEMMA BulkEnds ==
    ASSUME BulkIInv, NEW j \in Jobs, FunctionEnds(j)
    PROVE  BulkIInv'
  BY Releasing DEF FunctionEnds, BulkIInv

LEMMA BulkFails ==
    ASSUME BulkIInv, NEW j \in Jobs, FunctionFails(j)
    PROVE  BulkIInv'
  <1>1. /\ job[j] = "running" /\ failures < MaxFailures /\ Release(j)
        /\ queueSize' = Max({0, queueSize - 1})
        /\ failures' = failures + 1 /\ cancels' = cancels
    BY DEF FunctionFails
  <1>2. /\ IsLine(job', waiters') /\ permits' \in Nat /\ PermitsAreKept'
        /\ Queued' = Queued
    BY <1>1, Releasing
  <1>3. queueSize' = IF queueSize >= 1 THEN queueSize - 1 ELSE 0
    <2>1. /\ queueSize \in Int
          /\ \E x \in {0, queueSize - 1} : \A y \in {0, queueSize - 1} : x >= y
      BY BulkFacts
    <2>2. queueSize' \in {0, queueSize - 1} /\ \A y \in {0, queueSize - 1} : queueSize' >= y
      BY <1>1, <2>1 DEF Max
    <2>3. QED
      BY <2>1, <2>2
  <1>4. queueSize' \in Int /\ queueSize' <= MaxQueue
    BY <1>3, BulkNumbers, BulkFacts DEF BulkIInv
  <1>5. Queued' - failures' <= queueSize'
    BY <1>1, <1>2, <1>3, BulkFacts DEF BulkIInv
  <1>6. queueSize' <= Queued' + cancels'
    BY <1>1, <1>2, <1>3, BulkFacts DEF BulkIInv
  <1>7. Queued' <= queueSize' + Cardinality(Jobs)
    BY <1>2, <1>3, BulkFacts, BulkNumbers DEF BulkIInv
  <1>8. failures' \in 0 .. MaxFailures /\ cancels' \in 0 .. MaxCancels
    BY <1>1, BulkNumbers, BulkFacts DEF BulkIInv
  <1>9. QED
    BY <1>2, <1>4, <1>5, <1>6, <1>7, <1>8 DEF BulkIInv

LEMMA BulkCancelsGranted ==
    ASSUME BulkIInv, NEW j \in Jobs, CancelGranted(j)
    PROVE  BulkIInv'
  <1> DEFINE moved == [job EXCEPT ![j] = "idle"]
  <1>1. /\ job[j] = "granted" /\ HandOver(moved, waiters, permits + 1, permits + 1)
        /\ cancels < MaxCancels /\ cancels' = cancels + 1
        /\ queueSize' = queueSize /\ failures' = failures
    BY DEF CancelGranted
  <1>2. /\ Cardinality(JobsIn(moved, {"granted", "running"}))
              = Cardinality(JobsIn(job, {"granted", "running"})) - 1
        /\ Cardinality(JobsIn(moved, {"waiting", "granted"})) = Queued - 1
        /\ Cardinality(JobsIn(job, {"granted", "running"})) \in Nat
    BY <1>1, StageChange DEF JobStages
  <1>3. IsLine(moved, waiters)
    BY <1>1, LineKept DEF JobStages
  <1> HIDE DEF moved
  <1>4. /\ (permits + 1) + Cardinality(JobsIn(moved, {"granted", "running"})) = MaxConcurrent
        /\ permits + 1 \in Nat /\ permits + 1 > 0
    BY <1>2, BulkFacts
  <1>5. /\ IsLine(job', waiters') /\ permits' \in Nat /\ PermitsAreKept'
        /\ Queued' = Queued - 1
    BY <1>1, <1>2, <1>3, <1>4, HandOverKeeps
  <1>6. queueSize' \in Int /\ queueSize' <= MaxQueue
        /\ Queued' - failures' <= queueSize' /\ queueSize' <= Queued' + cancels'
        /\ Queued' <= queueSize' + Cardinality(Jobs) /\ cancels' \in 0 .. MaxCancels
    BY <1>1, <1>5, BulkNumbers, BulkFacts DEF BulkIInv
  <1>7. QED
    BY <1>1, <1>5, <1>6 DEF BulkIInv

LEMMA BulkCancelsWaiting ==
    ASSUME BulkIInv, NEW j \in Jobs, CancelWaiting(j)
    PROVE  BulkIInv'
  <1> DEFINE moved == [job EXCEPT ![j] = "idle"]
  <1>1. PICK p \in DOMAIN waiters :
           waiters[p] = j /\ HandOver(moved, RemoveAt(waiters, p), permits, permits)
    BY DEF CancelWaiting
  <1>2. /\ job[j] = "waiting" /\ cancels < MaxCancels /\ cancels' = cancels + 1
        /\ queueSize' = queueSize /\ failures' = failures
    BY DEF CancelWaiting
  <1>3. /\ Cardinality(JobsIn(moved, {"granted", "running"}))
              = Cardinality(JobsIn(job, {"granted", "running"}))
        /\ Cardinality(JobsIn(moved, {"waiting", "granted"})) = Queued - 1
        /\ moved \in [Jobs -> JobStages]
    BY <1>2, StageChange DEF JobStages
  <1>4. IsLine(moved, RemoveAt(waiters, p))
    <2> DEFINE l == Len(waiters)
               r == RemoveAt(waiters, p)
    <2>1. /\ waiters \in Seq(Jobs) /\ l \in Nat /\ DOMAIN waiters = 1 .. l /\ p \in 1 .. l
      BY BulkFacts, LenProperties
    <2>2. /\ r \in Seq(Jobs) /\ DOMAIN r = 1 .. l - 1
          /\ \A i \in 1 .. l - 1 : r[i] = IF i < p THEN waiters[i] ELSE waiters[i + 1]
      BY <2>1, RemoveAtProperties
    <2>3. /\ \A i, k \in 1 .. l : waiters[i] = waiters[k] => i = k
          /\ \A x \in Jobs : job[x] = "waiting" <=> \E i \in 1 .. l : x = waiters[i]
      BY <2>1 DEF BulkIInv, IsLine, ToSet
    <2> HIDE DEF l, r
    <2> DEFINE from(i) == IF i < p THEN i ELSE i + 1
    <2>4. \A i \in 1 .. l - 1 : from(i) \in 1 .. l /\ from(i) # p
      BY <2>1
    <2>5. \A i, k \in 1 .. l - 1 : from(i) = from(k) => i = k
      BY <2>1
    <2>6. \A i \in 1 .. l : i # p => \E k \in 1 .. l - 1 : from(k) = i
      <3> SUFFICES ASSUME NEW i \in 1 .. l, i # p PROVE \E k \in 1 .. l - 1 : from(k) = i
        OBVIOUS
      <3>1. CASE i < p
        <4>1. i \in 1 .. l - 1 /\ from(i) = i
          BY <3>1, <2>1
        <4>2. QED
          BY <4>1
      <3>2. CASE i > p
        <4>1. i - 1 \in 1 .. l - 1 /\ from(i - 1) = i
          BY <3>2, <2>1
        <4>2. QED
          BY <4>1
      <3>3. QED
        BY <3>1, <3>2, <2>1
    <2>7. \A i \in 1 .. l - 1 : r[i] = waiters[from(i)]
      BY <2>2
    <2> HIDE DEF from
    <2>8. \A i, k \in 1 .. l - 1 : r[i] = r[k] => i = k
      BY <2>3, <2>4, <2>5, <2>7
    <2>9. ASSUME NEW x \in Jobs
          PROVE  moved[x] = "waiting" <=> \E i \in 1 .. l - 1 : x = r[i]
      <3>1. CASE x = j
        <4>1. moved[x] = "idle"
          BY <3>1, BulkFacts
        <4>2. \A i \in 1 .. l - 1 : r[i] # j
          BY <1>1, <2>1, <2>3, <2>4, <2>7
        <4>3. QED
          BY <4>1, <4>2, <3>1
      <3>2. CASE x # j
        <4>1. moved[x] = job[x]
          BY <3>2, BulkFacts
        <4>2. (\E i \in 1 .. l : x = waiters[i]) => \E i \in 1 .. l - 1 : x = r[i]
          BY <3>2, <1>1, <2>6, <2>7
        <4>3. (\E i \in 1 .. l - 1 : x = r[i]) => \E i \in 1 .. l : x = waiters[i]
          BY <2>4, <2>7
        <4>4. QED
          BY <4>1, <4>2, <4>3, <2>3
      <3>3. QED
        BY <3>1, <3>2
    <2>10. QED
      BY <1>3, <2>2, <2>8, <2>9 DEF IsLine, ToSet, r
  <1> HIDE DEF moved
  <1>5. /\ permits + Cardinality(JobsIn(moved, {"granted", "running"})) = MaxConcurrent
        /\ permits \in Nat /\ permits >= permits
    BY <1>3, BulkFacts
  <1>6. /\ IsLine(job', waiters') /\ permits' \in Nat /\ PermitsAreKept'
        /\ Queued' = Queued - 1
    BY <1>1, <1>3, <1>4, <1>5, HandOverKeeps
  <1>7. queueSize' \in Int /\ queueSize' <= MaxQueue
        /\ Queued' - failures' <= queueSize' /\ queueSize' <= Queued' + cancels'
        /\ Queued' <= queueSize' + Cardinality(Jobs) /\ cancels' \in 0 .. MaxCancels
    BY <1>2, <1>6, BulkNumbers, BulkFacts DEF BulkIInv
  <1>8. QED
    BY <1>2, <1>6, <1>7 DEF BulkIInv

LEMMA BulkStep == BulkIInv /\ [BulkNext]_bulkVars => BulkIInv'
  <1> SUFFICES ASSUME BulkIInv, [BulkNext]_bulkVars PROVE BulkIInv'
    OBVIOUS
  <1>1. ASSUME UNCHANGED bulkVars PROVE BulkIInv'
    BY <1>1 DEF bulkVars, BulkIInv, IsLine, PermitsAreKept, Queued, In
  <1>2. ASSUME NEW j \in Jobs, ExecuteRefused(j) PROVE BulkIInv'
    BY <1>1, <1>2 DEF ExecuteRefused
  <1>3. QED
    BY <1>1, <1>2, BulkAtOnce, BulkWaits, BulkResumes, BulkEnds, BulkFails,
       BulkCancelsWaiting, BulkCancelsGranted DEF BulkNext

LEMMA BulkIInvImplies == BulkIInv => BulkheadInvariant
  <1> SUFFICES ASSUME BulkIInv PROVE BulkheadInvariant
    OBVIOUS
  <1>1. ToSet(waiters) = In({"waiting"})
    <2>1. ToSet(waiters) \subseteq Jobs
      BY BulkFacts, LenProperties DEF ToSet
    <2>2. QED
      BY <2>1 DEF BulkIInv, IsLine, In
  <1>2. Len(waiters) = Cardinality(In({"waiting"}))
    BY <1>1, BulkFacts, DistinctCardinality DEF BulkIInv, IsLine
  <1>3. permits \in 0 .. MaxConcurrent
    <2>1. Cardinality(JobsIn(job, {"granted", "running"})) \in Nat
      BY JobsInFinite
    <2>2. QED
      BY <2>1, BulkFacts, BulkNumbers
  <1>4. queueSize \in - Cardinality(Jobs) .. MaxQueue
    BY BulkFacts, BulkNumbers DEF BulkIInv
  <1>5. BulkTypeOK
    BY <1>1, <1>2, <1>3, <1>4 DEF BulkTypeOK, BulkIInv, IsLine, JobStages
  <1>6. queueSize - Queued \in - failures .. cancels
    BY BulkFacts DEF BulkIInv
  <1>7. CountIsOffByFaults
    BY <1>6 DEF CountIsOffByFaults, Queued
  <1>8. QED
    BY <1>5, <1>7 DEF BulkheadInvariant, BulkIInv

\* For any number of calls, permits, failures and cancellations: no permit is
\* lost or given twice, no call waits beside a permit nobody is about to pass
\* on, and the counter of the queue (retry.py:255-291) differs from the calls
\* that wait by exactly what failures and cancellations can leave behind.
THEOREM BulkheadSafe == BulkSpec => []BulkheadInvariant
  <1>1. BulkSpec => []BulkIInv
    BY BulkInitial, BulkStep, PTL DEF BulkSpec
  <1>2. QED
    BY <1>1, BulkIInvImplies, PTL

-----------------------------------------------------------------------------
(***************************************************************************)
(* RetryLoop.  The inductive invariant counts, in each phase of the loop,  *)
(* the calls and the sleeps by the attempt the loop is in.                 *)
(***************************************************************************)
RetryIInv ==
    /\ RetryTypeOK
    /\ made <= maxAttempts
    /\ phase = "calling" => attempt < maxAttempts /\ made = attempt + 1 /\ naps = attempt
    /\ phase = "sleeping" =>
           attempt < maxAttempts - 1 /\ made = attempt + 1 /\ naps = attempt + 1
    /\ phase = "exhausted" =>
           /\ made = maxAttempts
           /\ naps = IF maxAttempts = 0 THEN 0 ELSE maxAttempts - 1

\* A power of two counts the subsets of a set.
LEMMA PowerOfTwo == ASSUME NEW n \in Nat PROVE 2 ^ n \in Nat
  <1>1. IsFiniteSet(1 .. n) /\ Cardinality(1 .. n) = n
    BY FS_Interval
  <1>2. IsFiniteSet(SUBSET (1 .. n)) /\ Cardinality(SUBSET (1 .. n)) = 2 ^ n
    BY <1>1, FS_SUBSET
  <1>3. QED
    BY <1>2, FS_CardinalityType

\* The bounded backoff: no sleep is asked to last longer than max_delay and the
\* jitter, however often the delay has doubled.
LEMMA DelayBounded ==
    ASSUME NEW n \in Nat, NEW jitter \in 0 .. JitterMax
    PROVE  Delay(n, jitter) \in 0 .. MaxDelay + JitterMax
  <1>1. 2 ^ n \in Nat /\ BaseDelay \in Nat /\ MaxDelay \in Nat /\ JitterMax \in Nat
    BY PowerOfTwo, RetryAssumption
  <1>2. PICK d \in Nat : d = BaseDelay * 2 ^ n
    BY <1>1
  <1>3. \E x \in {d, MaxDelay} : \A y \in {d, MaxDelay} : x <= y
    BY <1>1
  <1>4. Min({d, MaxDelay}) \in Nat /\ Min({d, MaxDelay}) <= MaxDelay
    BY <1>1, <1>3 DEF Min
  <1>5. Delay(n, jitter) = Min({d, MaxDelay}) + jitter
    BY <1>2 DEF Delay
  <1>6. QED
    BY <1>1, <1>4, <1>5

LEMMA OneMoreCounts ==
    ASSUME NEW n \in 0 .. MaxAttempts
    PROVE  OneMore(n) = n + 1
  <1>1. n \in Nat /\ n + 1 <= MaxAttempts + 1 /\ MaxAttempts \in Nat
    BY RetryAssumption
  <1>2. \E x \in {n + 1, MaxAttempts + 1} : \A y \in {n + 1, MaxAttempts + 1} : x <= y
    BY <1>1
  <1>3. /\ Min({n + 1, MaxAttempts + 1}) \in {n + 1, MaxAttempts + 1}
        /\ \A y \in {n + 1, MaxAttempts + 1} : Min({n + 1, MaxAttempts + 1}) <= y
    BY <1>2 DEF Min
  <1>4. QED
    BY <1>1, <1>3 DEF OneMore

LEMMA RetryInitial == RetryInit => RetryIInv
  BY RetryAssumption DEF RetryInit, RetryIInv, RetryTypeOK, Ended

LEMMA RetryStep == RetryIInv /\ [RetryNext]_retryVars => RetryIInv'
  <1> SUFFICES ASSUME RetryIInv, [RetryNext]_retryVars PROVE RetryIInv'
    OBVIOUS
  <1>0. /\ MaxAttempts \in Nat /\ MaxDelay \in Nat /\ JitterMax \in Nat
        /\ 0 \in 0 .. MaxDelay + JitterMax /\ 0 \in 0 .. MaxAttempts + 1
    BY RetryAssumption
  <1> USE DEF RetryIInv, RetryTypeOK, Ended
  <1>1. CASE RetryBegins
    <2>1. PICK n \in 0 .. MaxAttempts : BeginWith(n)
      BY <1>1 DEF RetryBegins
    <2>2. CASE n = 0
      BY <1>0, <2>1, <2>2 DEF BeginWith
    <2>3. CASE n # 0
      BY <1>0, <2>1, <2>3 DEF BeginWith
    <2>4. QED
      BY <2>2, <2>3
  <1>2. CASE FunctionReturns
    BY <1>2 DEF FunctionReturns
  <1>3. CASE FailsBeforeLast
    <2>1. PICK jitter \in 0 .. JitterMax : delay' = Delay(attempt, jitter)
      BY <1>3 DEF FailsBeforeLast
    <2>2. delay' \in 0 .. MaxDelay + JitterMax
      BY <1>0, <2>1, DelayBounded
    <2>3. /\ phase = "calling" /\ phase' = "sleeping" /\ attempt < maxAttempts - 1
          /\ naps' = attempt + 1
          /\ UNCHANGED <<maxAttempts, attempt, made>>
      BY <1>0, <1>3, OneMoreCounts DEF FailsBeforeLast, IsLast
    <2>4. QED
      BY <1>0, <2>2, <2>3
  <1>4. CASE FailsAtLast
    BY <1>0, <1>4 DEF FailsAtLast, IsLast
  <1>5. CASE RetryLeft
    BY <1>5 DEF RetryLeft
  <1>6. CASE SleepOver
    <2>1. /\ phase = "sleeping" /\ attempt' = attempt + 1 /\ attempt' < maxAttempts
          /\ phase' = "calling" /\ made' = OneMore(made)
          /\ UNCHANGED <<maxAttempts, delay, naps>>
      BY <1>0, <1>6 DEF SleepOver
    <2>2. made' = attempt + 2
      BY <1>0, <2>1, OneMoreCounts
    <2>3. QED
      BY <1>0, <2>1, <2>2
  <1>7. CASE UNCHANGED retryVars
    BY <1>7 DEF retryVars
  <1>8. QED
    BY <1>1, <1>2, <1>3, <1>4, <1>5, <1>6, <1>7 DEF RetryNext, CallEnds

LEMMA RetryIInvImplies == RetryIInv => RetryInvariant
  <1> SUFFICES ASSUME RetryIInv PROVE RetryInvariant
    OBVIOUS
  <1>1. maxAttempts \in Nat
    BY RetryAssumption DEF RetryIInv, RetryTypeOK
  <1>2. Max({0, maxAttempts - 1}) = IF maxAttempts = 0 THEN 0 ELSE maxAttempts - 1
    <2>1. \E x \in {0, maxAttempts - 1} : \A y \in {0, maxAttempts - 1} : x >= y
      BY <1>1
    <2>2. /\ Max({0, maxAttempts - 1}) \in {0, maxAttempts - 1}
          /\ \A y \in {0, maxAttempts - 1} : Max({0, maxAttempts - 1}) >= y
      BY <2>1 DEF Max
    <2>3. QED
      BY <1>1, <2>2
  <1>3. QED
    BY <1>2 DEF RetryIInv, RetryInvariant, ExhaustedAfterAll

\* Whatever max_attempts, delays and jitter: the loop calls the function at most
\* max_attempts times, gives up only after all of them, never sleeps after the
\* last, and never longer than max_delay and the jitter (retry.py:81-150).
THEOREM RetrySafe == RetrySpec => []RetryInvariant
  <1>1. RetrySpec => []RetryIInv
    BY RetryInitial, RetryStep, PTL DEF RetrySpec
  <1>2. QED
    BY <1>1, RetryIInvImplies, PTL

-----------------------------------------------------------------------------
(***************************************************************************)
(* RateLimits.  Counting: what was admitted in the last d units and what   *)
(* the bucket holds together never exceed a burst and d - 1 units, and the *)
(* window has recorded at least what was admitted.                         *)
(***************************************************************************)
RateCounts ==
    /\ credit \in 0 .. FullCredit /\ idle \in 0 .. FullCredit
    /\ recorded \in [Lengths -> Nat] /\ admitted \in [Lengths -> Nat]
    /\ asked \in [Ages -> 0 .. 2]
    /\ recorded[0] = 0 /\ admitted[0] = 0
    /\ \A d \in Ages : recorded[d] <= recorded[d + 1]
    /\ \A d \in Lengths : admitted[d] <= recorded[d]
    /\ recorded[WindowLength] <= WindowLimit
    /\ \A d \in 1 .. WindowLength :
           admitted[d] * TokenEvery + Refilled <= FullCredit + d - 1

\* Spacing: lengths of time without a request record none, and requests apart as
\* the rate wants are recorded at most at the rate.
QuietOn(a, d) == \A x \in a .. d - 1 : asked[x] = 0

SpacedOn(a, d) ==
    \A x \in a .. d - 1 :
        /\ asked[x] <= 1
        /\ asked[x] = 1 => \A y \in x + 1 .. x + TokenEvery - 1 : y < d => asked[y] = 0

RateSpacing ==
    /\ idle < TokenEvery => asked[idle] >= 1 \/ credit = FullCredit
    /\ \A a, d \in Lengths : a <= d /\ QuietOn(a, d) => recorded[d] = recorded[a]
    /\ \A a, d \in Lengths :
           a <= d /\ SpacedOn(a, d) =>
               recorded[d] * TokenEvery
                   <= recorded[a] * TokenEvery + (d - a) + TokenEvery - 1

RateIInv == RateCounts /\ RateSpacing

LEMMA Product == ASSUME NEW n \in Nat, NEW t \in Nat
                 PROVE  n * t \in Nat /\ (n + 1) * t = n * t + t
  OBVIOUS

LEMMA ProductGrows == ASSUME NEW n \in Nat, NEW m \in Nat, NEW t \in Nat, n <= m
                      PROVE  n * t <= m * t
  OBVIOUS

LEMMA RateNumbers ==
    /\ TokenEvery \in Nat /\ TokenEvery >= 1 /\ WindowLength \in Nat
    /\ TokenEvery <= WindowLength
    /\ FullCredit \in Nat /\ FullCredit >= TokenEvery
    /\ WindowLimit \in Nat /\ WindowLimit * TokenEvery = WindowLength
    /\ Ages = 0 .. WindowLength - 1 /\ Lengths = 0 .. WindowLength
    /\ 0 \in Ages /\ 0 \in Lengths /\ WindowLength \in Lengths
    /\ \A d \in Ages : d \in Lengths /\ d + 1 \in Lengths
  <1>1. \A w \in Nat \ {0}, t \in Nat \ {0} :
           w % t = 0 => /\ t <= w /\ w \div t \in Nat /\ (w \div t) * t = w
    OBVIOUS
  <1>2. \A b, t \in Nat \ {0} : b * t \in Nat /\ b * t >= t
    OBVIOUS
  <1>3. QED
    BY <1>1, <1>2, RateAssumption DEF FullCredit, WindowLimit, Ages, Lengths

LEMMA RefilledBounds ==
    ASSUME credit \in 0 .. FullCredit, idle \in 0 .. FullCredit
    PROVE  /\ Refilled \in 0 .. FullCredit
           /\ Refilled = IF FullCredit < credit + idle THEN FullCredit ELSE credit + idle
  BY RateNumbers DEF Refilled, Least

\* A state without histories, as after the start and after a reset.
LEMMA FreshLimits ==
    ASSUME credit = FullCredit, idle = 0, recorded = NoneYounger,
           asked = NoneAsked, admitted = NoneYounger
    PROVE  RateIInv
  <1>1. Refilled = FullCredit
    BY RateNumbers DEF Refilled, Least
  <1>2. 0 * TokenEvery = 0
    BY RateNumbers
  <1>3. RateCounts
    BY <1>1, <1>2, RateNumbers DEF RateCounts, NoneYounger, NoneAsked
  <1>4. RateSpacing
    BY <1>2, RateNumbers DEF RateSpacing, NoneYounger, NoneAsked
  <1>5. QED
    BY <1>3, <1>4 DEF RateIInv

LEMMA RateInitial == RateInit => RateIInv
  BY FreshLimits DEF RateInit

LEMMA ResetKeeps == ResetLimits => RateIInv'
  <1> SUFFICES ASSUME ResetLimits PROVE RateIInv'
    OBVIOUS
  <1>0. /\ credit' = FullCredit /\ idle' = 0 /\ recorded' = NoneYounger
        /\ asked' = NoneAsked /\ admitted' = NoneYounger
    BY DEF ResetLimits
  <1>1. Refilled' = FullCredit
    BY <1>0, RateNumbers DEF Refilled, Least
  <1>2. 0 * TokenEvery = 0
    BY RateNumbers
  <1>3. RateCounts'
    BY <1>0, <1>1, <1>2, RateNumbers DEF RateCounts, NoneYounger, NoneAsked
  <1>4. RateSpacing'
    BY <1>0, <1>2, RateNumbers DEF RateSpacing, NoneYounger, NoneAsked
  <1>5. QED
    BY <1>3, <1>4 DEF RateIInv

\* The lengths and ages alone.
LEMMA LengthNumbers ==
    /\ WindowLength \in Nat /\ WindowLength >= 1
    /\ Ages = 0 .. WindowLength - 1 /\ Lengths = 0 .. WindowLength
  BY RateAssumption DEF Ages, Lengths

\* What a check does to the bucket, the window and the histories.
LEMMA CheckCharges ==
    ASSUME RateCounts, CheckRateLimit
    PROVE  /\ idle' = 0 /\ Refilled \in 0 .. FullCredit
           /\ credit' = IF Refilled >= TokenEvery THEN Refilled - TokenEvery ELSE Refilled
           /\ credit' \in 0 .. FullCredit /\ Refilled' = credit'
  <1>1. /\ credit' = IF Refilled >= TokenEvery THEN Refilled - TokenEvery ELSE Refilled
        /\ idle' = 0
    BY DEF CheckRateLimit
  <1>2. Refilled \in 0 .. FullCredit
    BY RefilledBounds DEF RateCounts
  <1>3. credit' \in 0 .. FullCredit
    BY <1>1, <1>2, RateNumbers
  <1>4. Refilled' = credit'
    BY <1>1, <1>3, RateNumbers DEF Refilled, Least
  <1>5. QED
    BY <1>1, <1>2, <1>3, <1>4

LEMMA NotingAdds ==
    ASSUME NEW younger \in [Lengths -> Nat], NEW yes \in BOOLEAN
    PROVE  /\ Noting(younger, yes) \in [Lengths -> Nat]
           /\ younger[0] = 0 => Noting(younger, yes)[0] = 0
           /\ \A d \in Lengths \ {0} :
                 Noting(younger, yes)[d] = IF yes THEN younger[d] + 1 ELSE younger[d]
  <1>1. CASE yes
    BY <1>1, LengthNumbers DEF Noting
  <1>2. CASE ~ yes
    BY <1>2 DEF Noting
  <1>3. QED
    BY <1>1, <1>2

LEMMA CheckNotes ==
    ASSUME RateCounts, CheckRateLimit
    PROVE  /\ recorded' \in [Lengths -> Nat] /\ admitted' \in [Lengths -> Nat]
           /\ recorded'[0] = 0 /\ admitted'[0] = 0
           /\ \A d \in Lengths \ {0} :
                 recorded'[d] = IF WindowAllows THEN recorded[d] + 1 ELSE recorded[d]
           /\ \A d \in Lengths \ {0} :
                 admitted'[d] = IF Refilled >= TokenEvery /\ WindowAllows
                                THEN admitted[d] + 1 ELSE admitted[d]
  <1>1. recorded' = Noting(recorded, WindowAllows)
    BY DEF CheckRateLimit
  <1>2. admitted' = Noting(admitted, Refilled >= TokenEvery /\ WindowAllows)
    BY DEF CheckRateLimit
  <1>3. WindowAllows \in BOOLEAN /\ (Refilled >= TokenEvery /\ WindowAllows) \in BOOLEAN
    BY DEF WindowAllows
  <1>4. /\ recorded \in [Lengths -> Nat] /\ admitted \in [Lengths -> Nat]
        /\ recorded[0] = 0 /\ admitted[0] = 0
    BY DEF RateCounts
  <1>5. /\ recorded' \in [Lengths -> Nat] /\ recorded'[0] = 0
        /\ \A d \in Lengths \ {0} :
              recorded'[d] = IF WindowAllows THEN recorded[d] + 1 ELSE recorded[d]
    BY <1>1, <1>3, <1>4, NotingAdds, Zenon
  <1>6. /\ admitted' \in [Lengths -> Nat] /\ admitted'[0] = 0
        /\ \A d \in Lengths \ {0} :
              admitted'[d] = IF Refilled >= TokenEvery /\ WindowAllows
                             THEN admitted[d] + 1 ELSE admitted[d]
    BY <1>2, <1>3, <1>4, NotingAdds, Zenon
  <1>7. QED
    BY <1>5, <1>6

LEMMA CheckAsks ==
    ASSUME RateCounts, CheckRateLimit
    PROVE  /\ asked' \in [Ages -> 0 .. 2] /\ asked'[0] >= 1
           /\ asked'[0] <= 1 => asked[0] = 0
           /\ \A x \in Ages \ {0} : asked'[x] = asked[x]
  <1>1. asked \in [Ages -> 0 .. 2] /\ 0 \in Ages
    BY LengthNumbers DEF RateCounts
  <1>2. asked' = [asked EXCEPT ![0] = Least(2, asked[0] + 1)]
    BY DEF CheckRateLimit
  <1>3. asked[0] \in 0 .. 2
    BY <1>1
  <1>4. /\ Least(2, asked[0] + 1) \in 0 .. 2 /\ Least(2, asked[0] + 1) >= 1
        /\ Least(2, asked[0] + 1) <= 1 => asked[0] = 0
    BY <1>3 DEF Least
  <1>5. QED
    BY <1>1, <1>2, <1>4

LEMMA CheckKeepsCounts ==
    ASSUME RateCounts, CheckRateLimit
    PROVE  RateCounts'
  <1>0. /\ recorded \in [Lengths -> Nat] /\ admitted \in [Lengths -> Nat]
        /\ \A d \in Lengths : recorded[d] \in Nat /\ admitted[d] \in Nat
        /\ recorded[0] = 0
    BY DEF RateCounts
  <1>1. ASSUME NEW d \in Ages PROVE recorded'[d] <= recorded'[d + 1]
    <2>1. d \in Lengths /\ d + 1 \in Lengths \ {0}
      BY LengthNumbers
    <2>2. recorded[d] <= recorded[d + 1] /\ recorded[d] \in Nat /\ recorded[d + 1] \in Nat
      BY <2>1, <1>0 DEF RateCounts
    <2>3. recorded'[d + 1] = IF WindowAllows THEN recorded[d + 1] + 1 ELSE recorded[d + 1]
      BY <2>1, CheckNotes
    <2>4. CASE d = 0
      BY <2>2, <2>3, <2>4, CheckNotes
    <2>5. CASE d # 0
      <3>1. recorded'[d] = IF WindowAllows THEN recorded[d] + 1 ELSE recorded[d]
        BY <2>1, <2>5, CheckNotes
      <3>2. QED
        BY <2>2, <2>3, <3>1
    <2>6. QED
      BY <2>4, <2>5
  <1>2. ASSUME NEW d \in Lengths PROVE admitted'[d] <= recorded'[d]
    <2>1. admitted[d] <= recorded[d] /\ recorded[d] \in Nat /\ admitted[d] \in Nat
      BY <1>0 DEF RateCounts
    <2>2. CASE d = 0
      BY <2>2, CheckNotes
    <2>3. CASE d # 0
      <3>1. recorded'[d] = IF WindowAllows THEN recorded[d] + 1 ELSE recorded[d]
        BY <2>3, CheckNotes
      <3>2. admitted'[d] = IF Refilled >= TokenEvery /\ WindowAllows
                           THEN admitted[d] + 1 ELSE admitted[d]
        BY <2>3, CheckNotes
      <3>3. QED
        BY <2>1, <3>1, <3>2
    <2>4. QED
      BY <2>2, <2>3
  <1>3. recorded'[WindowLength] <= WindowLimit
    <2>1. WindowLength \in Lengths \ {0} /\ WindowLimit \in Nat
      BY LengthNumbers, RateNumbers
    <2>2. recorded'[WindowLength] = IF WindowAllows THEN recorded[WindowLength] + 1
                                    ELSE recorded[WindowLength]
      BY <2>1, CheckNotes
    <2>3. recorded[WindowLength] \in Nat /\ recorded[WindowLength] <= WindowLimit
      BY <2>1, <1>0 DEF RateCounts
    <2>4. QED
      BY <2>1, <2>2, <2>3 DEF WindowAllows
  <1>4. ASSUME NEW d \in 1 .. WindowLength
        PROVE  admitted'[d] * TokenEvery + Refilled' <= FullCredit + d - 1
    <2>0. d \in Lengths \ {0} /\ d \in Nat
      BY LengthNumbers
    <2>1. /\ admitted[d] \in Nat /\ Refilled \in Nat /\ FullCredit \in Nat /\ TokenEvery \in Nat
      BY <1>0, <2>0, CheckCharges, RateNumbers
    <2>b. admitted[d] * TokenEvery + Refilled <= FullCredit + d - 1
      BY DEF RateCounts
    <2>2. /\ admitted[d] * TokenEvery \in Nat
          /\ (admitted[d] + 1) * TokenEvery = admitted[d] * TokenEvery + TokenEvery
      BY <2>1, Product
    <2>3. Refilled' = IF Refilled >= TokenEvery THEN Refilled - TokenEvery ELSE Refilled
      BY CheckCharges
    <2>a. admitted'[d] = IF Refilled >= TokenEvery /\ WindowAllows
                         THEN admitted[d] + 1 ELSE admitted[d]
      BY <2>0, CheckNotes
    <2>4. CASE Refilled >= TokenEvery /\ WindowAllows
      <3>1. admitted'[d] * TokenEvery = admitted[d] * TokenEvery + TokenEvery
        BY <2>4, <2>a, <2>2
      <3>2. Refilled' = Refilled - TokenEvery
        BY <2>3, <2>4
      <3>3. QED
        BY <2>0, <2>1, <2>b, <2>2, <3>1, <3>2
    <2>5. CASE ~ (Refilled >= TokenEvery /\ WindowAllows)
      <3>1. admitted'[d] * TokenEvery = admitted[d] * TokenEvery
        BY <2>5, <2>a
      <3>2. Refilled' <= Refilled /\ Refilled' \in Nat
        BY <2>1, <2>3
      <3>3. QED
        BY <2>0, <2>1, <2>b, <2>2, <3>1, <3>2
    <2>6. QED
      BY <2>4, <2>5
  <1>5. credit' \in 0 .. FullCredit /\ idle' \in 0 .. FullCredit
    BY CheckCharges, RateNumbers
  <1>6. QED
    BY <1>1, <1>2, <1>3, <1>4, <1>5, CheckNotes, CheckAsks DEF RateCounts

\* A request apart from the last ones follows a quiet time, and is recorded within
\* the rate.
LEMMA SpacedBefore ==
    ASSUME RateCounts, RateSpacing, CheckRateLimit,
           NEW d \in 1 .. WindowLength, SpacedOn(0, d)'
    PROVE  /\ SpacedOn(0, d)
           /\ \A e \in Lengths : e <= TokenEvery /\ e <= d => recorded[e] = 0
           /\ recorded[d] * TokenEvery <= d - 1
  <1>0. /\ d \in Nat /\ d >= 1 /\ d \in Lengths /\ TokenEvery \in Nat /\ TokenEvery >= 1
        /\ 0 \in Lengths /\ TokenEvery \in Lengths
        /\ \A x \in 0 .. d - 1 : x \in Ages
    BY LengthNumbers, RateNumbers
  <1>1. /\ \A x \in 0 .. d - 1 :
             /\ asked'[x] <= 1
             /\ asked'[x] = 1 => \A y \in x + 1 .. x + TokenEvery - 1 : y < d => asked'[y] = 0
    BY DEF SpacedOn
  <1>2. asked'[0] = 1 /\ asked[0] = 0
    <2>1. 0 \in 0 .. d - 1 /\ asked'[0] \in 0 .. 2
      BY <1>0, CheckAsks
    <2>2. asked'[0] <= 1 /\ asked'[0] >= 1
      BY <2>1, <1>1, CheckAsks
    <2>3. QED
      BY <2>1, <2>2, CheckAsks
  <1>3. \A x \in 0 .. d - 1 : x # 0 => asked'[x] = asked[x]
    BY <1>0, CheckAsks
  <1>4. ASSUME NEW y \in 0 .. d - 1, y <= TokenEvery - 1 PROVE asked[y] = 0
    <2>1. CASE y = 0
      BY <2>1, <1>2
    <2>2. CASE y # 0
      <3>1. y \in 0 + 1 .. 0 + TokenEvery - 1 /\ y < d /\ 0 \in 0 .. d - 1
        BY <2>2, <1>0, <1>4
      <3>2. asked'[y] = 0
        BY <3>1, <1>1, <1>2
      <3>3. QED
        BY <3>2, <2>2, <1>3
    <2>3. QED
      BY <2>1, <2>2
  <1>5. ASSUME NEW x \in 0 .. d - 1
        PROVE  /\ asked[x] <= 1
               /\ asked[x] = 1 => \A y \in x + 1 .. x + TokenEvery - 1 : y < d => asked[y] = 0
    <2>1. CASE x = 0
      BY <2>1, <1>2
    <2>2. CASE x # 0
      <3>1. asked'[x] = asked[x]
        BY <2>2, <1>3
      <3>2. \A y \in x + 1 .. x + TokenEvery - 1 : y < d => y \in 0 .. d - 1 /\ y # 0
        BY <1>0
      <3>3. QED
        BY <3>1, <3>2, <1>1, <1>3
    <2>3. QED
      BY <2>1, <2>2
  <1>6. SpacedOn(0, d)
    BY <1>5 DEF SpacedOn
  <1>7. ASSUME NEW e \in Lengths, e <= TokenEvery, e <= d
        PROVE  recorded[e] = 0
    <2>1. e \in Nat
      BY LengthNumbers
    <2>2. \A y \in 0 .. e - 1 : y \in 0 .. d - 1 /\ y <= TokenEvery - 1
      BY <1>0, <1>7, <2>1
    <2>3. QuietOn(0, e)
      BY <2>2, <1>4 DEF QuietOn
    <2>4. 0 <= e /\ 0 \in Lengths
      BY <2>1, <1>0
    <2>5. recorded[e] = recorded[0]
      BY <2>3, <2>4 DEF RateSpacing
    <2>6. QED
      BY <2>5 DEF RateCounts
  <1>8. recorded[d] * TokenEvery <= d - 1
    <2>1. CASE d <= TokenEvery
      <3>1. recorded[d] = 0
        BY <1>0, <1>7, <2>1
      <3>2. QED
        BY <1>0, <3>1
    <2>2. CASE d > TokenEvery
      <3>0. TokenEvery <= d /\ TokenEvery <= TokenEvery
        BY <1>0, <2>2
      <3>1. recorded[TokenEvery] = 0
        BY <1>0, <1>7, <3>0
      <3>2. SpacedOn(TokenEvery, d)
        <4>1. \A x \in TokenEvery .. d - 1 : x \in 0 .. d - 1
          BY <1>0
        <4>2. QED
          BY <4>1, <1>5 DEF SpacedOn
      <3>3. recorded[d] * TokenEvery
              <= recorded[TokenEvery] * TokenEvery + (d - TokenEvery) + TokenEvery - 1
        BY <1>0, <3>0, <3>2 DEF RateSpacing
      <3>4. recorded[d] \in Nat
        BY <1>0 DEF RateCounts
      <3>5. recorded[d] * TokenEvery \in Nat /\ 0 * TokenEvery = 0
        BY <3>4, <1>0, Product
      <3>6. QED
        BY <1>0, <3>1, <3>3, <3>5
    <2>3. QED
      BY <1>0, <2>1, <2>2
  <1>9. QED
    BY <1>6, <1>7, <1>8

LEMMA CheckKeepsSpacing ==
    ASSUME RateCounts, RateSpacing, CheckRateLimit
    PROVE  RateSpacing'
  <1>0. /\ TokenEvery \in Nat /\ TokenEvery >= 1 /\ WindowLength \in Nat
        /\ \A d \in Lengths : d \in Nat /\ recorded[d] \in Nat /\ recorded'[d] \in Nat
    <2>1. /\ TokenEvery \in Nat /\ TokenEvery >= 1 /\ WindowLength \in Nat
          /\ \A d \in Lengths : d \in Nat
      BY LengthNumbers, RateNumbers
    <2>2. \A d \in Lengths : recorded[d] \in Nat
      BY DEF RateCounts
    <2>3. \A d \in Lengths : recorded'[d] \in Nat
      BY CheckNotes
    <2>4. QED
      BY <2>1, <2>2, <2>3
  <1>1. idle' < TokenEvery => asked'[idle'] >= 1 \/ credit' = FullCredit
    BY CheckCharges, CheckAsks
  <1>2. ASSUME NEW a \in Lengths, NEW d \in Lengths, a <= d, QuietOn(a, d)'
        PROVE  recorded'[d] = recorded'[a]
    <2>1. CASE a = d
      BY <2>1
    <2>2. CASE a < d /\ a = 0
      <3>1. 0 \in a .. d - 1
        BY <2>2, <1>0
      <3>2. asked'[0] = 0
        BY <3>1, <1>2 DEF QuietOn
      <3>3. asked'[0] >= 1
        BY CheckAsks
      <3>4. QED
        BY <3>2, <3>3
    <2>3. CASE a < d /\ a # 0
      <3>1. \A x \in a .. d - 1 : x \in Ages \ {0}
        BY <2>3, <1>0, LengthNumbers
      <3>2. \A x \in a .. d - 1 : asked'[x] = 0
        BY <1>2 DEF QuietOn
      <3>3. QuietOn(a, d)
        BY <3>1, <3>2, CheckAsks DEF QuietOn
      <3>4. recorded[d] = recorded[a]
        BY <3>3, <1>2 DEF RateSpacing
      <3>5. a \in Lengths \ {0} /\ d \in Lengths \ {0}
        BY <2>3, <1>0
      <3>6. QED
        BY <3>4, <3>5, CheckNotes
    <2>4. QED
      BY <1>0, <1>2, <2>1, <2>2, <2>3
  <1>3. ASSUME NEW a \in Lengths, NEW d \in Lengths, a <= d, SpacedOn(a, d)'
        PROVE  recorded'[d] * TokenEvery
                 <= recorded'[a] * TokenEvery + (d - a) + TokenEvery - 1
    <2>0. a \in Nat /\ d \in Nat /\ recorded'[d] \in Nat /\ recorded[d] \in Nat
          /\ recorded[a] \in Nat
      BY <1>0
    <2>1. CASE a = d
      <3>1. recorded'[d] * TokenEvery \in Nat
        BY <1>0, <2>0, Product
      <3>2. QED
        BY <1>0, <2>0, <2>1, <3>1
    <2>2. CASE a < d /\ a = 0
      <3>1. d \in 1 .. WindowLength /\ d \in Lengths \ {0}
        BY <2>2, <2>0, LengthNumbers
      <3>2. recorded[d] * TokenEvery <= d - 1
        BY <3>1, <1>3, <2>2, SpacedBefore
      <3>3. /\ (recorded[d] + 1) * TokenEvery = recorded[d] * TokenEvery + TokenEvery
            /\ recorded[d] * TokenEvery \in Nat
        BY <2>0, <1>0, Product
      <3>4. recorded'[d] * TokenEvery <= recorded[d] * TokenEvery + TokenEvery
        <4>1. recorded'[d] = recorded[d] + 1 \/ recorded'[d] = recorded[d]
          BY <3>1, CheckNotes
        <4>2. recorded'[d] = recorded[d] => recorded'[d] * TokenEvery = recorded[d] * TokenEvery
          OBVIOUS
        <4>3. recorded'[d] = recorded[d] + 1
                => recorded'[d] * TokenEvery = recorded[d] * TokenEvery + TokenEvery
          BY <3>3
        <4>4. QED
          BY <1>0, <3>3, <4>1, <4>2, <4>3
      <3>5. recorded'[a] = 0 /\ 0 * TokenEvery = 0
        BY <2>2, <1>0, CheckNotes
      <3>6. recorded'[a] * TokenEvery = 0
        BY <3>5
      <3>7. recorded'[d] * TokenEvery \in Nat
        BY <1>0, <2>0, Product
      <3>8. d - a = d
        BY <2>2, <2>0
      <3>9. QED
        BY <1>0, <2>0, <3>2, <3>3, <3>4, <3>6, <3>7, <3>8
    <2>3. CASE a < d /\ a # 0
      <3>1. \A x \in a .. d - 1 : x \in Ages \ {0}
        BY <2>3, <1>0, LengthNumbers
      <3>2. \A x \in a .. d - 1 : asked'[x] = asked[x]
        BY <3>1, CheckAsks
      <3>3. SpacedOn(a, d)
        <4>1. \A x \in a .. d - 1 :
                 /\ asked'[x] <= 1
                 /\ asked'[x] = 1 => \A y \in x + 1 .. x + TokenEvery - 1 : y < d => asked'[y] = 0
          BY <1>3 DEF SpacedOn
        <4>2. \A x \in a .. d - 1 : \A y \in x + 1 .. x + TokenEvery - 1 :
                 y < d => y \in a .. d - 1
          BY <1>0, <2>0
        <4>3. QED
          BY <4>1, <4>2, <3>2 DEF SpacedOn
      <3>4. recorded[d] * TokenEvery
              <= recorded[a] * TokenEvery + (d - a) + TokenEvery - 1
        BY <3>3, <1>3 DEF RateSpacing
      <3>5. a \in Lengths \ {0} /\ d \in Lengths \ {0}
        BY <2>3, <1>0
      <3>6. \/ recorded'[d] = recorded[d] + 1 /\ recorded'[a] = recorded[a] + 1
            \/ recorded'[d] = recorded[d] /\ recorded'[a] = recorded[a]
        BY <3>5, CheckNotes
      <3>7. /\ (recorded[d] + 1) * TokenEvery = recorded[d] * TokenEvery + TokenEvery
            /\ (recorded[a] + 1) * TokenEvery = recorded[a] * TokenEvery + TokenEvery
            /\ recorded[d] * TokenEvery \in Nat /\ recorded[a] * TokenEvery \in Nat
        BY <2>0, <1>0, Product
      <3>8. \/ /\ recorded'[d] * TokenEvery = recorded[d] * TokenEvery + TokenEvery
               /\ recorded'[a] * TokenEvery = recorded[a] * TokenEvery + TokenEvery
            \/ /\ recorded'[d] * TokenEvery = recorded[d] * TokenEvery
               /\ recorded'[a] * TokenEvery = recorded[a] * TokenEvery
        BY <3>6, <3>7, Zenon
      <3>9. QED
        BY <1>0, <2>0, <3>4, <3>7, <3>8
    <2>4. QED
      BY <2>0, <1>3, <2>1, <2>2, <2>3
  <1>4. QED
    BY <1>1, <1>2, <1>3 DEF RateSpacing

\* What the clock does.
LEMMA ClockDoes ==
    ASSUME RateCounts, WindowMoves
    PROVE  /\ credit' = credit /\ idle' = IF FullCredit < idle + 1 THEN FullCredit ELSE idle + 1
           /\ recorded' \in [Lengths -> Nat] /\ admitted' \in [Lengths -> Nat]
           /\ asked' \in [Ages -> 0 .. 2]
           /\ recorded'[0] = 0 /\ admitted'[0] = 0 /\ asked'[0] = 0
           /\ \A d \in Lengths \ {0} :
                 d - 1 \in Lengths /\ recorded'[d] = recorded[d - 1] /\ admitted'[d] = admitted[d - 1]
           /\ \A x \in Ages \ {0} : x - 1 \in Ages /\ asked'[x] = asked[x - 1]
  <1>1. /\ \A d \in Lengths \ {0} : d - 1 \in Lengths
        /\ \A x \in Ages \ {0} : x - 1 \in Ages
        /\ 0 \in Lengths /\ 0 \in Ages
    BY LengthNumbers
  <1>2. /\ recorded \in [Lengths -> Nat] /\ admitted \in [Lengths -> Nat]
        /\ asked \in [Ages -> 0 .. 2]
    BY DEF RateCounts
  <1>3. /\ credit' = credit /\ idle' = IF FullCredit < idle + 1 THEN FullCredit ELSE idle + 1
    BY DEF WindowMoves, Least
  <1>4. recorded' = [d \in Lengths |-> IF d = 0 THEN 0 ELSE recorded[d - 1]]
    BY <1>2 DEF WindowMoves, Counted, Aged
  <1>5. admitted' = [d \in Lengths |-> IF d = 0 THEN 0 ELSE admitted[d - 1]]
    BY <1>2 DEF WindowMoves, Aged
  <1>6. asked' = [x \in Ages |-> IF x = 0 THEN 0 ELSE asked[x - 1]]
    BY <1>2 DEF WindowMoves, Aged
  <1>7. /\ recorded' \in [Lengths -> Nat] /\ recorded'[0] = 0
        /\ \A d \in Lengths \ {0} : recorded'[d] = recorded[d - 1]
    BY <1>1, <1>2, <1>4
  <1>8. /\ admitted' \in [Lengths -> Nat] /\ admitted'[0] = 0
        /\ \A d \in Lengths \ {0} : admitted'[d] = admitted[d - 1]
    BY <1>1, <1>2, <1>5
  <1>9. /\ asked' \in [Ages -> 0 .. 2] /\ asked'[0] = 0
        /\ \A x \in Ages \ {0} : asked'[x] = asked[x - 1]
    BY <1>1, <1>2, <1>6
  <1>10. QED
    BY <1>1, <1>3, <1>7, <1>8, <1>9

LEMMA ClockKeepsCounts ==
    ASSUME RateCounts, WindowMoves
    PROVE  RateCounts'
  <1>0. /\ TokenEvery \in Nat /\ FullCredit \in Nat /\ WindowLimit \in Nat
        /\ credit \in 0 .. FullCredit /\ idle \in 0 .. FullCredit
    BY RateNumbers DEF RateCounts
  <1>a. \A d \in Lengths : recorded[d] \in Nat /\ admitted[d] \in Nat
    BY DEF RateCounts
  <1>b. \A d \in Lengths : recorded'[d] \in Nat /\ admitted'[d] \in Nat
    BY ClockDoes
  <1>1. ASSUME NEW d \in Ages PROVE recorded'[d] <= recorded'[d + 1]
    <2>1. d \in Lengths /\ d + 1 \in Lengths \ {0} /\ (d + 1) - 1 = d
      BY LengthNumbers
    <2>2. recorded'[d + 1] = recorded[d]
      BY <2>1, ClockDoes
    <2>3. CASE d = 0
      BY <2>3, <2>1, <2>2, <1>a, ClockDoes
    <2>4. CASE d # 0
      <3>1. d - 1 \in Ages /\ (d - 1) + 1 = d
        BY <2>4, LengthNumbers
      <3>2. recorded[d - 1] <= recorded[d]
        BY <3>1 DEF RateCounts
      <3>3. recorded'[d] = recorded[d - 1]
        BY <2>1, <2>4, ClockDoes
      <3>4. QED
        BY <3>2, <3>3, <2>2
    <2>5. QED
      BY <2>3, <2>4
  <1>2. ASSUME NEW d \in Lengths PROVE admitted'[d] <= recorded'[d]
    <2>1. CASE d = 0
      BY <2>1, ClockDoes
    <2>2. CASE d # 0
      <3>1. /\ d - 1 \in Lengths
            /\ recorded'[d] = recorded[d - 1] /\ admitted'[d] = admitted[d - 1]
        BY <2>2, ClockDoes
      <3>2. QED
        BY <3>1 DEF RateCounts
    <2>3. QED
      BY <2>1, <2>2
  <1>3. recorded'[WindowLength] <= WindowLimit
    <2>1. /\ WindowLength \in Lengths \ {0} /\ WindowLength - 1 \in Ages
          /\ WindowLength - 1 \in Lengths /\ (WindowLength - 1) + 1 = WindowLength
      BY LengthNumbers
    <2>2. recorded'[WindowLength] = recorded[WindowLength - 1]
      BY <2>1, ClockDoes
    <2>3. recorded[WindowLength - 1] <= recorded[WindowLength]
      BY <2>1 DEF RateCounts
    <2>4. recorded[WindowLength] <= WindowLimit
      BY DEF RateCounts
    <2>5. QED
      BY <2>1, <2>2, <2>3, <2>4, <1>0, <1>a
  <1>4. credit' \in 0 .. FullCredit /\ idle' \in 0 .. FullCredit
    BY <1>0, ClockDoes
  <1>5. /\ Refilled \in 0 .. FullCredit /\ Refilled' \in 0 .. FullCredit
        /\ Refilled' <= Refilled + 1
    <2>1. /\ Refilled \in 0 .. FullCredit
          /\ Refilled = IF FullCredit < credit + idle THEN FullCredit ELSE credit + idle
      BY <1>0, RefilledBounds
    <2>2. Refilled' = IF FullCredit < credit' + idle' THEN FullCredit ELSE credit' + idle'
      BY DEF Refilled, Least
    <2>3. credit' = credit /\ idle' = IF FullCredit < idle + 1 THEN FullCredit ELSE idle + 1
      BY ClockDoes
    <2>4. QED
      BY <1>0, <2>1, <2>2, <2>3
  <1>6. ASSUME NEW d \in 1 .. WindowLength
        PROVE  admitted'[d] * TokenEvery + Refilled' <= FullCredit + d - 1
    <2>0. d \in Lengths \ {0} /\ d \in Nat
      BY LengthNumbers
    <2>1. admitted'[d] = admitted[d - 1]
      BY <2>0, ClockDoes
    <2>2. CASE d = 1
      <3>1. admitted'[d] = 0 /\ 0 * TokenEvery = 0
        BY <2>1, <2>2, <1>0 DEF RateCounts
      <3>2. admitted'[d] * TokenEvery = 0
        BY <3>1
      <3>3. QED
        BY <3>2, <2>2, <1>0, <1>5
    <2>3. CASE d # 1
      <3>1. d - 1 \in 1 .. WindowLength /\ d - 1 \in Lengths
        BY <2>0, <2>3, LengthNumbers
      <3>2. admitted[d - 1] * TokenEvery + Refilled <= FullCredit + (d - 1) - 1
        BY <3>1 DEF RateCounts
      <3>3. admitted[d - 1] * TokenEvery \in Nat
        BY <3>1, <1>a, <1>0, Product
      <3>4. QED
        BY <3>2, <3>3, <2>0, <2>1, <1>0, <1>5
    <2>4. QED
      BY <2>2, <2>3
  <1>7. QED
    BY <1>1, <1>2, <1>3, <1>4, <1>6, ClockDoes DEF RateCounts

LEMMA ClockKeepsSpacing ==
    ASSUME RateCounts, RateSpacing, WindowMoves
    PROVE  RateSpacing'
  <1>0. /\ TokenEvery \in Nat /\ TokenEvery >= 1 /\ WindowLength \in Nat
        /\ FullCredit \in Nat /\ FullCredit >= TokenEvery /\ TokenEvery <= WindowLength
        /\ \A d \in Lengths : d \in Nat
    BY LengthNumbers, RateNumbers
  <1>a. \A d \in Lengths : recorded[d] \in Nat
    BY DEF RateCounts
  <1>b. \A d \in Lengths : recorded'[d] \in Nat
    BY ClockDoes
  <1>1. idle' < TokenEvery => asked'[idle'] >= 1 \/ credit' = FullCredit
    <2> SUFFICES ASSUME idle' < TokenEvery PROVE asked'[idle'] >= 1 \/ credit = FullCredit
      BY ClockDoes
    <2>1. idle \in 0 .. FullCredit /\ idle' = IF FullCredit < idle + 1 THEN FullCredit ELSE idle + 1
      BY ClockDoes DEF RateCounts
    <2>2. idle' = idle + 1 /\ idle < TokenEvery
      BY <1>0, <2>1
    <2>3. idle' \in Ages \ {0} /\ idle' - 1 = idle
      BY <1>0, <2>1, <2>2, LengthNumbers
    <2>4. asked'[idle'] = asked[idle]
      BY <2>3, ClockDoes
    <2>5. QED
      BY <2>2, <2>4 DEF RateSpacing
  <1>2. ASSUME NEW a \in Lengths, NEW d \in Lengths, a <= d, QuietOn(a, d)'
        PROVE  recorded'[d] = recorded'[a]
    <2>0. a \in Nat /\ d \in Nat
      BY <1>0
    <2>1. CASE d = 0
      BY <2>0, <2>1, <1>2
    <2>2. CASE d # 0
      <3> DEFINE b == IF a = 0 THEN 0 ELSE a - 1
      <3>1. /\ b \in Lengths /\ d - 1 \in Lengths /\ b <= d - 1
            /\ \A x \in b .. (d - 1) - 1 :
                  x + 1 \in a .. d - 1 /\ x + 1 \in Ages \ {0} /\ (x + 1) - 1 = x
        BY <2>0, <2>2, <1>0, <1>2, LengthNumbers
      <3>2. \A x \in a .. d - 1 : asked'[x] = 0
        BY <1>2 DEF QuietOn
      <3>3. \A x \in b .. (d - 1) - 1 : asked[x] = 0
        <4> SUFFICES ASSUME NEW x \in b .. (d - 1) - 1 PROVE asked[x] = 0
          OBVIOUS
        <4>1. x + 1 \in a .. d - 1 /\ x + 1 \in Ages \ {0} /\ (x + 1) - 1 = x
          BY <3>1
        <4>2. asked'[x + 1] = asked[(x + 1) - 1]
          BY <4>1, ClockDoes
        <4>3. QED
          BY <4>1, <4>2, <3>2
      <3>4. recorded[d - 1] = recorded[b]
        BY <3>1, <3>3 DEF RateSpacing, QuietOn
      <3>5. recorded'[d] = recorded[d - 1]
        BY <2>2, ClockDoes
      <3>6. recorded'[a] = recorded[b]
        BY ClockDoes DEF RateCounts
      <3>7. QED
        BY <3>4, <3>5, <3>6
    <2>3. QED
      BY <2>1, <2>2
  <1>3. ASSUME NEW a \in Lengths, NEW d \in Lengths, a <= d, SpacedOn(a, d)'
        PROVE  recorded'[d] * TokenEvery
                 <= recorded'[a] * TokenEvery + (d - a) + TokenEvery - 1
    <2>0. a \in Nat /\ d \in Nat /\ recorded'[d] \in Nat
      BY <1>0, <1>b
    <2>1. CASE d = 0
      <3>1. a = d
        BY <2>0, <2>1, <1>3
      <3>2. recorded'[d] * TokenEvery \in Nat
        BY <1>0, <2>0, Product
      <3>3. QED
        BY <1>0, <2>0, <3>1, <3>2
    <2>2. CASE d # 0
      <3> DEFINE b == IF a = 0 THEN 0 ELSE a - 1
      <3>1. /\ b \in Lengths /\ d - 1 \in Lengths /\ b <= d - 1 /\ b \in Nat
            /\ (d - 1) - b <= d - a
            /\ \A x \in b .. (d - 1) - 1 :
                  x + 1 \in a .. d - 1 /\ x + 1 \in Ages \ {0} /\ (x + 1) - 1 = x
        BY <2>0, <2>2, <1>0, <1>3, LengthNumbers
      <3>2. /\ \A x \in a .. d - 1 :
                 /\ asked'[x] <= 1
                 /\ asked'[x] = 1 => \A y \in x + 1 .. x + TokenEvery - 1 : y < d => asked'[y] = 0
        BY <1>3 DEF SpacedOn
      <3>3. ASSUME NEW x \in b .. (d - 1) - 1
            PROVE  x + 1 \in a .. d - 1 /\ asked'[x + 1] = asked[x]
        <4>1. x + 1 \in a .. d - 1 /\ x + 1 \in Ages \ {0} /\ (x + 1) - 1 = x
          BY <3>1
        <4>2. asked'[x + 1] = asked[(x + 1) - 1]
          BY <4>1, ClockDoes
        <4>3. QED
          BY <4>1, <4>2
      <3>4. SpacedOn(b, d - 1)
        <4> SUFFICES ASSUME NEW x \in b .. (d - 1) - 1
                     PROVE  /\ asked[x] <= 1
                            /\ asked[x] = 1 =>
                                  \A y \in x + 1 .. x + TokenEvery - 1 : y < d - 1 => asked[y] = 0
          BY DEF SpacedOn
        <4>1. /\ asked'[x + 1] <= 1 /\ asked'[x + 1] = asked[x]
              /\ asked'[x + 1] = 1 =>
                    \A y \in (x + 1) + 1 .. (x + 1) + TokenEvery - 1 : y < d => asked'[y] = 0
          BY <3>2, <3>3
        <4>2. ASSUME asked[x] = 1, NEW y \in x + 1 .. x + TokenEvery - 1, y < d - 1
              PROVE  asked[y] = 0
          <5>1. /\ y \in b .. (d - 1) - 1 /\ y + 1 < d
                /\ y + 1 \in (x + 1) + 1 .. (x + 1) + TokenEvery - 1
            BY <1>0, <2>0, <3>1, <4>2
          <5>2. asked'[y + 1] = 0
            BY <4>1, <4>2, <5>1
          <5>3. QED
            BY <5>1, <5>2, <3>3
        <4>3. QED
          BY <4>1, <4>2
      <3>5. recorded[d - 1] * TokenEvery
              <= recorded[b] * TokenEvery + ((d - 1) - b) + TokenEvery - 1
        BY <3>1, <3>4 DEF RateSpacing
      <3>6. recorded'[d] = recorded[d - 1]
        BY <2>2, ClockDoes
      <3>7. recorded'[a] = recorded[b]
        BY ClockDoes DEF RateCounts
      <3>8. /\ recorded[d - 1] * TokenEvery \in Nat /\ recorded[b] * TokenEvery \in Nat
        BY <3>1, <1>0, <1>a, Product
      <3> HIDE DEF b
      <3>9. recorded'[d] * TokenEvery = recorded[d - 1] * TokenEvery
            /\ recorded'[a] * TokenEvery = recorded[b] * TokenEvery
        BY <3>6, <3>7
      <3>10. QED
        BY <1>0, <2>0, <3>1, <3>5, <3>8, <3>9
    <2>3. QED
      BY <2>1, <2>2
  <1>4. QED
    BY <1>1, <1>2, <1>3 DEF RateSpacing

LEMMA RateStep == RateIInv /\ [RateNext]_rateVars => RateIInv'
  <1> SUFFICES ASSUME RateIInv, [RateNext]_rateVars PROVE RateIInv'
    OBVIOUS
  <1>1. CASE CheckRateLimit
    BY <1>1, CheckKeepsCounts, CheckKeepsSpacing DEF RateIInv
  <1>2. CASE ResetLimits
    BY <1>2, ResetKeeps
  <1>3. CASE WindowMoves
    BY <1>3, ClockKeepsCounts, ClockKeepsSpacing DEF RateIInv
  <1>4. CASE UNCHANGED rateVars
    BY <1>4 DEF rateVars, RateIInv, RateCounts, RateSpacing, QuietOn, SpacedOn, Refilled
  <1>5. QED
    BY <1>1, <1>2, <1>3, <1>4 DEF RateNext

LEMMA RateIInvImplies == RateIInv => RateInvariant
  <1> SUFFICES ASSUME RateCounts PROVE RateInvariant
    BY DEF RateIInv
  <1>1. RateTypeOK
    BY DEF RateCounts, RateTypeOK
  <1>2. /\ WindowLength \in Lengths /\ WindowLimit \in Nat /\ FullCredit \in Nat
        /\ TokenEvery \in Nat /\ \A d \in 1 .. WindowLength : d \in Lengths /\ d \in Nat
    BY LengthNumbers, RateNumbers
  <1>3. \A d \in Lengths : admitted[d] \in Nat /\ recorded[d] \in Nat
    BY DEF RateCounts
  <1>4. AdmittedWithinLimit
    BY <1>2, <1>3 DEF RateCounts, AdmittedWithinLimit
  <1>5. Refilled \in 0 .. FullCredit
    BY RefilledBounds DEF RateCounts
  <1>6. ASSUME NEW d \in 1 .. WindowLength
        PROVE  admitted[d] * TokenEvery <= FullCredit + d - 1
    <2>1. admitted[d] * TokenEvery + Refilled <= FullCredit + d - 1
      BY DEF RateCounts
    <2>2. admitted[d] * TokenEvery \in Nat
      BY <1>2, <1>3, Product
    <2>3. QED
      BY <1>2, <1>5, <2>1, <2>2
  <1>7. QED
    BY <1>1, <1>4, <1>6 DEF RateInvariant, BurstsAreBounded

\* Whatever rate, burst and window: between resets no window lets through more
\* than its limit, and no shorter time more than a burst and what the bucket
\* regains in it, though each part charges what the other refuses
\* (rate_limiter.py:196-233).
THEOREM LimitsHold == RateSpec => []RateInvariant
  <1>1. RateSpec => []RateIInv
    BY RateInitial, RateStep, PTL DEF RateSpec
  <1>2. QED
    BY <1>1, RateIInvImplies, PTL

\* A request that follows the others at the rate finds a token and a place.
LEMMA SpacedIsAdmitted ==
    ASSUME RateIInv, CheckRateLimit, Spaced(asked')
    PROVE  admitted'[1] = 1
  <1> USE DEF RateIInv
  <1>0. /\ TokenEvery \in Nat /\ TokenEvery >= 1 /\ WindowLength \in Nat /\ WindowLength >= 1
        /\ TokenEvery <= WindowLength
        /\ FullCredit \in Nat /\ FullCredit >= TokenEvery
        /\ 1 \in Lengths /\ 1 \in Lengths \ {0} /\ WindowLength \in 1 .. WindowLength
        /\ WindowLength \in Lengths
    BY LengthNumbers, RateNumbers
  <1>1. SpacedOn(0, WindowLength)'
    <2>1. \A a \in Ages : /\ asked'[a] <= 1
                          /\ asked'[a] = 1 =>
                                 \A b \in a + 1 .. a + TokenEvery - 1 :
                                     b \in Ages => asked'[b] = 0
      BY DEF Spaced
    <2>2. \A x \in 0 .. WindowLength - 1 : \A y \in x + 1 .. x + TokenEvery - 1 :
             y < WindowLength => y \in Ages
      BY <1>0, LengthNumbers
    <2>3. Ages = 0 .. WindowLength - 1
      BY LengthNumbers
    <2>4. QED
      BY <2>1, <2>2, <2>3 DEF SpacedOn
  <1>2. /\ \A e \in Lengths : e <= TokenEvery /\ e <= WindowLength => recorded[e] = 0
        /\ recorded[WindowLength] * TokenEvery <= WindowLength - 1
    BY <1>0, <1>1, SpacedBefore
  <1>3. recorded[1] = 0 /\ admitted[1] = 0
    <2>1. recorded[1] = 0
      BY <1>0, <1>2
    <2>2. admitted[1] \in Nat /\ admitted[1] <= recorded[1]
      BY <1>0 DEF RateCounts
    <2>3. QED
      BY <2>1, <2>2
  <1>4. WindowAllows
    <2>1. recorded[WindowLength] \in Nat /\ WindowLimit \in Nat
      BY <1>0, RateNumbers DEF RateCounts
    <2>2. WindowLimit * TokenEvery = WindowLength
      BY RateNumbers
    <2>3. recorded[WindowLength] * TokenEvery \in Nat
      BY <1>0, <2>1, Product
    <2>4. ~ (WindowLimit <= recorded[WindowLength])
      <3>1. WindowLimit <= recorded[WindowLength]
              => WindowLimit * TokenEvery <= recorded[WindowLength] * TokenEvery
        BY <1>0, <2>1, ProductGrows
      <3>2. QED
        BY <3>1, <2>2, <2>3, <1>0, <1>2
    <2>5. QED
      BY <2>1, <2>4 DEF WindowAllows
  <1>5. Refilled >= TokenEvery
    <2>1. /\ credit \in 0 .. FullCredit /\ idle \in 0 .. FullCredit
          /\ Refilled = IF FullCredit < credit + idle THEN FullCredit ELSE credit + idle
      BY RefilledBounds DEF RateCounts
    <2>2. CASE idle >= TokenEvery
      BY <1>0, <2>1, <2>2
    <2>3. CASE idle < TokenEvery
      <3>1. idle \in Ages /\ idle \in Nat
        BY <1>0, <2>1, <2>3, LengthNumbers
      <3>2. asked[idle] = 0
        <4>1. asked'[0] = 1 /\ asked[0] = 0
          <5>1. asked'[0] \in 0 .. 2 /\ asked'[0] >= 1 /\ (asked'[0] <= 1 => asked[0] = 0)
            BY CheckAsks, LengthNumbers
          <5>2. asked'[0] <= 1
            BY <1>0, LengthNumbers DEF Spaced
          <5>3. QED
            BY <5>1, <5>2
        <4>2. CASE idle = 0
          BY <4>1, <4>2
        <4>3. CASE idle # 0
          <5>1. idle \in 0 + 1 .. 0 + TokenEvery - 1 /\ 0 \in Ages /\ idle \in Ages \ {0}
            BY <3>1, <2>3, <4>3, <1>0, LengthNumbers
          <5>2. asked'[idle] = 0
            BY <4>1, <5>1 DEF Spaced
          <5>3. QED
            BY <5>1, <5>2, CheckAsks
        <4>4. QED
          BY <4>2, <4>3
      <3>3. credit = FullCredit
        BY <2>3, <3>2 DEF RateSpacing
      <3>4. QED
        BY <1>0, <2>1, <3>3
    <2>4. QED
      BY <1>0, <2>1, <2>2, <2>3
  <1>6. admitted'[1] = admitted[1] + 1
    BY <1>0, <1>4, <1>5, CheckNotes
  <1>7. QED
    BY <1>3, <1>6

\* A client that keeps to requests_per_second is never refused, for any burst and
\* window: what each part charges for requests the other refuses harms only those
\* who ask faster (rate_limiter.py:210-215).
THEOREM SpacedAdmitted == RateSpec => SpacedRequestsAreAdmitted
  <1>1. RateSpec => []RateIInv
    BY RateInitial, RateStep, PTL DEF RateSpec
  <1>2. RateIInv /\ [RateNext]_rateVars
          => [CheckRateLimit /\ Spaced(asked') => admitted'[1] = 1]_rateVars
    BY SpacedIsAdmitted
  <1>3. QED
    BY <1>1, <1>2, PTL DEF RateSpec, SpacedRequestsAreAdmitted

-----------------------------------------------------------------------------
(***************************************************************************)
(* AuditTrail.  What the loggers remember agrees with every row ever       *)
(* written, in the table or taken out of it: a life's next row will link   *)
(* to its last one.                                                        *)
(***************************************************************************)
Written == ToSet(trail) \cup ToSet(deleted)

RowsLinked(written) ==
    /\ \A s, r \in written : Continues(s, r) => r.prev = s.hash
    /\ \A r \in written : r.nth = 1 => r.prev = NoHash

LoggersAgree(written) ==
    \A r \in written :
        /\ r.hash <= entries
        /\ r.life <= life[r.by]
        /\ r.life = life[r.by] => r.nth <= nth[r.by]
        /\ r.life = life[r.by] /\ r.nth = nth[r.by] => lastHash[r.by] = r.hash

AuditIInv ==
    /\ trail \in Seq(Rows) /\ deleted \in Seq(Rows)
    /\ lastHash \in [Loggers -> 0 .. MaxEntries]
    /\ entries \in 0 .. MaxEntries
    /\ life \in [Loggers -> 1 .. MaxRuns] /\ nth \in [Loggers -> 0 .. MaxEntries]
    /\ \A i, j \in DOMAIN trail : i < j => trail[i].hash < trail[j].hash
    /\ \A d \in ToSet(deleted) : \A i \in DOMAIN trail : trail[i].hash # d.hash
    /\ RowsLinked(Written)
    /\ LoggersAgree(Written)
    /\ \A l \in Loggers : nth[l] <= entries /\ (nth[l] = 0 => lastHash[l] = NoHash)

LEMMA WrittenAreRows ==
    ASSUME AuditIInv
    PROVE  /\ Written \subseteq Rows /\ ToSet(trail) \subseteq Written
           /\ ToSet(deleted) \subseteq Written
           /\ \A i \in DOMAIN trail : trail[i] \in ToSet(trail) /\ trail[i] \in Rows
  BY LenProperties DEF AuditIInv, Written, ToSet

\* What a row holds.
LEMMA RowParts ==
    ASSUME NEW r \in Rows
    PROVE  /\ r.hash \in Nat /\ r.hash >= 1 /\ r.life \in Nat /\ r.nth \in Nat /\ r.nth >= 1
           /\ r.by \in Loggers /\ r.prev \in Nat
  BY AuditAssumption DEF Rows

LEMMA AuditInitial == AuditInit => AuditIInv
  <1> SUFFICES ASSUME AuditInit PROVE AuditIInv
    OBVIOUS
  <1>1. trail = <<>> /\ deleted = <<>> /\ Written = {}
    BY DEF AuditInit, Written, ToSet
  <1>2. trail \in Seq(Rows) /\ deleted \in Seq(Rows) /\ DOMAIN trail = {} /\ ToSet(deleted) = {}
    BY <1>1 DEF ToSet
  <1>3. RowsLinked(Written) /\ LoggersAgree(Written)
    BY <1>1 DEF RowsLinked, LoggersAgree
  <1>4. QED
    BY <1>2, <1>3, AuditAssumption DEF AuditInit, AuditIInv, NoHash

LEMMA AuditLogs ==
    ASSUME AuditIInv, NEW l \in Loggers, LogEntry(l)
    PROVE  AuditIInv'
  <1> DEFINE row == NewRow(l)
  <1>1. /\ entries < MaxEntries /\ trail' = Append(trail, row)
        /\ lastHash' = [lastHash EXCEPT ![l] = entries + 1]
        /\ entries' = entries + 1 /\ nth' = [nth EXCEPT ![l] = nth[l] + 1]
        /\ life' = life /\ deleted' = deleted
    BY DEF LogEntry
  <1>2. /\ MaxEntries \in Nat /\ entries \in Nat /\ nth[l] \in Nat /\ nth[l] <= entries
        /\ life[l] \in 1 .. MaxRuns /\ lastHash[l] \in 0 .. MaxEntries
    BY AuditAssumption DEF AuditIInv
  <1>3. /\ row.hash = entries + 1 /\ row.prev = lastHash[l] /\ row.by = l
        /\ row.life = life[l] /\ row.nth = nth[l] + 1
    BY DEF NewRow
  <1>4. row \in Rows
    <2>1. entries + 1 \in 1 .. MaxEntries /\ nth[l] + 1 \in 1 .. MaxEntries
      BY <1>1, <1>2
    <2>2. QED
      BY <2>1, <1>2 DEF NewRow, Rows
  <1> HIDE DEF row
  <1>5. /\ trail' \in Seq(Rows) /\ DOMAIN trail' = 1 .. Len(trail) + 1
        /\ \A i \in DOMAIN trail : trail'[i] = trail[i]
        /\ trail'[Len(trail) + 1] = row
        /\ ToSet(trail') = ToSet(trail) \cup {row}
    BY <1>1, <1>4, AppendElements DEF AuditIInv
  <1>6. Len(trail) \in Nat /\ DOMAIN trail = 1 .. Len(trail)
    BY LenProperties DEF AuditIInv
  <1>7. Written' = Written \cup {row}
    BY <1>1, <1>5 DEF Written
  <1>8. \A r \in Written : r \in Rows /\ r.hash <= entries
    BY WrittenAreRows DEF AuditIInv, LoggersAgree
  <1>9. \A i \in DOMAIN trail : trail[i].hash \in Nat /\ trail[i].hash <= entries
    BY <1>8, WrittenAreRows, RowParts
  <1>10. ASSUME NEW i \in DOMAIN trail', NEW j \in DOMAIN trail', i < j
         PROVE  trail'[i].hash < trail'[j].hash
    <2>1. i \in DOMAIN trail /\ trail'[i] = trail[i]
      BY <1>5, <1>6, <1>10
    <2>2. CASE j = Len(trail) + 1
      BY <2>1, <2>2, <1>2, <1>3, <1>5, <1>9
    <2>3. CASE j # Len(trail) + 1
      <3>1. j \in DOMAIN trail /\ trail'[j] = trail[j]
        BY <1>5, <1>6, <2>3
      <3>2. QED
        BY <2>1, <3>1, <1>10 DEF AuditIInv
    <2>4. QED
      BY <2>2, <2>3
  <1>11. ASSUME NEW d \in ToSet(deleted'), NEW i \in DOMAIN trail'
         PROVE  trail'[i].hash # d.hash
    <2>1. d \in ToSet(deleted) /\ d \in Written /\ d.hash \in Nat /\ d.hash <= entries
      BY <1>1, <1>8, WrittenAreRows, RowParts
    <2>2. CASE i = Len(trail) + 1
      BY <2>1, <2>2, <1>2, <1>3, <1>5
    <2>3. CASE i # Len(trail) + 1
      <3>1. i \in DOMAIN trail /\ trail'[i] = trail[i]
        BY <1>5, <1>6, <2>3
      <3>2. QED
        BY <2>1, <3>1 DEF AuditIInv
    <2>4. QED
      BY <2>2, <2>3
  <1>12. RowsLinked(Written')
    <2>1. ASSUME NEW s \in Written', NEW r \in Written', Continues(s, r)
          PROVE  r.prev = s.hash
      <3>1. CASE s \in Written /\ r \in Written
        BY <3>1, <2>1 DEF AuditIInv, RowsLinked
      <3>2. CASE r = row /\ s \in Written
        <4>1. s.by = l /\ s.life = life[l] /\ s.nth + 1 = nth[l] + 1 /\ s.nth \in Nat
          BY <3>2, <2>1, <1>3, <1>8, RowParts DEF Continues
        <4>2. s.nth = nth[l]
          BY <4>1, <1>2
        <4>3. lastHash[s.by] = s.hash
          BY <4>1, <4>2, <3>2 DEF AuditIInv, LoggersAgree
        <4>4. QED
          BY <4>1, <4>3, <3>2, <1>3
      <3>3. CASE s = row /\ r \in Written
        <4>1. r.by = l /\ r.life = life[l] /\ r.nth = nth[l] + 2
          BY <3>3, <2>1, <1>2, <1>3 DEF Continues
        <4>2. r.nth <= nth[l]
          BY <4>1, <3>3 DEF AuditIInv, LoggersAgree
        <4>3. QED
          BY <4>1, <4>2, <1>2
      <3>4. CASE s = row /\ r = row
        BY <3>4, <2>1, <1>2, <1>3 DEF Continues
      <3>5. QED
        BY <1>7, <3>1, <3>2, <3>3, <3>4
    <2>2. ASSUME NEW r \in Written', r.nth = 1
          PROVE  r.prev = NoHash
      <3>1. CASE r \in Written
        BY <3>1, <2>2 DEF AuditIInv, RowsLinked
      <3>2. CASE r = row
        <4>1. nth[l] = 0
          BY <3>2, <2>2, <1>2, <1>3
        <4>2. QED
          BY <4>1, <3>2, <1>3 DEF AuditIInv
      <3>3. QED
        BY <1>7, <3>1, <3>2
    <2>3. QED
      BY <2>1, <2>2 DEF RowsLinked
  <1>13. /\ \A k \in Loggers : k # l => nth'[k] = nth[k] /\ lastHash'[k] = lastHash[k]
         /\ nth'[l] = nth[l] + 1 /\ lastHash'[l] = entries + 1
         /\ nth' \in [Loggers -> 0 .. MaxEntries] /\ lastHash' \in [Loggers -> 0 .. MaxEntries]
    <2>1. entries + 1 \in 0 .. MaxEntries /\ nth[l] + 1 \in 0 .. MaxEntries
      BY <1>1, <1>2
    <2>2. nth \in [Loggers -> 0 .. MaxEntries] /\ lastHash \in [Loggers -> 0 .. MaxEntries]
      BY DEF AuditIInv
    <2>3. QED
      BY <1>1, <2>1, <2>2
  <1>14. LoggersAgree(Written)'
    <2> SUFFICES ASSUME NEW r \in Written'
                 PROVE  /\ r.hash <= entries' /\ r.life <= life[r.by]
                        /\ r.life = life[r.by] => r.nth <= nth'[r.by]
                        /\ r.life = life[r.by] /\ r.nth = nth'[r.by] => lastHash'[r.by] = r.hash
      BY <1>1 DEF LoggersAgree
    <2>1. CASE r = row
      BY <2>1, <1>1, <1>2, <1>3, <1>13
    <2>2. CASE r \in Written
      <3>1. /\ r.hash <= entries /\ r.life <= life[r.by]
            /\ r.life = life[r.by] => r.nth <= nth[r.by]
            /\ r.life = life[r.by] /\ r.nth = nth[r.by] => lastHash[r.by] = r.hash
            /\ r.hash \in Nat /\ r.nth \in Nat /\ r.by \in Loggers
        BY <2>2, <1>8, RowParts DEF AuditIInv, LoggersAgree
      <3>2. CASE r.by = l
        BY <3>1, <3>2, <1>1, <1>2, <1>13
      <3>3. CASE r.by # l
        BY <3>1, <3>3, <1>1, <1>2, <1>13
      <3>4. QED
        BY <3>2, <3>3
    <2>3. QED
      BY <1>7, <2>1, <2>2
  <1>15. ASSUME NEW k \in Loggers
         PROVE  nth'[k] <= entries' /\ (nth'[k] = 0 => lastHash'[k] = NoHash)
    <2>1. nth[k] \in Nat /\ nth[k] <= entries /\ (nth[k] = 0 => lastHash[k] = NoHash)
      BY AuditAssumption DEF AuditIInv
    <2>2. QED
      BY <2>1, <1>1, <1>2, <1>13
  <1>16. entries' \in 0 .. MaxEntries /\ life' \in [Loggers -> 1 .. MaxRuns]
         /\ deleted' \in Seq(Rows)
    BY <1>1, <1>2 DEF AuditIInv
  <1>17. QED
    BY <1>5, <1>10, <1>11, <1>12, <1>13, <1>14, <1>15, <1>16 DEF AuditIInv, RowsLinked

\* A commit that fails uses up a number and changes nothing else.
LEMMA AuditFails ==
    ASSUME AuditIInv, NEW l \in Loggers, LogFails(l)
    PROVE  AuditIInv'
  <1>1. /\ entries < MaxEntries /\ entries' = entries + 1 /\ lastHash' = lastHash
        /\ trail' = trail /\ life' = life /\ nth' = nth /\ deleted' = deleted
        /\ Written' = Written
    BY DEF LogFails, AfterFailure, Written
  <1>2. /\ entries \in Nat /\ MaxEntries \in Nat /\ entries' \in 0 .. MaxEntries
    BY <1>1, AuditAssumption DEF AuditIInv
  <1>3. LoggersAgree(Written)'
    <2>1. \A r \in Written : r.hash \in Nat /\ r.hash <= entries
      BY WrittenAreRows, RowParts DEF AuditIInv, LoggersAgree
    <2>2. \A r \in Written : r.hash <= entries'
      BY <2>1, <1>1, <1>2
    <2>3. QED
      BY <2>2, <1>1 DEF AuditIInv, LoggersAgree
  <1>4. \A k \in Loggers : nth'[k] <= entries' /\ (nth'[k] = 0 => lastHash'[k] = NoHash)
    <2>1. \A k \in Loggers :
             nth[k] \in Nat /\ nth[k] <= entries /\ (nth[k] = 0 => lastHash[k] = NoHash)
      BY AuditAssumption DEF AuditIInv
    <2>2. QED
      BY <2>1, <1>1, <1>2
  <1>5. QED
    BY <1>1, <1>2, <1>3, <1>4 DEF AuditIInv, RowsLinked

\* A logger that starts again remembers nothing; its new life has no row yet.
LEMMA AuditRestarts ==
    ASSUME AuditIInv, NEW l \in Loggers, RestartLogger(l)
    PROVE  AuditIInv'
  <1>1. /\ life[l] < MaxRuns /\ life' = [life EXCEPT ![l] = life[l] + 1]
        /\ nth' = [nth EXCEPT ![l] = 0] /\ lastHash' = [lastHash EXCEPT ![l] = 0]
        /\ trail' = trail /\ entries' = entries /\ deleted' = deleted /\ Written' = Written
    BY DEF RestartLogger, Written, NoHash
  <1>2. /\ entries \in Nat /\ MaxEntries \in Nat /\ MaxRuns \in Nat
        /\ life \in [Loggers -> 1 .. MaxRuns] /\ nth \in [Loggers -> 0 .. MaxEntries]
        /\ lastHash \in [Loggers -> 0 .. MaxEntries]
    BY AuditAssumption DEF AuditIInv
  <1>3. life[l] + 1 \in 1 .. MaxRuns /\ 0 \in 0 .. MaxEntries
    BY <1>1, <1>2
  <1>4. /\ life' \in [Loggers -> 1 .. MaxRuns] /\ nth' \in [Loggers -> 0 .. MaxEntries]
        /\ lastHash' \in [Loggers -> 0 .. MaxEntries]
        /\ life'[l] = life[l] + 1 /\ nth'[l] = 0 /\ lastHash'[l] = 0
        /\ \A k \in Loggers :
              k # l => life'[k] = life[k] /\ nth'[k] = nth[k] /\ lastHash'[k] = lastHash[k]
    BY <1>1, <1>2, <1>3
  <1>5. LoggersAgree(Written)'
    <2> SUFFICES ASSUME NEW r \in Written
                 PROVE  /\ r.hash <= entries /\ r.life <= life'[r.by]
                        /\ r.life = life'[r.by] => r.nth <= nth'[r.by]
                        /\ r.life = life'[r.by] /\ r.nth = nth'[r.by]
                             => lastHash'[r.by] = r.hash
      BY <1>1 DEF LoggersAgree
    <2>1. /\ r.hash <= entries /\ r.life <= life[r.by]
          /\ r.life = life[r.by] => r.nth <= nth[r.by]
          /\ r.life = life[r.by] /\ r.nth = nth[r.by] => lastHash[r.by] = r.hash
          /\ r.life \in Nat /\ r.by \in Loggers
      BY WrittenAreRows, RowParts DEF AuditIInv, LoggersAgree
    <2>2. CASE r.by = l
      <3>1. life[l] \in Nat
        BY <1>2
      <3>2. r.life <= life'[r.by] /\ r.life # life'[r.by]
        BY <2>1, <2>2, <3>1, <1>4
      <3>3. QED
        BY <2>1, <3>2
    <2>3. CASE r.by # l
      BY <2>1, <2>3, <1>4
    <2>4. QED
      BY <2>2, <2>3
  <1>6. \A k \in Loggers : nth'[k] <= entries' /\ (nth'[k] = 0 => lastHash'[k] = NoHash)
    BY <1>1, <1>2, <1>4 DEF AuditIInv, NoHash
  <1>7. QED
    BY <1>1, <1>4, <1>5, <1>6 DEF AuditIInv, RowsLinked

\* A row taken out is still one of those ever written.
LEMMA AuditDeletes ==
    ASSUME AuditIInv, DeleteRow
    PROVE  AuditIInv'
  <1>1. PICK i \in DOMAIN trail :
           trail' = RemoveAt(trail, i) /\ deleted' = Append(deleted, trail[i])
    BY DEF DeleteRow
  <1>2. lastHash' = lastHash /\ entries' = entries /\ life' = life /\ nth' = nth
    BY DEF DeleteRow
  <1>3. trail \in Seq(Rows) /\ deleted \in Seq(Rows) /\ trail[i] \in Rows
    BY WrittenAreRows DEF AuditIInv
  <1>4. /\ trail' \in Seq(Rows)
        /\ \A k \in DOMAIN trail' : \E j \in DOMAIN trail : j # i /\ trail'[k] = trail[j]
        /\ \A j \in DOMAIN trail : j # i => \E k \in DOMAIN trail' : trail'[k] = trail[j]
        /\ \A k, m \in DOMAIN trail' : k < m =>
              \E j, n \in DOMAIN trail :
                 j < n /\ j # i /\ n # i /\ trail'[k] = trail[j] /\ trail'[m] = trail[n]
    BY <1>1, <1>3, RemoveAtElements
  <1>5. deleted' \in Seq(Rows) /\ ToSet(deleted') = ToSet(deleted) \cup {trail[i]}
    BY <1>1, <1>3, AppendElements
  <1>6. Written' = Written
    <2>1. ToSet(trail') \subseteq ToSet(trail)
      BY <1>4 DEF ToSet
    <2>2. ToSet(trail) \subseteq ToSet(trail') \cup {trail[i]}
      BY <1>4 DEF ToSet
    <2>3. trail[i] \in ToSet(trail)
      BY WrittenAreRows
    <2>4. QED
      BY <2>1, <2>2, <2>3, <1>5 DEF Written
  <1>a. \A j, n \in DOMAIN trail : j < n => trail[j].hash < trail[n].hash
    BY DEF AuditIInv
  <1>7. ASSUME NEW k \in DOMAIN trail', NEW m \in DOMAIN trail', k < m
        PROVE  trail'[k].hash < trail'[m].hash
    <2>1. \A x, y \in DOMAIN trail' : x < y =>
             \E j, n \in DOMAIN trail : j < n /\ trail'[x] = trail[j] /\ trail'[y] = trail[n]
      BY <1>4
    <2>2. PICK j \in DOMAIN trail, n \in DOMAIN trail :
             j < n /\ trail'[k] = trail[j] /\ trail'[m] = trail[n]
      BY <2>1, <1>7, Zenon
    <2>3. trail[j].hash < trail[n].hash
      BY <1>a, <2>2, Zenon
    <2>4. QED
      BY <2>2, <2>3, Zenon
  <1>8. ASSUME NEW d \in ToSet(deleted'), NEW k \in DOMAIN trail'
        PROVE  trail'[k].hash # d.hash
    <2>1. PICK j \in DOMAIN trail : j # i /\ trail'[k] = trail[j]
      BY <1>4
    <2>2. CASE d \in ToSet(deleted)
      BY <2>1, <2>2 DEF AuditIInv
    <2>3. CASE d = trail[i]
      <3>1. trail[i].hash \in Nat /\ trail[j].hash \in Nat /\ i \in Int /\ j \in Int
        BY WrittenAreRows, RowParts, LenProperties DEF AuditIInv
      <3>2. trail[i].hash < trail[j].hash \/ trail[j].hash < trail[i].hash
        <4>1. i < j \/ j < i
          BY <2>1, <3>1
        <4>2. QED
          BY <1>a, <4>1, Zenon
      <3>3. QED
        BY <2>1, <2>3, <3>1, <3>2
    <2>4. QED
      BY <1>5, <2>2, <2>3
  <1>9. QED
    BY <1>2, <1>4, <1>5, <1>6, <1>7, <1>8 DEF AuditIInv, RowsLinked, LoggersAgree

LEMMA AuditStep == AuditIInv /\ [AuditNext]_auditVars => AuditIInv'
  <1> SUFFICES ASSUME AuditIInv, [AuditNext]_auditVars PROVE AuditIInv'
    OBVIOUS
  <1>1. CASE UNCHANGED auditVars
    <2>1. UNCHANGED <<trail, lastHash, entries, life, nth, deleted>>
      BY <1>1 DEF auditVars
    <2>2. Written' = Written
      BY <2>1 DEF Written
    <2>3. QED
      BY <2>1, <2>2 DEF AuditIInv, RowsLinked, LoggersAgree
  <1>2. QED
    BY <1>1, AuditLogs, AuditFails, AuditRestarts, AuditDeletes DEF AuditNext, VerifyChain

LEMMA AuditIInvImplies == AuditIInv => AuditInvariant
  <1> SUFFICES ASSUME AuditIInv PROVE AuditInvariant
    OBVIOUS
  <1>1. /\ Len(trail) \in Nat /\ DOMAIN trail = 1 .. Len(trail)
        /\ \A i \in DOMAIN trail :
              /\ trail[i] \in Rows /\ trail[i] \in Written
              /\ trail[i].nth \in Nat /\ trail[i].nth >= 1 /\ trail[i].hash >= 1
              /\ trail[i].hash \in Nat
    BY WrittenAreRows, RowParts, LenProperties DEF AuditIInv
  <1>2. AuditTypeOK
    BY <1>1 DEF AuditIInv, AuditTypeOK
  <1>3. ASSUME NEW first \in DOMAIN trail, NEW i \in LinkErrors(first)
        PROVE  \/ i > first /\ ~ Continues(trail[i - 1], trail[i])
               \/ i = first /\ trail[i].nth > 1
    <2>1. i \in first .. Len(trail) /\ trail[i].prev # ExpectedHash(first, i)
      BY DEF LinkErrors
    <2>2. first \in Nat /\ first >= 1 /\ i \in DOMAIN trail /\ i \in Nat /\ i >= first
      BY <2>1, <1>1
    <2>3. CASE i = first
      <3>1. trail[i].prev # NoHash
        BY <2>1, <2>3 DEF ExpectedHash
      <3>2. trail[i].nth # 1
        BY <3>1, <2>2, <1>1 DEF AuditIInv, RowsLinked
      <3>3. QED
        BY <3>2, <2>2, <2>3, <1>1
    <2>4. CASE i # first
      <3>1. i > first /\ i - 1 \in DOMAIN trail
        BY <2>2, <2>4, <1>1
      <3>2. trail[i].prev # trail[i - 1].hash
        BY <2>1, <2>4 DEF ExpectedHash
      <3>3. QED
        BY <3>1, <3>2, <2>2, <1>1 DEF AuditIInv, RowsLinked
    <2>5. QED
      BY <2>3, <2>4
  <1>4. ASSUME NEW d \in ToSet(deleted), NEW i \in DOMAIN trail, Continues(d, trail[i]),
               NEW first \in 1 .. i
        PROVE  i \in LinkErrors(first)
    <2>1. d \in Written /\ d.hash >= 1 /\ d.hash \in Nat
      BY WrittenAreRows, RowParts
    <2>2. trail[i].prev = d.hash /\ i \in first .. Len(trail)
      BY <2>1, <1>1, <1>4 DEF AuditIInv, RowsLinked
    <2>3. CASE i = first
      BY <2>1, <2>2, <2>3 DEF LinkErrors, ExpectedHash, NoHash
    <2>4. CASE i # first
      <3>1. i - 1 \in DOMAIN trail
        BY <2>4, <1>1
      <3>2. trail[i - 1].hash # d.hash
        BY <3>1 DEF AuditIInv
      <3>3. QED
        BY <3>2, <2>2, <2>4 DEF LinkErrors, ExpectedHash
    <2>5. QED
      BY <2>3, <2>4
  <1>5. QED
    BY <1>2, <1>3, <1>4 DEF AuditInvariant, MismatchesHaveCause, DeletionsAreSeen

\* For any number of loggers, restarts, failed commits and deletions: what one
\* logger writes in one life links up, so verify_chain reports a mismatch only
\* where a life begins, rows of two loggers meet, a row is gone or it was told
\* to begin, and always reports a row taken out from before a later one of its
\* life (audit_logger.py:150-260).
THEOREM TrailSafe == AuditSpec => []AuditInvariant
  <1>1. AuditSpec => []AuditIInv
    BY AuditInitial, AuditStep, PTL DEF AuditSpec
  <1>2. QED
    BY <1>1, AuditIInvImplies, PTL

-----------------------------------------------------------------------------
(***************************************************************************)
(* Backups.  Nothing newer than the last success lies beside it unless the *)
(* directory was spoilt since, so a cleanup lists it first.                *)
(***************************************************************************)
BackupIInv ==
    /\ BackupTypeOK
    /\ lastGood <= second
    /\ \A f \in backups : f.name <= second
    /\ lastGood # 0 /\ ~ spoilt =>
           /\ [name |-> lastGood, whole |-> TRUE] \in backups
           /\ \A f \in backups : f.name <= lastGood

LEMMA BackupInitial == BackupInit => BackupIInv
  <1> SUFFICES ASSUME BackupInit PROVE BackupIInv
    OBVIOUS
  <1>1. spoilt \in BOOLEAN /\ ~ (lastGood # 0)
    BY DEF BackupInit
  <1>2. QED
    BY <1>1, BackupAssumption DEF BackupInit, BackupIInv, BackupTypeOK

\* A file of this second takes the place of one that may have been there.
LEMMA OthersAndOne ==
    ASSUME BackupIInv, NEW w \in BOOLEAN
    PROVE  LET new == [name |-> second, whole |-> w]
           IN  /\ Others \cup {new} \subseteq Files
               /\ \A f, g \in Others \cup {new} : f.name = g.name => f = g
               /\ \A f \in Others \cup {new} : f.name <= second
  <1> DEFINE new == [name |-> second, whole |-> w]
  <1>1. new \in Files /\ new.name = second
    BY DEF BackupIInv, BackupTypeOK, Files
  <1>2. second \in Nat
    BY BackupAssumption DEF BackupIInv, BackupTypeOK
  <1> HIDE DEF new
  <1>3. Others \subseteq backups /\ \A f \in Others : f.name # second
    BY DEF Others
  <1>4. QED
    BY <1>1, <1>2, <1>3 DEF BackupIInv, BackupTypeOK, new

LEMMA BackupStep == BackupIInv /\ [BackupNext]_backupVars => BackupIInv'
  <1> SUFFICES ASSUME BackupIInv, [BackupNext]_backupVars PROVE BackupIInv'
    OBVIOUS
  <1>0. /\ MaxSeconds \in Nat /\ second \in Nat /\ lastGood \in Nat /\ second >= 1
        /\ second \in 1 .. MaxSeconds /\ lastGood \in 0 .. MaxSeconds
        /\ lastGood <= second /\ backups \subseteq Files
        /\ \A f, g \in backups : f.name = g.name => f = g
        /\ \A f \in backups : f.name <= second
        /\ \A f \in backups : f.name \in Nat
    BY BackupAssumption DEF BackupIInv, BackupTypeOK, Files
  <1>b. spoilt \in BOOLEAN
    BY DEF BackupIInv, BackupTypeOK
  <1>g. lastGood # 0 /\ ~ spoilt =>
           /\ [name |-> lastGood, whole |-> TRUE] \in backups
           /\ \A f \in backups : f.name <= lastGood
    BY DEF BackupIInv
  <1>1. CASE CreateSucceeds
    <2>1. /\ backups' = Others \cup {[name |-> second, whole |-> TRUE]}
          /\ lastGood' = second /\ second' = second /\ spoilt' = FALSE
      BY <1>1 DEF CreateSucceeds
    <2>2. /\ backups' \subseteq Files
          /\ \A f, g \in backups' : f.name = g.name => f = g
          /\ \A f \in backups' : f.name <= second
      BY <2>1, OthersAndOne
    <2>3. [name |-> second, whole |-> TRUE] \in backups' /\ spoilt' \in BOOLEAN
      BY <2>1
    <2>4. QED
      BY <1>0, <2>1, <2>2, <2>3 DEF BackupIInv, BackupTypeOK
  <1>2. CASE CreateFails
    <2>1. /\ backups' = Others /\ second' = second /\ lastGood' = lastGood
          /\ spoilt' = (spoilt \/ lastGood = second)
      BY <1>2 DEF CreateFails
    <2>2. backups' \subseteq backups /\ \A f \in backups : f.name # second => f \in backups'
      BY <2>1 DEF Others
    <2>3. spoilt' \in BOOLEAN
      BY <2>1, Zenon
    <2>4. lastGood # 0 /\ ~ spoilt' =>
             /\ [name |-> lastGood, whole |-> TRUE] \in backups'
             /\ \A f \in backups' : f.name <= lastGood
      <3> SUFFICES ASSUME lastGood # 0, ~ spoilt'
                   PROVE  /\ [name |-> lastGood, whole |-> TRUE] \in backups'
                          /\ \A f \in backups' : f.name <= lastGood
        OBVIOUS
      <3>1. ~ spoilt /\ lastGood # second
        BY <2>1, Zenon
      <3>2. [name |-> lastGood, whole |-> TRUE].name = lastGood
        OBVIOUS
      <3>3. QED
        BY <3>1, <3>2, <1>g, <2>2
    <2>5. QED
      BY <1>0, <2>1, <2>2, <2>3, <2>4 DEF BackupIInv, BackupTypeOK
  <1>3. CASE DiesInDump
    <2>1. /\ backups' = Others \cup {[name |-> second, whole |-> FALSE]}
          /\ lastGood' = lastGood /\ second' = second /\ spoilt' = (lastGood # 0)
      BY <1>3 DEF DiesInDump
    <2>2. /\ backups' \subseteq Files
          /\ \A f, g \in backups' : f.name = g.name => f = g
          /\ \A f \in backups' : f.name <= second
      BY <2>1, OthersAndOne
    <2>3. spoilt' \in BOOLEAN /\ ~ (lastGood # 0 /\ ~ spoilt')
      BY <2>1, Zenon
    <2>4. QED
      BY <1>0, <2>1, <2>2, <2>3 DEF BackupIInv, BackupTypeOK
  <1>4. CASE SecondPasses
    <2>1. /\ backups' = backups /\ second < MaxSeconds /\ second' = second + 1
          /\ lastGood' = lastGood /\ spoilt' = spoilt
      BY <1>4 DEF SecondPasses
    <2>2. second' \in 1 .. MaxSeconds /\ lastGood' <= second'
          /\ \A f \in backups' : f.name <= second'
      BY <1>0, <2>1
    <2>3. QED
      BY <1>0, <1>b, <1>g, <2>1, <2>2 DEF BackupIInv, BackupTypeOK
  <1>5. ASSUME NEW keep \in KeepCounts, CleanupOldBackups(keep) PROVE BackupIInv'
    <2>1. PICK stuck \in SUBSET backups :
             backups' = {f \in backups : Cardinality(ListedBefore(f)) < keep} \cup stuck
      BY <1>5 DEF CleanupOldBackups
    <2>2. second' = second /\ lastGood' = lastGood /\ spoilt' = spoilt
      BY <1>5 DEF CleanupOldBackups
    <2>3. backups' \subseteq backups
      BY <2>1
    <2>4. keep \in Nat /\ 0 < keep
      BY BackupAssumption
    <2>5. ASSUME lastGood # 0, ~ spoilt
          PROVE  [name |-> lastGood, whole |-> TRUE] \in backups'
      <3> DEFINE good == [name |-> lastGood, whole |-> TRUE]
      <3>1. good \in backups /\ good.name = lastGood /\ \A f \in backups : ~ (f.name > lastGood)
        BY <2>5, <1>0, <1>g
      <3> HIDE DEF good
      <3>2. ListedBefore(good) = {}
        BY <3>1 DEF ListedBefore
      <3>3. Cardinality(ListedBefore(good)) < keep
        BY <3>2, <2>4, FS_EmptySet
      <3>4. QED
        BY <3>1, <3>3, <2>1 DEF good
    <2>6. QED
      BY <1>0, <1>b, <1>g, <2>2, <2>3, <2>5 DEF BackupIInv, BackupTypeOK
  <1>6. CASE UNCHANGED backupVars
    BY <1>6 DEF backupVars, BackupIInv, BackupTypeOK
  <1>7. QED
    BY <1>1, <1>2, <1>3, <1>4, <1>5, <1>6 DEF BackupNext, Restore

\* Whatever is kept, fails or stays stuck: the last backup reported as a success
\* is there, whole, unless a process died in a later dump or a dump of the same
\* second failed (data_retention.py:540-690).
THEOREM BackupsSafe == BackupSpec => []BackupInvariant
  <1>1. BackupSpec => []BackupIInv
    BY BackupInitial, BackupStep, PTL DEF BackupSpec
  <1>2. BackupIInv => BackupInvariant
    BY DEF BackupIInv, BackupInvariant, LatestBackupRemains
  <1>3. QED
    BY <1>1, <1>2, PTL

-----------------------------------------------------------------------------
(* The services side by side.                                              *)

LEMMA StepsOfServices ==
    ASSUME [ServicesNext]_serviceVars
    PROVE  /\ [Next]_vars /\ [RateNext]_rateVars /\ [BulkNext]_bulkVars
           /\ [RetryNext]_retryVars /\ [AuditNext]_auditVars /\ [BackupNext]_backupVars
  <1>1. CASE UNCHANGED serviceVars
    BY <1>1 DEF serviceVars
  <1>2. CASE ServicesNext
    BY <1>2 DEF ServicesNext
  <1>3. QED
    BY <1>1, <1>2

\* Each service keeps what it promises in every behaviour of them together.
THEOREM CoreServicesSafe ==
    ServicesSpec => /\ [](/\ BreakerInvariant /\ RateInvariant /\ BulkheadInvariant
                          /\ RetryInvariant /\ AuditInvariant /\ BackupInvariant)
                    /\ SpacedRequestsAreAdmitted
  <1>1. ServicesInit => /\ Init /\ RateInit /\ BulkInit
                        /\ RetryInit /\ AuditInit /\ BackupInit
    BY DEF ServicesInit
  <1>2. [ServicesNext]_serviceVars =>
           /\ [Next]_vars /\ [RateNext]_rateVars /\ [BulkNext]_bulkVars
           /\ [RetryNext]_retryVars /\ [AuditNext]_auditVars /\ [BackupNext]_backupVars
    BY StepsOfServices
  <1>3. ServicesSpec => /\ Spec /\ RateSpec /\ BulkSpec /\ RetrySpec /\ AuditSpec /\ BackupSpec
    BY <1>1, <1>2, PTL
    DEF ServicesSpec, Spec, RateSpec, BulkSpec, RetrySpec, AuditSpec, BackupSpec
  <1>4. QED
    BY <1>3, BreakerAgrees, LimitsHold, BulkheadSafe, RetrySafe, TrailSafe, BackupsSafe,
       SpacedAdmitted, PTL
=============================================================================
