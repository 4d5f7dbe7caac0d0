----------------------------- MODULE RateLimits -----------------------------
(***************************************************************************)
(* RateLimiter (src/core/rate_limiter.py) for one key: a token bucket and  *)
(* a sliding window that both judge, and both charge, every request.  No   *)
(* coroutine is suspended inside a check (its locks are never held across  *)
(* an await), so a check is one step.  Time is relative: the bucket knows  *)
(* how long ago it was refilled, the window how many of its requests are   *)
(* younger than each length of time.  Credit is kept in time units: a      *)
(* token is TokenEvery of them.                                            *)
(***************************************************************************)
EXTENDS Naturals

CONSTANTS
    TokenEvery,     \* 1 / requests_per_second
    BurstSize,      \* burst_size
    WindowLength    \* window_seconds

ASSUME RateAssumption ==
    /\ TokenEvery \in Nat \ {0} /\ BurstSize \in Nat \ {0}
    /\ WindowLength \in Nat \ {0} /\ WindowLength % TokenEvery = 0

VARIABLES
    credit,         \* _tokens, in time units
    idle,           \* time since _last_update, up to a full refill
    recorded,       \* _requests: how many are younger than each length of time
    asked,          \* history: all requests, by age; 2 stands for several
    admitted        \* history: the requests let through, counted like recorded

rateVars == <<credit, idle, recorded, asked, admitted>>

Ages == 0 .. WindowLength - 1
Lengths == 0 .. WindowLength
FullCredit == BurstSize * TokenEvery
WindowLimit == WindowLength \div TokenEvery
NoneAsked == [a \in Ages |-> 0]
NoneYounger == [d \in Lengths |-> 0]

RateInit ==
    /\ credit = FullCredit
    /\ idle = 0
    /\ recorded = NoneYounger /\ asked = NoneAsked /\ admitted = NoneYounger
-----------------------------------------------------------------------------
Least(m, n) == IF m < n THEN m ELSE n

(* The tokens that came in since the last call.  The mutant forgets the    *)
(* bucket's size.                                                          *)
RefilledPastFull == credit + idle
Refilled == Least(FullCredit, credit + idle)

(* allow(): fewer requests in the window than its limit.                   *)
WindowAllows == recorded[WindowLength] < WindowLimit

(* One more request of age 0, younger than any length but 0.               *)
Noting(younger, yes) ==
    IF yes THEN [d \in Lengths |-> IF d = 0 THEN 0 ELSE younger[d] + 1] ELSE younger

(* check_rate_limit: the bucket is asked, then the window, whatever the    *)
(* bucket said.  Each charges what it allows, though the other refuses.    *)
CheckRateLimit ==
    LET bucketAllows == Refilled >= TokenEvery
    IN  /\ asked[0] <= WindowLimit      \* bound: requests at one instant
        /\ credit' = IF bucketAllows THEN Refilled - TokenEvery ELSE Refilled
        /\ idle' = 0
        /\ recorded' = Noting(recorded, WindowAllows)
        /\ asked' = [asked EXCEPT ![0] = Least(2, @ + 1)]
        /\ admitted' = Noting(admitted, bucketAllows /\ WindowAllows)

(* reset: the key's bucket and window are dropped; the next check makes    *)
(* new ones.  The histories speak of the time since.                       *)
ResetLimits ==
    /\ asked # NoneAsked
    /\ credit' = FullCredit
    /\ idle' = 0
    /\ recorded' = NoneYounger /\ asked' = NoneAsked /\ admitted' = NoneYounger

(* What was of an age, or younger than a length, is so of the next one.    *)
Aged(of) == [a \in DOMAIN of |-> IF a = 0 THEN 0 ELSE of[a - 1]]

(* What the window still counts when time has passed: the cutoff is        *)
(* strict, a request WindowLength old is out.  The mutant keeps it longer. *)
CountedLonger(younger) == [Aged(younger) EXCEPT ![WindowLength] = younger[WindowLength]]
Counted(younger) == Aged(younger)

(* The clock.                                                              *)
WindowMoves ==
    /\ idle' = Least(FullCredit, idle + 1)
    /\ recorded' = Counted(recorded)
    /\ asked' = Aged(asked)
    /\ admitted' = Aged(admitted)
    /\ UNCHANGED credit

RateNext == CheckRateLimit \/ ResetLimits \/ WindowMoves

RateSpec == RateInit /\ [][RateNext]_rateVars
-----------------------------------------------------------------------------
(* The bucket never holds more than its size, the window no more requests  *)
(* than its limit.                                                         *)
RateTypeOK ==
    /\ credit \in 0 .. FullCredit /\ idle \in 0 .. FullCredit
    /\ {recorded, admitted} \subseteq [Lengths -> Nat] /\ asked \in [Ages -> 0 .. 2]
    /\ recorded[WindowLength] <= WindowLimit

(* Between resets no window of window_seconds lets through more than       *)
(* requests_per_second times its length, though the bucket alone would     *)
(* (rate_limiter.py:210-215).                                              *)
AdmittedWithinLimit == admitted[WindowLength] <= WindowLimit

(* In any shorter time at most a burst and what the bucket regains in that *)
(* time pass: refused requests and pauses earn no credit.                  *)
BurstsAreBounded ==
    \A d \in 1 .. WindowLength :
        admitted[d] * TokenEvery <= FullCredit + d - 1

(* The requests asked for are as far apart as the rate wants.              *)
Spaced(requests) ==
    \A a \in Ages : /\ requests[a] <= 1
                    /\ requests[a] = 1 =>
                           \A b \in a + 1 .. a + TokenEvery - 1 :
                               b \in Ages => requests[b] = 0

(* A client that keeps to the rate is never refused: what the two parts    *)
(* charge for requests the other refuses harms only those that ask faster. *)
SpacedRequestsAreAdmitted ==
    [][CheckRateLimit /\ Spaced(asked') => admitted'[1] = 1]_rateVars

(* What holds of the limiter at any time: the parts above.                 *)
RateInvariant == RateTypeOK /\ AdmittedWithinLimit /\ BurstsAreBounded
=============================================================================
