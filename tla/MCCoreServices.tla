--------------------------- MODULE MCCoreServices ---------------------------
(* The breaker: three callers, tripped by two failures, closed by two       *)
(* successes.  Limits: a burst of two, three requests in six units.  The    *)
(* bulkhead: four jobs, two permits, two places in the queue.  Audit: two   *)
(* loggers, each started twice.  WebSockets: a client that chooses among    *)
(* two topics and one that is served one topic, whose endpoints end, so     *)
(* that a behaviour may.  No symmetry: the run checks liveness.             *)
EXTENDS CoreServices, TLC

CONSTANTS chooser, follower, orders, signals

Endpoints == (chooser :> AnyTopic) @@ (follower :> orders)
=============================================================================
