----------------------------- MODULE MarketData -----------------------------
(***************************************************************************)
(* Where ticks come from and what becomes of them, part by part: the feed  *)
(* manager, the bar aggregator, the heartbeat monitor, the watchers of     *)
(* prices and the fake-spike filter.  Ticks reach each of them, but        *)
(* nothing one of them keeps is read by another, so what one does while    *)
(* another moves adds nothing: a behaviour follows one of them, chosen at  *)
(* first.                                                                  *)
(***************************************************************************)
EXTENDS FeedManager, TickAggregator, HeartbeatMonitor, PriceMonitors, FakeSpikeFilter

VARIABLE followed

vars == <<feedVars, barVars, beatVars, watchVars, filterVars, followed>>

Init ==
    /\ FeedInit /\ AggregatorInit /\ HeartbeatInit /\ WatchInit /\ FilterInit
    /\ followed \in {"feeds", "aggregator", "heartbeat", "prices", "filter"}

Next ==
    /\ UNCHANGED followed
    /\ \/ /\ followed = "feeds" /\ FeedNext
          /\ UNCHANGED <<barVars, beatVars, watchVars, filterVars>>
       \/ /\ followed = "aggregator" /\ AggregatorNext
          /\ UNCHANGED <<feedVars, beatVars, watchVars, filterVars>>
       \/ /\ followed = "heartbeat" /\ HeartbeatNext
          /\ UNCHANGED <<feedVars, barVars, watchVars, filterVars>>
       \/ /\ followed = "prices" /\ WatchNext
          /\ UNCHANGED <<feedVars, barVars, beatVars, filterVars>>
       \/ /\ followed = "filter" /\ FilterNext
          /\ UNCHANGED <<feedVars, barVars, beatVars, watchVars>>

\* The fairness each part has on its own, for the one that is followed.
MarketFairness ==
    \/ followed = "feeds" /\ FeedFairness
    \/ followed = "filter" /\ FilterFairness
    \/ followed \in {"aggregator", "heartbeat", "prices"}

Spec == Init /\ [][Next]_vars /\ MarketFairness
=============================================================================
