---------------------------- MODULE PriceMonitors ----------------------------
(***************************************************************************)
(* The two watchers of one symbol's ticks: the FeedManager's own check of  *)
(* every tick (market_data/feed_manager.py) and the AnomalyDetector        *)
(* (market_data/anomaly_detector.py) attached as one of its callbacks.     *)
(*                                                                         *)
(* Both keep one history for the symbol, whichever feed a tick is from, so *)
(* the previous tick may be another feed's.  A tick carries its distance   *)
(* in time from the tick before it.  Spreads and distances are the classes *)
(* the thresholds of the two watchers tell apart.                          *)
(***************************************************************************)
EXTENDS Integers, Sequences, SequencesExt, FiniteSets

CONSTANTS Sources,        \* feed_source
          TickPrices,     \* what a tick may show
          Spreads,        \* spread of a tick, in hundredths of a percent
          Distances,      \* time since the tick before, in milliseconds
          Volumes,        \* volume of a tick, 0 for none
          MaxAnomalies,   \* anomalies kept, 1000 in the code
          MaxVolumes,     \* volumes kept, 20 in the code
          MaxPrices       \* prices kept, 100 in the code (20 for the volatility)

ASSUME PriceMonitorsAssumption ==
    /\ IsFiniteSet(Sources)
    /\ TickPrices \subseteq Nat \ {0}
    /\ Spreads \cup Distances \cup Volumes \subseteq Nat
    /\ {MaxAnomalies, MaxVolumes, MaxPrices} \subseteq Nat \ {0}

VARIABLES
    previous,     \* the manager's _price_history, as far as it is read again:
                  \* the last price, <<>> before the first tick
    reported,     \* the manager's _anomaly_history: kinds
    prices,       \* the detector's price_history
    volumes,      \* its volume_history
    seen,         \* is its last_update known?
    latest,       \* its _cross_feed_prices
    detected,     \* its _anomaly_history: kind, severity and source
    onTick        \* history: what the two found in the last tick

watchVars == <<previous, reported, prices, volumes, seen, latest, detected, onTick>>

Kinds == {"price_spike", "spread_anomaly", "feed_gap", "stale_feed", "volume_anomaly",
          "cross_feed_mismatch"}

Nothing == [manager |-> <<>>, detector |-> <<>>, first |-> TRUE]

WatchInit ==
    /\ previous = <<>>
    /\ reported = <<>>
    /\ prices = <<>>
    /\ volumes = <<>>
    /\ seen = FALSE
    /\ latest = [s \in Sources |-> 0]
    /\ detected = <<>>
    /\ onTick = Nothing

Recent(s, n) == IF Len(s) > n THEN SubSeq(s, Len(s) - n + 1, Len(s)) ELSE s

FarApart(a, b) == IF a < b THEN b - a ELSE a - b

\* The highest severity whose threshold x reaches, 0 if none.
Severity(x, thresholds) ==
    LET reached == {s \in DOMAIN thresholds : x >= thresholds[s]} IN
    IF reached = {} THEN 0 ELSE CHOOSE s \in reached : \A r \in reached : r <= s

AtMost5(n) == IF n > 5 THEN 5 ELSE n

If(condition, x) == IF condition THEN <<x>> ELSE <<>>

-----------------------------------------------------------------------------
(* FeedManager._check_tick_anomalies *)

ManagerFinds(price, spread, distance) ==
    IF previous = <<>> THEN <<>>
    ELSE If(FarApart(price, previous[1]) * 100 > 5 * previous[1], "price_spike")
         \o If(spread > 200, "spread_anomaly")
         \o If(distance > 60000, "feed_gap")

-----------------------------------------------------------------------------
(* AnomalyDetector *)

\* What the severities 2 to 5 begin at.
PriceThresholds == [s \in 2 .. 5 |-> <<2, 5, 10, 20>>[s - 1]]
SpreadThresholds == [s \in 2 .. 5 |-> <<50, 100, 200, 500>>[s - 1]]
StaleThresholds == [s \in 2 .. 5 |-> <<5000, 15000, 30000, 60000>>[s - 1]]

Found(kind, severity) == [kind |-> kind, severity |-> severity]

\* The changes between neighbouring prices, in hundredths of a percent.
Changes == [i \in 1 .. Len(prices) - 1 |-> (FarApart(prices[i + 1], prices[i]) * 10000) \div prices[i]]

Total(s) ==
    LET sum[n \in 0 .. Len(s)] == IF n = 0 THEN 0 ELSE sum[n - 1] + s[n] IN sum[Len(s)]

\* The variance of the changes, times the square of their number.
SpreadOut(s) == Len(s) * Total([i \in DOMAIN s |-> s[i] * s[i]]) - Total(s) * Total(s)

\* A change of more than five standard deviations counts for one more.
Unusual(change) ==
    LET v == SpreadOut(Changes) IN
    v > 0 /\ change * change * Len(Changes) * Len(Changes) > 25 * v

\* Mutant of PriceSpike: the change is taken in percent of the new price.
PriceSpikeOfNew(price) ==
    LET change == (FarApart(price, Last(prices)) * 10000) \div price
        severity == Severity(change, [s \in 2 .. 5 |-> PriceThresholds[s] * 100])
    IN If(severity > 0, Found("price_spike", severity))

PriceSpike(price) ==
    LET change == (FarApart(price, Last(prices)) * 10000) \div Last(prices)
        severity == Severity(change, [s \in 2 .. 5 |-> PriceThresholds[s] * 100])
    IN If(severity > 0,
          Found("price_spike", IF Unusual(change) THEN AtMost5(severity + 1) ELSE severity))

SpreadAnomaly(spread) ==
    LET severity == Severity(spread, SpreadThresholds)
    IN If(severity > 0, Found("spread_anomaly", severity))

StaleFeed(distance) ==
    LET severity == Severity(distance, StaleThresholds)
    IN If(seen /\ severity > 0, Found("stale_feed", severity))

\* More than ten times the average of the last volumes.
VolumeAnomaly(volume) ==
    LET total == Total(volumes) IN
    IF volume * Len(volumes) > 10 * total /\ total > 0
    THEN <<Found("volume_anomaly", AtMost5(((volume * Len(volumes)) \div (10 * total)) + 2))>>
    ELSE <<>>

\* The prices other feeds showed last, however long ago.
Compared(source) == {latest[s] : s \in Sources \ {source}} \ {0}

\* The largest deviation from another feed, in hundredths of a percent.
CrossFeedMismatch(source, price) ==
    LET deviations == {(FarApart(price, q) * 10000) \div q : q \in Compared(source)}
        most == CHOOSE d \in deviations : \A e \in deviations : e <= d
    IN IF \E q \in Compared(source) : FarApart(price, q) * 1000 > q
       THEN <<Found("cross_feed_mismatch", AtMost5((most \div 10) + 1))>> ELSE <<>>

DetectorFinds(source, price, spread, distance, volume) ==
    (IF prices = <<>> THEN <<>> ELSE PriceSpike(price))
    \o SpreadAnomaly(spread)
    \o StaleFeed(distance)
    \o VolumeAnomaly(volume)
    \o CrossFeedMismatch(source, price)

-----------------------------------------------------------------------------

OnTick(source, price, spread, distance, volume) ==
    LET manager == ManagerFinds(price, spread, distance)
        detector == DetectorFinds(source, price, spread, distance, volume)
    IN /\ previous' = <<price>>
       /\ reported' = Recent(reported \o manager, MaxAnomalies)
       /\ prices' = Recent(Append(prices, price), MaxPrices)
       /\ volumes' = IF volume > 0 THEN Recent(Append(volumes, volume), MaxVolumes) ELSE volumes
       /\ seen' = TRUE
       /\ latest' = [latest EXCEPT ![source] = price]
       /\ detected' = Recent(detected \o [i \in DOMAIN detector |->
                                [kind |-> detector[i].kind, severity |-> detector[i].severity,
                                 source |-> source]], MaxAnomalies)
       /\ onTick' = [manager |-> manager, detector |-> detector, first |-> prices = <<>>]

\* The detector forgets everything; the manager has no such operation.
DetectorReset ==
    /\ prices' = <<>> /\ volumes' = <<>> /\ seen' = FALSE
    /\ latest' = [s \in Sources |-> 0]
    /\ detected' = <<>>
    /\ onTick' = Nothing
    /\ UNCHANGED <<previous, reported>>

WatchNext ==
    \/ DetectorReset
    \/ \E s \in Sources, p \in TickPrices, w \in Spreads, d \in Distances, v \in Volumes :
          OnTick(s, p, w, d, v)

WatchSpec == WatchInit /\ [][WatchNext]_watchVars

-----------------------------------------------------------------------------
(* Properties *)

\* The types; both histories and the deques keep within their lengths.
WatchTypeOK ==
    /\ previous \in {<<>>} \cup {<<p>> : p \in TickPrices}
    /\ reported \in Seq(Kinds) /\ Len(reported) <= MaxAnomalies
    /\ prices \in Seq(TickPrices) /\ Len(prices) <= MaxPrices
    /\ volumes \in Seq(Volumes \ {0}) /\ Len(volumes) <= MaxVolumes
    /\ seen \in BOOLEAN
    /\ latest \in [Sources -> TickPrices \cup {0}]
    /\ detected \in Seq([kind : Kinds, severity : 1 .. 5, source : Sources])
    /\ Len(detected) <= MaxAnomalies

\* Whatever the manager reports of a tick, the detector finds in it too, as
\* the kind it has for it, unless the detector was reset just before: their
\* thresholds and their notions of the previous tick fit together
\* (feed_manager.py:227, anomaly_detector.py:215).
WatchersAgree ==
    ~ onTick.first =>
        \A i \in DOMAIN onTick.manager :
            LET kind == onTick.manager[i] IN
            \E j \in DOMAIN onTick.detector :
                /\ onTick.detector[j].kind = IF kind = "feed_gap" THEN "stale_feed" ELSE kind
                /\ onTick.detector[j].severity >= 3

\* What holds of the watchers at any time: the parts above.
WatchInvariant == WatchTypeOK /\ WatchersAgree
=============================================================================
