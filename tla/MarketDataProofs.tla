-------------------------- MODULE MarketDataProofs --------------------------
(***************************************************************************)
(* Proofs about MarketData and FeedManager, for any intervals, prices,     *)
(* feeds, thresholds and lengths of the deques.                            *)
(***************************************************************************)
EXTENDS MarketData, FeedManager, CollectionLemmas

-----------------------------------------------------------------------------
(* The aggregator of ticks into bars.                                      *)

BarRecords == [start : Nat, open : Nat, high : Nat, low : Nat, close : Nat, trades : Nat,
               latest : Nat]

\* A bar with its ticks' prices in order.
PricesOK(bar) ==
    bar.trades > 0 =>
        /\ {bar.open, bar.close, bar.high, bar.low} \subseteq BarPrices
        /\ bar.low <= Lower(bar.open, bar.close)
        /\ bar.high >= Higher(bar.open, bar.close)

\* A bar of interval i begins at a multiple of i, after the last one emitted
\* unless by force, and its ticks end before it does.
BarOK(i, bar, last, byForce) ==
    /\ bar \in BarRecords
    /\ PricesOK(bar)
    /\ Align(bar.start, i) = bar.start
    /\ last < bar.start \/ (byForce /\ last - bar.start < MaxEarly + i)
    /\ bar.latest < bar.start + i

\* The state of one interval, when the clock shows now and n ticks have come.
IntervalOK(i, bar, count, last, byForce, now, n) ==
    /\ count \in Nat /\ last \in Int /\ last <= now + MaxEarly
    /\ bar = NoBar => last = -1 /\ count = n
    /\ bar # NoBar => /\ BarOK(i, bar, last, byForce)
                      /\ bar.start <= now + MaxEarly /\ count + bar.trades = n

BarIInv ==
    /\ clock \in 0 .. MaxTime
    /\ processed \in 0 .. MaxTicks
    /\ DOMAIN builders = Intervals
    /\ \A i \in Intervals :
          IntervalOK(i, builders[i], counted[i], emitted[i], forced[i], clock, processed)

LEMMA IntervalLengths == \A i \in Intervals : i \in Nat /\ i > 0
  BY AggregatorAssumption

LEMMA TickBounds == /\ 0 \in 0 .. MaxTime /\ 0 \in 0 .. MaxTicks
                    /\ MaxTime \in Nat /\ MaxTicks \in Nat /\ MaxEarly \in Nat /\ MaxLate \in Nat
  <1>1. MaxTime \in Nat /\ MaxTicks \in Nat /\ MaxEarly \in Nat /\ MaxLate \in Nat
    BY AggregatorAssumption
  <1>2. QED
    BY <1>1

\* Alignment returns the last multiple that is not after its argument.
LEMMA QuotientOfProduct ==
    ASSUME NEW q \in Nat, NEW i \in Nat, i > 0
    PROVE  (q * i) \div i = q
  OBVIOUS

LEMMA AlignProperties ==
    ASSUME NEW t \in Nat, NEW i \in Nat, i > 0
    PROVE  /\ Align(t, i) \in Nat
           /\ Align(t, i) <= t
           /\ t < Align(t, i) + i
           /\ Align(Align(t, i), i) = Align(t, i)
  <1> DEFINE q == t \div i
  <1>1. q \in Nat /\ q * i <= t /\ t < q * i + i
    OBVIOUS
  <1> HIDE DEF q
  <1>2. q * i \in Nat /\ (q * i) \div i = q
    BY <1>1, QuotientOfProduct
  <1>3. Align(t, i) = q * i /\ Align(q * i, i) = q * i
    BY <1>2 DEF Align, q
  <1>4. QED
    BY <1>1, <1>2, <1>3

\* What the prices of a bar are when a tick is added.
LEMMA AddTickPrices ==
    ASSUME NEW bar \in BarRecords, PricesOK(bar), NEW t \in Nat, NEW p \in BarPrices
    PROVE  /\ AddTick(bar, t, p) \in BarRecords
           /\ PricesOK(AddTick(bar, t, p))
           /\ AddTick(bar, t, p).start = bar.start
           /\ AddTick(bar, t, p).trades = bar.trades + 1
           /\ AddTick(bar, t, p).latest = Higher(bar.latest, t)
  <1> DEFINE first == bar.trades = 0
             high == IF first THEN p ELSE Higher(bar.high, p)
             low == IF first THEN p ELSE Lower(bar.low, p)
             open == IF first THEN p ELSE bar.open
             n == bar.trades + 1
             late == Higher(bar.latest, t)
             tick == AddTick(bar, t, p)
  <1>1. p \in Nat /\ \A q \in BarPrices : q \in Nat
    BY AggregatorAssumption
  <1>2. /\ bar.start \in Nat /\ bar.open \in Nat /\ bar.high \in Nat /\ bar.low \in Nat
        /\ bar.close \in Nat /\ bar.trades \in Nat /\ bar.latest \in Nat
    BY DEF BarRecords
  <1>3. tick = [bar EXCEPT !.open = open, !.high = high, !.low = low, !.close = p,
                           !.trades = n, !.latest = late]
    BY Zenon DEF AddTick
  <1>4. /\ late \in Nat /\ n \in Nat
        /\ open \in Nat /\ high \in Nat /\ low \in Nat
    BY <1>1, <1>2 DEF Higher, Lower
  <1> HIDE DEF tick, open, high, low, n, late
  <1>8. /\ tick \in BarRecords /\ tick.start = bar.start /\ tick.open = open
        /\ tick.high = high /\ tick.low = low /\ tick.close = p
        /\ tick.trades = n /\ tick.latest = late
    <2>1. p \in Nat
      BY <1>1
    <2>2. QED
      BY <2>1, <1>3, <1>4 DEF BarRecords
  <1>5. CASE first
    <2>1. high = p /\ low = p /\ open = p
      BY <1>5 DEF high, low, open
    <2>2. PricesOK(tick)
      BY <1>1, <1>8, <2>1 DEF PricesOK, Lower, Higher, n
    <2>3. QED
      BY <1>8, <2>2 DEF tick, n, late
  <1>6. CASE ~ first
    <2>1. bar.trades > 0 /\ high = Higher(bar.high, p) /\ low = Lower(bar.low, p)
          /\ open = bar.open
      BY <1>2, <1>6 DEF high, low, open
    <2>2. /\ bar.open \in BarPrices /\ bar.close \in BarPrices
          /\ bar.high \in BarPrices /\ bar.low \in BarPrices
          /\ bar.low <= Lower(bar.open, bar.close)
          /\ bar.high >= Higher(bar.open, bar.close)
      BY <2>1 DEF PricesOK
    <2>9. bar.low <= bar.open /\ bar.high >= bar.open
      BY <1>2, <2>2 DEF Lower, Higher
    <2>3. high \in BarPrices /\ low \in BarPrices
      BY <2>1, <2>2 DEF Lower, Higher
    <2>10. low <= bar.open /\ low <= p /\ high >= bar.open /\ high >= p
      BY <1>1, <1>2, <2>1, <2>9 DEF Lower, Higher
    <2>6. low <= Lower(bar.open, p) /\ high >= Higher(bar.open, p)
      BY <2>10 DEF Lower, Higher
    <2>7. PricesOK(tick)
      BY <1>8, <2>1, <2>2, <2>3, <2>6 DEF PricesOK
    <2>8. QED
      BY <1>8, <2>7 DEF tick, n, late
  <1>7. QED
    BY <1>5, <1>6

\* A new bar of a time that has come.
LEMMA NewBarOK ==
    ASSUME NEW t \in Nat, NEW i \in Nat, i > 0
    PROVE  LET bar == NewBar(Align(t, i))
           IN  /\ bar \in BarRecords /\ PricesOK(bar) /\ bar.trades = 0 /\ bar.latest = 0
               /\ bar.start = Align(t, i)
  <1>1. Align(t, i) \in Nat
    BY AlignProperties
  <1>2. QED
    BY <1>1 DEF NewBar, BarRecords, PricesOK

\* A bar record is a bar.
LEMMA NoBarIsNone == \A bar \in BarRecords : bar # NoBar /\ bar.trades \in Nat
  <1> SUFFICES ASSUME NEW bar \in BarRecords PROVE bar # NoBar /\ bar.trades \in Nat
    OBVIOUS
  <1>1. bar.trades \in Nat
    BY DEF BarRecords
  <1>2. NoBar.trades = -1
    BY DEF NoBar
  <1>3. bar.trades # -1
    BY <1>1
  <1>4. QED
    BY <1>1, <1>2, <1>3

LEMMA BarInitial == AggregatorInit => BarIInv
  <1> SUFFICES ASSUME AggregatorInit PROVE BarIInv
    OBVIOUS
  <1>1. ASSUME NEW i \in Intervals
        PROVE  IntervalOK(i, builders[i], counted[i], emitted[i], forced[i], clock, processed)
    BY TickBounds DEF AggregatorInit, IntervalOK
  <1>2. QED
    BY <1>1, TickBounds DEF AggregatorInit, BarIInv

LEMMA ClockAdvancesOK == ASSUME BarIInv, ClockAdvances PROVE BarIInv'
  <1>1. clock \in Nat /\ clock' = clock + 1 /\ clock' \in 0 .. MaxTime
        /\ UNCHANGED <<builders, processed, counted, emitted, forced>>
    BY AggregatorAssumption DEF BarIInv, ClockAdvances
  <1>2. ASSUME NEW i \in Intervals
        PROVE  IntervalOK(i, builders[i], counted[i], emitted[i], forced[i], clock', processed)
    <2>1. IntervalOK(i, builders[i], counted[i], emitted[i], forced[i], clock, processed)
      BY DEF BarIInv
    <2>2. builders[i] # NoBar => builders[i].start \in Nat /\ builders[i].start <= clock + MaxEarly
      BY <2>1 DEF IntervalOK, BarOK, BarRecords
    <2>3. builders[i] # NoBar => builders[i].start <= clock' + MaxEarly
      BY <1>1, <2>2, TickBounds
    <2>4. emitted[i] \in Int /\ emitted[i] <= clock + MaxEarly
      BY <2>1 DEF IntervalOK
    <2>5. emitted[i] <= clock' + MaxEarly
      BY <1>1, <2>4, TickBounds
    <2>6. QED
      BY <2>1, <2>3, <2>5 DEF IntervalOK
  <1>3. QED
    BY <1>1, <1>2 DEF BarIInv

LEMMA ResetOK == ASSUME BarIInv, AggregatorReset PROVE BarIInv'
  <1>1. ASSUME NEW i \in Intervals
        PROVE  IntervalOK(i, builders'[i], counted'[i], emitted'[i], forced'[i], clock', processed')
    <2>1. -1 <= clock + MaxEarly
      BY TickBounds DEF BarIInv
    <2>2. QED
      BY <2>1 DEF AggregatorReset, IntervalOK
  <1>2. QED
    BY <1>1, TickBounds DEF AggregatorReset, BarIInv

\* What emitting a bar does to its interval's history.
LEMMA EmitOK ==
    ASSUME BarIInv, NEW is \in SUBSET Intervals, Emit(is), NEW i \in is
    PROVE  /\ counted'[i] = processed /\ emitted'[i] \in Int /\ processed \in Nat
           /\ emitted'[i] <= clock + MaxEarly
           /\ emitted'[i] = IF Emits(i) THEN builders[i].start ELSE emitted[i]
  <1>1. IntervalOK(i, builders[i], counted[i], emitted[i], forced[i], clock, processed)
        /\ processed \in Nat
    BY AggregatorAssumption DEF BarIInv
  <1>2. /\ counted'[i] = IF Emits(i) THEN counted[i] + builders[i].trades ELSE counted[i]
        /\ emitted'[i] = IF Emits(i) THEN builders[i].start ELSE emitted[i]
    BY DEF Emit
  <1>3. CASE builders[i] = NoBar
    BY <1>1, <1>2, <1>3 DEF IntervalOK, Emits
  <1>4. CASE builders[i] # NoBar
    <2>1. /\ BarOK(i, builders[i], emitted[i], forced[i])
          /\ counted[i] + builders[i].trades = processed /\ counted[i] \in Nat /\ emitted[i] \in Int
          /\ builders[i].start <= clock + MaxEarly /\ emitted[i] <= clock + MaxEarly
      BY <1>1, <1>4 DEF IntervalOK
    <2>2. builders[i].trades \in Nat /\ builders[i].start \in Nat
      BY <2>1 DEF BarOK, BarRecords
    <2>3. QED
      BY <1>1, <1>2, <1>4, <2>1, <2>2 DEF Emits
  <1>5. QED
    BY <1>3, <1>4

\* A tick whose bar is neither missing nor complete.
LEMMA TickInBar ==
    ASSUME NEW i \in Intervals, NEW bar, NEW count, NEW last, NEW byForce, NEW now \in Nat,
           NEW n \in Nat, IntervalOK(i, bar, count, last, byForce, now, n),
           NEW t \in Nat, NEW p \in BarPrices, bar # NoBar, ~ IsComplete(bar, t, i)
    PROVE  IntervalOK(i, AddTick(bar, t, p), count, last, byForce, now, n + 1)
  <1> DEFINE tick == AddTick(bar, t, p)
  <1>1. /\ BarOK(i, bar, last, byForce) /\ bar.start <= now + MaxEarly /\ count + bar.trades = n
        /\ count \in Nat /\ last \in Int /\ last <= now + MaxEarly /\ i \in Nat
    BY IntervalLengths DEF IntervalOK
  <1>2. /\ bar \in BarRecords /\ PricesOK(bar) /\ Align(bar.start, i) = bar.start
        /\ last < bar.start \/ (byForce /\ last - bar.start < MaxEarly + i)
        /\ bar.latest < bar.start + i
    BY <1>1 DEF BarOK
  <1>3. /\ tick \in BarRecords /\ PricesOK(tick) /\ tick.start = bar.start
        /\ tick.trades = bar.trades + 1 /\ tick.latest = Higher(bar.latest, t)
    BY <1>2, AddTickPrices
  <1>4. bar.start \in Nat /\ bar.latest \in Nat /\ bar.trades \in Nat
    BY <1>2 DEF BarRecords
  <1> HIDE DEF tick
  <1>5. t < bar.start + i
    BY <1>1, <1>4 DEF IsComplete
  <1>6. tick.latest < tick.start + i
    BY <1>2, <1>3, <1>5 DEF Higher
  <1>7. count + tick.trades = n + 1
    BY <1>1, <1>3, <1>4
  <1>8. tick # NoBar
    BY <1>3, NoBarIsNone
  <1>9. BarOK(i, tick, last, byForce)
    BY <1>2, <1>3, <1>6 DEF BarOK
  <1>10. QED
    BY <1>1, <1>3, <1>7, <1>8, <1>9 DEF IntervalOK, tick

\* A new bar with the tick of its time.
LEMMA TickInNewBar ==
    ASSUME NEW i \in Intervals, NEW last \in Int, NEW now \in Nat, NEW n \in Nat, NEW t \in Nat,
           t <= now + MaxEarly, NEW p \in BarPrices, NEW byForce, last <= now + MaxEarly,
           last < Align(t, i) \/ (byForce /\ last - Align(t, i) < MaxEarly + i)
    PROVE  IntervalOK(i, AddTick(NewBar(Align(t, i)), t, p), n, last, byForce, now, n + 1)
  <1> DEFINE bar == NewBar(Align(t, i))
             tick == AddTick(bar, t, p)
  <1>1. i \in Nat /\ i > 0
    BY IntervalLengths
  <1>2. /\ bar \in BarRecords /\ PricesOK(bar) /\ bar.trades = 0 /\ bar.latest = 0
        /\ bar.start = Align(t, i)
    BY <1>1, NewBarOK
  <1> HIDE DEF bar
  <1>3. /\ tick \in BarRecords /\ PricesOK(tick) /\ tick.start = bar.start
        /\ tick.trades = bar.trades + 1 /\ tick.latest = Higher(bar.latest, t)
    BY <1>2, AddTickPrices
  <1> HIDE DEF tick
  <1>4. /\ Align(t, i) \in Nat /\ Align(t, i) <= t /\ t < Align(t, i) + i
        /\ Align(Align(t, i), i) = Align(t, i)
    BY <1>1, AlignProperties
  <1>5. tick.latest = t
    BY <1>2, <1>3 DEF Higher
  <1>6. /\ tick.start <= now + MaxEarly /\ tick.latest < tick.start + i
        /\ last < tick.start \/ (byForce /\ last - tick.start < MaxEarly + i)
        /\ n + tick.trades = n + 1
    BY <1>2, <1>3, <1>4, <1>5, TickBounds
  <1>7. tick # NoBar
    BY <1>3, NoBarIsNone
  <1>8. BarOK(i, tick, last, byForce)
    BY <1>2, <1>3, <1>4, <1>6 DEF BarOK
  <1>9. QED
    BY <1>6, <1>7, <1>8 DEF IntervalOK, tick, bar

LEMMA TickOK ==
    ASSUME BarIInv, NEW t \in (clock - MaxLate) .. (clock + MaxEarly), NEW p \in BarPrices,
           t >= 0, ProcessTick(t, p)
    PROVE  BarIInv'
  <1> DEFINE ending == {i \in Intervals : NeedsBar(i, t)}
  <1>1. /\ clock \in Nat /\ t \in Nat /\ t <= clock + MaxEarly /\ processed \in Nat
        /\ clock \in 0 .. MaxTime
    BY TickBounds, AggregatorAssumption DEF BarIInv
  <1>2. /\ processed < MaxTicks /\ Emit(ending) /\ processed' = processed + 1 /\ clock' = clock
        /\ builders' = [i \in Intervals |->
              AddTick(IF i \in ending THEN NewBar(Align(t, i)) ELSE builders[i], t, p)]
        /\ forced' = [i \in Intervals |-> forced[i] /\ ~ (i \in ending /\ Emits(i))]
    BY DEF ProcessTick
  <1>3. processed' \in 0 .. MaxTicks
    BY <1>1, <1>2, TickBounds
  <1>4. ending \in SUBSET Intervals
    OBVIOUS
  <1>9. \A i \in Intervals : i \in ending <=> NeedsBar(i, t)
    OBVIOUS
  <1> HIDE DEF ending
  <1>5. ASSUME NEW i \in Intervals
        PROVE  IntervalOK(i, builders'[i], counted'[i], emitted'[i], forced'[i], clock, processed')
    <2>1. /\ IntervalOK(i, builders[i], counted[i], emitted[i], forced[i], clock, processed)
          /\ i \in Nat /\ i > 0
      BY IntervalLengths DEF BarIInv
    <2>2. CASE i \in ending
      <3>1. /\ counted'[i] = processed /\ emitted'[i] \in Int
            /\ emitted'[i] <= clock + MaxEarly
            /\ emitted'[i] = IF Emits(i) THEN builders[i].start ELSE emitted[i]
        BY <1>2, <1>4, <2>2, EmitOK
      <3>2. Align(t, i) \in Nat /\ t < Align(t, i) + i
        BY <1>1, <2>1, AlignProperties
      <3>3. \/ emitted'[i] < Align(t, i)
            \/ forced[i] /\ ~ Emits(i) /\ emitted'[i] - Align(t, i) < MaxEarly + i
        <4>1. CASE builders[i] = NoBar
          <5>1. emitted'[i] = -1
            BY <2>1, <3>1, <4>1 DEF Emits, IntervalOK
          <5>2. QED
            BY <3>2, <5>1
        <4>2. CASE builders[i] # NoBar
          <5>1. t - builders[i].start >= i
            BY <1>9, <2>2, <4>2 DEF NeedsBar, IsComplete
          <5>2. /\ builders[i].start \in Nat /\ emitted[i] \in Int
                /\ \/ emitted[i] < builders[i].start
                   \/ forced[i] /\ emitted[i] - builders[i].start < MaxEarly + i
            BY <2>1, <4>2 DEF IntervalOK, BarOK, BarRecords
          <5>3. builders[i].start < Align(t, i)
            BY <1>1, <2>1, <3>2, <5>1, <5>2
          <5>4. CASE Emits(i)
            BY <3>1, <5>3, <5>4
          <5>5. CASE ~ Emits(i)
            BY <2>1, <3>1, <3>2, <5>2, <5>3, <5>5, TickBounds
          <5>6. QED
            BY <5>4, <5>5
        <4>3. QED
          BY <4>1, <4>2
      <3>5. /\ builders'[i] = AddTick(NewBar(Align(t, i)), t, p)
            /\ forced'[i] <=> forced[i] /\ ~ Emits(i)
        BY <1>2, <2>2
      <3>4. IntervalOK(i, AddTick(NewBar(Align(t, i)), t, p), processed, emitted'[i], forced'[i],
                       clock, processed + 1)
        BY <1>1, <3>1, <3>3, <3>5, TickInNewBar
      <3>6. QED
        BY <1>2, <3>1, <3>4, <3>5, Zenon
    <2>3. CASE i \notin ending
      <3>1. builders[i] # NoBar /\ ~ IsComplete(builders[i], t, i)
        BY <1>9, <2>3 DEF NeedsBar
      <3>2. /\ builders'[i] = AddTick(builders[i], t, p)
            /\ counted'[i] = counted[i] /\ emitted'[i] = emitted[i]
        BY <1>2, <2>3 DEF Emit
      <3>3. IntervalOK(i, AddTick(builders[i], t, p), counted[i], emitted[i], forced[i], clock,
                       processed + 1)
        BY <1>1, <2>1, <3>1, TickInBar
      <3>4. IntervalOK(i, builders'[i], counted'[i], emitted'[i], forced[i], clock, processed')
        BY <1>2, <3>2, <3>3, Zenon
      <3>5. forced'[i] <=> forced[i]
        BY <1>2, <2>3
      <3>6. QED
        BY <3>4, <3>5 DEF IntervalOK, BarOK
    <2>4. QED
      BY <2>2, <2>3
  <1>6. QED
    BY <1>1, <1>2, <1>3, <1>5 DEF BarIInv

\* A new bar without a tick, when the bar before it was completed by force.
LEMMA ForcedBarOK ==
    ASSUME NEW i \in Intervals, NEW now \in Nat, NEW last \in Int, NEW n \in Nat,
           last <= now + MaxEarly
    PROVE  IntervalOK(i, NewBar(Align(now, i)), n, last, TRUE, now, n)
  <1> DEFINE bar == NewBar(Align(now, i))
  <1>1. i \in Nat /\ i > 0
    BY IntervalLengths
  <1>2. /\ bar \in BarRecords /\ PricesOK(bar) /\ bar.trades = 0 /\ bar.latest = 0
        /\ bar.start = Align(now, i)
    BY <1>1, NewBarOK
  <1> HIDE DEF bar
  <1>3. /\ Align(now, i) \in Nat /\ Align(now, i) <= now /\ now < Align(now, i) + i
        /\ Align(Align(now, i), i) = Align(now, i)
    BY <1>1, AlignProperties
  <1>4. /\ bar.latest < bar.start + i /\ bar.start <= now + MaxEarly /\ n + bar.trades = n
        /\ last - bar.start < MaxEarly + i
    BY <1>1, <1>2, <1>3, TickBounds
  <1>5. bar # NoBar
    BY <1>2, NoBarIsNone
  <1>6. BarOK(i, bar, last, TRUE)
    BY <1>2, <1>3, <1>4 DEF BarOK
  <1>7. QED
    BY <1>4, <1>5, <1>6 DEF IntervalOK, bar

LEMMA ForceOK == ASSUME BarIInv, ForceCompleteAll PROVE BarIInv'
  <1> DEFINE active == {i \in Intervals : builders[i] # NoBar}
  <1>1. clock \in Nat /\ processed \in Nat
    BY AggregatorAssumption DEF BarIInv
  <1>2. /\ Emit(active) /\ UNCHANGED <<clock, processed>>
        /\ builders' = [i \in Intervals |->
                          IF i \in active THEN NewBar(Align(clock, i)) ELSE NoBar]
        /\ forced' = [i \in Intervals |-> i \in active]
    BY DEF ForceCompleteAll
  <1>3. active \in SUBSET Intervals /\ \A i \in Intervals : i \in active <=> builders[i] # NoBar
    OBVIOUS
  <1> HIDE DEF active
  <1>4. ASSUME NEW i \in Intervals
        PROVE  IntervalOK(i, builders'[i], counted'[i], emitted'[i], forced'[i], clock, processed)
    <2>1. /\ IntervalOK(i, builders[i], counted[i], emitted[i], forced[i], clock, processed)
          /\ i \in Nat /\ i > 0
      BY IntervalLengths DEF BarIInv
    <2>2. CASE i \in active
      <3>1. /\ counted'[i] = processed /\ emitted'[i] \in Int
            /\ emitted'[i] <= clock + MaxEarly
        BY <1>2, <1>3, <2>2, EmitOK
      <3>5. IntervalOK(i, NewBar(Align(clock, i)), processed, emitted'[i], TRUE, clock, processed)
        BY <1>1, <3>1, ForcedBarOK
      <3>6. builders'[i] = NewBar(Align(clock, i)) /\ forced'[i] = TRUE
        BY <1>2, <2>2
      <3>7. QED
        BY <3>1, <3>5, <3>6, Zenon
    <2>3. CASE i \notin active
      <3>1. builders[i] = NoBar /\ builders'[i] = NoBar
        BY <1>2, <1>3, <2>3
      <3>2. counted'[i] = counted[i] /\ emitted'[i] = emitted[i]
        BY <1>2, <2>3 DEF Emit
      <3>3. QED
        BY <2>1, <3>1, <3>2 DEF IntervalOK
    <2>4. QED
      BY <2>2, <2>3
  <1>5. QED
    BY <1>1, <1>2, <1>4 DEF BarIInv

LEMMA BarStep == BarIInv /\ [AggregatorNext]_barVars => BarIInv'
  <1> SUFFICES ASSUME BarIInv, [AggregatorNext]_barVars PROVE BarIInv'
    OBVIOUS
  <1>1. ASSUME UNCHANGED barVars PROVE BarIInv'
    BY <1>1 DEF barVars, BarIInv
  <1>2. QED
    BY <1>1, ForceOK, ResetOK, ClockAdvancesOK, TickOK DEF AggregatorNext

LEMMA BarIInvImplies == BarIInv => BarInvariant
  <1> SUFFICES ASSUME BarIInv PROVE BarInvariant
    OBVIOUS
  <1>1. ASSUME NEW i \in Intervals
        PROVE  /\ counted[i] + (IF builders[i] = NoBar THEN 0 ELSE builders[i].trades) = processed
               /\ builders[i] # NoBar => BarOK(i, builders[i], emitted[i], forced[i])
    <2>1. IntervalOK(i, builders[i], counted[i], emitted[i], forced[i], clock, processed)
      BY DEF BarIInv
    <2>2. QED
      BY <2>1 DEF IntervalOK
  <1>2. AggregatorTypeOK
    BY <1>1 DEF AggregatorTypeOK, BarIInv, BarOK, BarRecords, PricesOK
  <1>3. TicksAreConserved
    BY <1>1 DEF TicksAreConserved
  <1>4. BarsFollowInTime
    BY <1>1 DEF BarsFollowInTime, BarOK
  <1>5. QED
    BY <1>2, <1>3, <1>4 DEF BarInvariant

\* However late ticks are and whenever the bars are completed by force, each
\* tick is in exactly one bar of each interval, a bar is one that MarketBar
\* accepts, and bars follow each other in time.
THEOREM BarsSafe == AggregatorSpec => []BarInvariant
  <1>1. AggregatorSpec => []BarIInv
    BY BarInitial, BarStep, PTL DEF AggregatorSpec
  <1>2. QED
    BY <1>1, BarIInvImplies, PTL

-----------------------------------------------------------------------------
(* The heartbeat monitor.                                                  *)

\* While the loop awaits the callback for an unhealthy feed, the verdict is
\* that it is unhealthy; so a healthy verdict is one of this interval.
BeatIInv ==
    /\ HeartbeatInvariant
    /\ stage = "in callback" => verdict = "unhealthy"

LEMMA BeatLengths ==
    /\ CheckInterval \in Nat /\ CheckInterval > 0 /\ MaxSamples \in Nat /\ MaxSamples > 0
    /\ StaleThreshold \in Nat /\ MaxCount \in Nat /\ MaxStaleCalls \in Nat
    /\ MaxSilence \in Nat /\ MaxSilence = StaleThreshold + CheckInterval + 1
  BY HeartbeatAssumption DEF MaxSilence

\* The deque of samples keeps its length whatever it is given.
LEMMA TrimmedOK ==
    ASSUME NEW s \in Seq(Latencies)
    PROVE  Trimmed(s) \in Seq(Latencies) /\ Len(Trimmed(s)) <= MaxSamples
  <1>1. Len(s) \in Nat /\ MaxSamples \in Nat /\ MaxSamples > 0
    BY LenProperties, BeatLengths
  <1>2. CASE Len(s) > MaxSamples
    <2> DEFINE m == Len(s)
               n == m - MaxSamples
    <2>1. m \in Nat /\ n \in 0 .. m /\ m - n = MaxSamples
      BY <1>1, <1>2
    <2>2. SubSeq(s, n + 1, m) \in Seq(Latencies) /\ Len(SubSeq(s, n + 1, m)) = m - n
      <3> HIDE DEF n
      <3>1. QED
        BY <2>1, CutProperties
    <2>3. Trimmed(s) = SubSeq(s, n + 1, m)
      BY <1>2 DEF Trimmed
    <2>4. QED
      BY <1>1, <2>1, <2>2, <2>3
  <1>3. CASE ~ (Len(s) > MaxSamples)
    BY <1>1, <1>3 DEF Trimmed
  <1>4. QED
    BY <1>2, <1>3

LEMMA CountersOK ==
    /\ \A n \in 0 .. MaxCount : Capped(n + 1) \in 0 .. MaxCount
    /\ 0 \in 0 .. MaxCount /\ 0 \in 0 .. MaxSilence /\ 0 \in 0 .. CheckInterval
    /\ CheckInterval \in 0 .. CheckInterval /\ 0 \in 0 .. MaxStaleCalls
  BY BeatLengths DEF Capped

LEMMA BeatInitial == HeartbeatInit => BeatIInv
  <1> SUFFICES ASSUME HeartbeatInit PROVE BeatIInv
    OBVIOUS
  <1>1. <<>> \in Seq(Latencies) /\ Len(<<>>) <= MaxSamples
    BY EmptySeq, BeatLengths
  <1>2. HeartbeatTypeOK
    BY <1>1, CountersOK DEF HeartbeatInit, HeartbeatTypeOK, Verdicts
  <1>3. QED
    BY <1>2 DEF HeartbeatInit, BeatIInv, HeartbeatInvariant, HealthyIsRecent

LEMMA MessageOK ==
    ASSUME BeatIInv, NEW measured \in Seq(Latencies), RecordMessage(measured)
    PROVE  BeatIInv'
  <1>1. HeartbeatTypeOK /\ (stage = "in callback" => verdict = "unhealthy")
    BY DEF BeatIInv, HeartbeatInvariant
  <1>2. /\ messages' = Capped(messages + 1) /\ silence' = 0
        /\ samples' = Trimmed(samples \o measured)
        /\ UNCHANGED <<monitoring, stage, sleep, errors, verdict, staleCalls, judged>>
    BY DEF RecordMessage
  <1>3. samples' \in Seq(Latencies) /\ Len(samples') <= MaxSamples
    <2>1. samples \o measured \in Seq(Latencies)
      BY <1>1, ConcatProperties DEF HeartbeatTypeOK
    <2>2. QED
      BY <1>2, <2>1, TrimmedOK
  <1>4. HeartbeatTypeOK'
    BY <1>1, <1>2, <1>3, CountersOK DEF HeartbeatTypeOK
  <1>5. HealthyIsRecent'
    <2>1. sleep \in 0 .. CheckInterval
      BY <1>1 DEF HeartbeatTypeOK
    <2>2. 0 <= StaleThreshold + (CheckInterval - sleep)
      BY <2>1, BeatLengths
    <2>3. QED
      BY <1>2, <2>2 DEF HealthyIsRecent
  <1>6. QED
    BY <1>1, <1>2, <1>4, <1>5 DEF BeatIInv, HeartbeatInvariant

LEMMA ErrorOK == ASSUME BeatIInv, RecordError PROVE BeatIInv'
  <1>1. /\ errors' = Capped(errors + 1)
        /\ UNCHANGED <<monitoring, stage, sleep, silence, messages, samples, verdict, staleCalls,
                       judged>>
    BY DEF RecordError
  <1>2. errors \in 0 .. MaxCount
    BY DEF BeatIInv, HeartbeatInvariant, HeartbeatTypeOK
  <1>3. errors' \in 0 .. MaxCount
    BY <1>1, <1>2, CountersOK
  <1>4. QED
    BY <1>1, <1>3 DEF BeatIInv, HeartbeatInvariant, HeartbeatTypeOK, HealthyIsRecent

LEMMA StartStopOK == ASSUME BeatIInv, MonitorStart \/ MonitorStop PROVE BeatIInv'
  <1>1. CASE MonitorStart
    <2>1. /\ monitoring' = TRUE /\ stage' = "sleeping" /\ sleep' = CheckInterval
          /\ judged' = FALSE /\ UNCHANGED <<silence, counters, verdict, staleCalls>>
      BY <1>1 DEF MonitorStart
    <2>2. HeartbeatTypeOK'
      BY <2>1, CountersOK DEF BeatIInv, HeartbeatInvariant, HeartbeatTypeOK, counters
    <2>3. QED
      BY <2>1, <2>2 DEF BeatIInv, HeartbeatInvariant, HealthyIsRecent
  <1>2. CASE MonitorStop
    <2>1. /\ monitoring' = FALSE /\ stage' = "none"
          /\ UNCHANGED <<sleep, silence, counters, verdict, staleCalls, judged>>
      BY <1>2 DEF MonitorStop
    <2>2. HeartbeatTypeOK'
      BY <2>1 DEF BeatIInv, HeartbeatInvariant, HeartbeatTypeOK, counters
    <2>3. QED
      BY <2>1, <2>2 DEF BeatIInv, HeartbeatInvariant, HealthyIsRecent
  <1>3. QED
    BY <1>1, <1>2

LEMMA CheckOK == ASSUME BeatIInv, CheckHealth PROVE BeatIInv'
  <1>1. /\ HeartbeatTypeOK /\ stage = "sleeping"
        /\ judged' = TRUE /\ verdict' = Assessment
        /\ staleCalls' = IF Stale /\ staleCalls < MaxStaleCalls THEN staleCalls + 1 ELSE staleCalls
        /\ UNCHANGED <<monitoring, silence, samples>>
    BY DEF CheckHealth, BeatIInv, HeartbeatInvariant
  <1>2. \/ stage' = "in callback" /\ verdict' = "unhealthy" /\ UNCHANGED <<sleep, messages, errors>>
        \/ stage' = "sleeping" /\ sleep' = CheckInterval /\ messages' = 0 /\ errors' = 0
    BY <1>1 DEF CheckHealth, NextRound
  <1>3. staleCalls' \in 0 .. MaxStaleCalls
    <2>1. staleCalls \in 0 .. MaxStaleCalls
      BY <1>1 DEF HeartbeatTypeOK
    <2>2. staleCalls' = staleCalls \/ (staleCalls < MaxStaleCalls /\ staleCalls' = staleCalls + 1)
      BY <1>1
    <2>3. QED
      BY <2>1, <2>2, BeatLengths
  <1>4. verdict' \in Verdicts /\ (verdict' = "healthy" => ~ Stale)
    BY <1>1 DEF Assessment, Verdicts
  <1>5. HeartbeatTypeOK'
    BY <1>1, <1>2, <1>3, <1>4, CountersOK DEF HeartbeatTypeOK
  <1>6. HealthyIsRecent'
    <2>1. silence \in Nat
      BY <1>1, BeatLengths DEF HeartbeatTypeOK
    <2>2. CASE verdict' = "healthy"
      <3>1. sleep' = CheckInterval /\ silence' = silence /\ silence <= StaleThreshold
        BY <1>1, <1>2, <1>4, <2>1, <2>2, BeatLengths DEF Stale
      <3>2. silence' <= StaleThreshold + (CheckInterval - sleep')
        BY <2>1, <3>1, BeatLengths
      <3>3. QED
        BY <3>2 DEF HealthyIsRecent
    <2>3. CASE verdict' # "healthy"
      BY <2>3 DEF HealthyIsRecent
    <2>4. QED
      BY <2>2, <2>3
  <1>7. stage' = "in callback" => verdict' = "unhealthy"
    BY <1>2
  <1>8. QED
    BY <1>5, <1>6, <1>7 DEF BeatIInv, HeartbeatInvariant

LEMMA CallbackOK == ASSUME BeatIInv, CallbackReturns PROVE BeatIInv'
  <1>1. /\ stage = "in callback" /\ verdict = "unhealthy" /\ HeartbeatTypeOK
        /\ stage' = "sleeping" /\ sleep' = CheckInterval /\ messages' = 0 /\ errors' = 0
        /\ UNCHANGED <<monitoring, silence, samples, verdict, staleCalls, judged>>
    BY DEF BeatIInv, HeartbeatInvariant, CallbackReturns, NextRound
  <1>2. HeartbeatTypeOK'
    BY <1>1, CountersOK DEF HeartbeatTypeOK
  <1>3. QED
    BY <1>1, <1>2 DEF BeatIInv, HeartbeatInvariant, HealthyIsRecent

LEMMA StaleCallOK == ASSUME BeatIInv, RunStaleCallback PROVE BeatIInv'
  <1>1. /\ staleCalls > 0 /\ staleCalls' = staleCalls - 1 /\ staleCalls \in 0 .. MaxStaleCalls
        /\ UNCHANGED <<monitoring, stage, sleep, silence, messages, errors, samples, verdict,
                       judged>>
    BY DEF BeatIInv, HeartbeatInvariant, HeartbeatTypeOK, RunStaleCallback, counters
  <1>2. staleCalls' \in 0 .. MaxStaleCalls
    BY <1>1, BeatLengths
  <1>3. QED
    BY <1>1, <1>2 DEF BeatIInv, HeartbeatInvariant, HeartbeatTypeOK, HealthyIsRecent

LEMMA TimeOK == ASSUME BeatIInv, TimePasses PROVE BeatIInv'
  <1>1. /\ ~ (stage = "sleeping" /\ sleep = 0)
        /\ silence' = IF silence < MaxSilence THEN silence + 1 ELSE silence
        /\ sleep' = IF stage = "sleeping" THEN sleep - 1 ELSE sleep
        /\ UNCHANGED <<monitoring, stage, messages, errors, samples, verdict, staleCalls, judged>>
    BY DEF TimePasses, counters
  <1>2. /\ HeartbeatTypeOK /\ HealthyIsRecent /\ (stage = "in callback" => verdict = "unhealthy")
    BY DEF BeatIInv, HeartbeatInvariant
  <1>3. /\ silence \in 0 .. MaxSilence /\ sleep \in 0 .. CheckInterval
        /\ stage \in {"none", "sleeping", "in callback"} /\ (monitoring <=> stage # "none")
    BY <1>2 DEF HeartbeatTypeOK
  <1>4. /\ silence' \in 0 .. MaxSilence /\ silence' <= silence + 1
        /\ sleep' \in 0 .. CheckInterval
    <2>0. MaxSilence \in Nat /\ CheckInterval \in Nat
      BY BeatLengths
    <2>4. silence \in 0 .. MaxSilence /\ sleep \in 0 .. CheckInterval
      BY <1>3
    <2>1. silence' \in 0 .. MaxSilence /\ silence' <= silence + 1
      <3>1. silence' = IF silence < MaxSilence THEN silence + 1 ELSE silence
        BY <1>1
      <3>2. QED
        BY <3>1, <2>0, <2>4
    <2>2. sleep' = sleep \/ (sleep' = sleep - 1 /\ sleep # 0)
      BY <1>1
    <2>3. sleep' \in 0 .. CheckInterval
      <3>1. CASE sleep' = sleep
        BY <1>3, <3>1
      <3>2. CASE sleep' = sleep - 1 /\ sleep # 0
        BY <2>4, <2>0, <3>2
      <3>3. QED
        BY <2>2, <3>1, <3>2
    <2>5. QED
      BY <2>1, <2>3
  <1>5. HeartbeatTypeOK'
    BY <1>1, <1>2, <1>4 DEF HeartbeatTypeOK
  <1>6. HealthyIsRecent'
    <2> SUFFICES ASSUME monitoring, judged, verdict = "healthy"
                 PROVE  silence' <= StaleThreshold + (CheckInterval - sleep')
      BY <1>1 DEF HealthyIsRecent
    <2>1. stage = "sleeping" /\ silence <= StaleThreshold + (CheckInterval - sleep)
      BY <1>2, <1>3 DEF HealthyIsRecent
    <2>2. sleep' = sleep - 1
      BY <1>1, <2>1
    <2>3. QED
      BY <1>3, <1>4, <2>1, <2>2, BeatLengths
  <1>7. QED
    BY <1>1, <1>2, <1>5, <1>6 DEF BeatIInv, HeartbeatInvariant

LEMMA BeatStep == BeatIInv /\ [HeartbeatNext]_beatVars => BeatIInv'
  <1> SUFFICES ASSUME BeatIInv, [HeartbeatNext]_beatVars PROVE BeatIInv'
    OBVIOUS
  <1>1. <<>> \in Seq(Latencies) /\ \A l \in Latencies : <<l>> \in Seq(Latencies)
    BY EmptySeq
  <1>2. ASSUME UNCHANGED beatVars PROVE BeatIInv'
    BY <1>2 DEF beatVars, BeatIInv, HeartbeatInvariant, HeartbeatTypeOK, HealthyIsRecent
  <1>3. QED
    BY <1>1, <1>2, MessageOK, ErrorOK, StartStopOK, CheckOK, CallbackOK, StaleCallOK, TimeOK
       DEF HeartbeatNext

\* For any intervals and thresholds, a monitor that finds its feed healthy has
\* heard from it at most the stale threshold before its last check, however
\* messages, errors, checks and callbacks interleave and whenever it is
\* stopped and started again.
THEOREM HeartbeatSafe == HeartbeatSpec => []HeartbeatInvariant
  <1>1. BeatIInv => HeartbeatInvariant
    BY DEF BeatIInv
  <1>2. HeartbeatSpec => []BeatIInv
    BY BeatInitial, BeatStep, PTL DEF HeartbeatSpec
  <1>3. QED
    BY <1>1, <1>2, PTL

-----------------------------------------------------------------------------
(* The fake-spike filter.                                                  *)

PendingSpikes == [symbol : Symbols, left : 0..Timeout]

LEMMA FilterLengths ==
    /\ Window \in Nat /\ MaxPending \in Nat /\ Timeout \in Nat /\ BlockTime \in Nat
    /\ Window >= 1 /\ MaxPending >= 1
    /\ Timeout \in 0..Timeout /\ BlockTime \in 0..BlockTime /\ 0 \in 0..BlockTime
  BY FilterAssumption

\* Both deques: appending to one that is full pushes the oldest element out.
LEMMA BoundedAppend ==
    ASSUME NEW S, NEW h \in Seq(S), NEW e \in S, NEW max \in Nat, max >= 1, Len(h) <= max
    PROVE  LET pushed == Append(IF Len(h) = max THEN Tail(h) ELSE h, e)
               cut == IF Len(Append(h, e)) > max THEN Tail(Append(h, e)) ELSE Append(h, e)
           IN  /\ pushed \in Seq(S) /\ Len(pushed) <= max
               /\ cut \in Seq(S) /\ Len(cut) <= max
  <1>1. Append(h, e) \in Seq(S) /\ Len(Append(h, e)) = Len(h) + 1 /\ Append(h, e) # <<>>
    BY AppendProperties
  <1>2. Len(h) \in Nat
    BY LenProperties
  <1>3. Len(h) + 1 > max => Tail(Append(h, e)) \in Seq(S) /\ Len(Tail(Append(h, e))) = Len(h)
    BY <1>1, <1>2, HeadTailProperties
  <1>4. ASSUME Len(h) = max
        PROVE  /\ Append(Tail(h), e) \in Seq(S)
               /\ Len(Append(Tail(h), e)) = max
    <2>1. h # <<>>
      BY <1>4, EmptySeq
    <2>2. Tail(h) \in Seq(S) /\ Len(Tail(h)) = Len(h) - 1
      BY <2>1, HeadTailProperties
    <2>3. Append(Tail(h), e) \in Seq(S) /\ Len(Append(Tail(h), e)) = Len(Tail(h)) + 1
      BY <2>2, AppendProperties
    <2>4. QED
      BY <1>2, <1>4, <2>2, <2>3
  <1>5. QED
    BY <1>1, <1>2, <1>3, <1>4

LEMMA StorePriceType ==
    ASSUME FilterTypeOK, NEW f \in Feeds, NEW s \in Symbols, NEW p \in Prices, StorePrice(f, s, p)
    PROVE  /\ history' \in [Symbols -> [Feeds -> Seq(Prices)]]
           /\ \A t \in Symbols, g \in Feeds : Len(history'[t][g]) <= Window
  <1> DEFINE h == Latest(Append(history[s][f], p))
  <1>1. history[s][f] \in Seq(Prices) /\ Len(history[s][f]) <= Window
    BY DEF FilterTypeOK
  <1>2. h \in Seq(Prices) /\ Len(h) <= Window
    BY <1>1, FilterLengths, BoundedAppend DEF Latest
  <1>3. history' = [history EXCEPT ![s][f] = h]
    BY DEF StorePrice
  <1> HIDE DEF h
  <1>4. QED
    BY <1>2, <1>3 DEF FilterTypeOK

LEMMA FilterInitial == FilterInit => FilterTypeOK
  <1> SUFFICES ASSUME FilterInit PROVE FilterTypeOK
    OBVIOUS
  <1>1. \A s \in Symbols, f \in Feeds : history[s][f] = <<>>
    BY DEF FilterInit
  <1>2. <<>> \in Seq(Prices) /\ <<>> \in Seq(PendingSpikes) /\ Len(<<>>) = 0
    BY EmptySeq
  <1>3. history \in [Symbols -> [Feeds -> Seq(Prices)]]
    BY <1>2 DEF FilterInit
  <1>4. blockLeft \in [Symbols -> 0..BlockTime]
    BY FilterLengths DEF FilterInit
  <1>5. pending \in Seq(PendingSpikes) /\ Len(pending) <= MaxPending
    BY <1>2, FilterLengths DEF FilterInit
  <1>6. QED
    BY <1>1, <1>2, <1>3, <1>4, <1>5, FilterLengths DEF FilterTypeOK, PendingSpikes

\* A spike enters the deque and starts its block.
LEMMA FakeSpikeStep ==
    ASSUME FilterTypeOK, NEW f \in Feeds, NEW s \in Symbols, NEW p \in Prices, FakeSpike(f, s, p)
    PROVE  /\ FilterTypeOK'
           /\ \A t \in Symbols : blockLeft'[t] > blockLeft[t]
                                   => \E i \in DOMAIN pending' : pending'[i].symbol = t
  <1> DEFINE spike == [symbol |-> s, left |-> Timeout]
  <1>1. spike \in PendingSpikes
    BY FilterLengths DEF PendingSpikes
  <1>2. pending' = Append(IF Len(pending) = MaxPending THEN Tail(pending) ELSE pending, spike)
    BY DEF FakeSpike
  <1>3. pending \in Seq(PendingSpikes) /\ Len(pending) <= MaxPending
    BY DEF FilterTypeOK, PendingSpikes
  <1> HIDE DEF spike
  <1>4. pending' \in Seq(PendingSpikes) /\ Len(pending') <= MaxPending
    BY <1>1, <1>2, <1>3, FilterLengths, BoundedAppend
  <1>5. /\ history' \in [Symbols -> [Feeds -> Seq(Prices)]]
        /\ \A t \in Symbols, g \in Feeds : Len(history'[t][g]) <= Window
    BY StorePriceType DEF FilterTypeOK, FakeSpike
  <1>6. /\ blockLeft' \in [Symbols -> 0..BlockTime]
        /\ \A t \in Symbols : blockLeft'[t] > blockLeft[t] => t = s
    <2>1. /\ blockLeft' = [blockLeft EXCEPT ![s] = BlockTime]
          /\ blockLeft \in [Symbols -> 0..BlockTime]
      BY DEF FakeSpike, FilterTypeOK
    <2>2. QED
      BY <2>1, FilterLengths
  <1>7. \E i \in DOMAIN pending' : pending'[i].symbol = s
    <2> DEFINE kept == IF Len(pending) = MaxPending THEN Tail(pending) ELSE pending
    <2>1. kept \in Seq(PendingSpikes)
      <3>1. ASSUME Len(pending) = MaxPending PROVE pending # <<>>
        BY <3>1, <1>3, FilterLengths, EmptySeq
      <3>2. QED
        BY <3>1, <1>3, HeadTailProperties
    <2>2. pending' = Append(kept, spike)
      BY <1>2
    <2> HIDE DEF kept
    <2>3. /\ Len(kept) + 1 \in DOMAIN Append(kept, spike)
          /\ Append(kept, spike)[Len(kept) + 1] = spike
      BY <1>1, <2>1, AppendProperties, LenProperties
    <2>4. spike.symbol = s
      BY DEF spike
    <2>5. QED
      BY <2>2, <2>3, <2>4
  <1>8. QED
    BY <1>4, <1>5, <1>6, <1>7 DEF FilterTypeOK, PendingSpikes

\* The clean-up renews blocks of symbols in the deque and shortens none.
LEMMA OrdinaryTickStep ==
    ASSUME FilterTypeOK, NEW f \in Feeds, NEW s \in Symbols, NEW p \in Prices, OrdinaryTick(f, s, p)
    PROVE  /\ FilterTypeOK'
           /\ \A t \in Symbols : blockLeft'[t] > blockLeft[t]
                                   => \E i \in DOMAIN pending' : pending'[i].symbol = t
  <1>1. /\ blockLeft' = [t \in Symbols |-> IF t \in ExpiredSymbols THEN BlockTime ELSE blockLeft[t]]
        /\ UNCHANGED pending
        /\ StorePrice(f, s, p)
    BY DEF OrdinaryTick, CleanupPending
  <1>2. blockLeft \in [Symbols -> 0..BlockTime]
    BY DEF FilterTypeOK
  <1>3. /\ blockLeft' \in [Symbols -> 0..BlockTime]
        /\ \A t \in Symbols : blockLeft'[t] > blockLeft[t] => t \in ExpiredSymbols
    BY <1>1, <1>2, FilterLengths
  <1>4. \A t \in ExpiredSymbols : \E i \in DOMAIN pending : pending[i].symbol = t
    BY DEF ExpiredSymbols
  <1>5. /\ history' \in [Symbols -> [Feeds -> Seq(Prices)]]
        /\ \A t \in Symbols, g \in Feeds : Len(history'[t][g]) <= Window
    BY <1>1, StorePriceType DEF FilterTypeOK
  <1>6. QED
    BY <1>1, <1>3, <1>4, <1>5 DEF FilterTypeOK

\* Time only lets blocks run out.
LEMMA FilterTimeStep ==
    ASSUME FilterTypeOK, FilterTime
    PROVE  FilterTypeOK' /\ \A t \in Symbols : ~(blockLeft'[t] > blockLeft[t])
  <1>1. \A n \in Nat : Less(n) \in 0..n
    BY DEF Less
  <1>3. \A most \in Nat : \A n \in 0..most : Less(n) \in 0..most
    BY <1>1
  <1>4. /\ blockLeft \in [Symbols -> 0..BlockTime]
        /\ pending \in Seq(PendingSpikes) /\ Len(pending) <= MaxPending
    BY DEF FilterTypeOK, PendingSpikes
  <1>5. /\ blockLeft' = [t \in Symbols |-> Less(blockLeft[t])]
        /\ pending' = [i \in DOMAIN pending |-> [pending[i] EXCEPT !.left = Less(@)]]
        /\ UNCHANGED history
    BY DEF FilterTime
  <1> HIDE DEF Less
  <1>6. blockLeft' \in [Symbols -> 0..BlockTime]
    BY <1>3, <1>4, <1>5, FilterLengths
  <1>7. \A t \in Symbols : ~(blockLeft'[t] > blockLeft[t])
    BY <1>1, <1>4, <1>5, FilterLengths
  <1>8. \A i \in DOMAIN pending : pending'[i] \in PendingSpikes
    <2> SUFFICES ASSUME NEW i \in DOMAIN pending PROVE pending'[i] \in PendingSpikes
      OBVIOUS
    <2>1. pending[i] \in PendingSpikes
      BY <1>4, ElementOfSeq, LenProperties
    <2>2. Less(pending[i].left) \in 0..Timeout
      BY <2>1, <1>3, FilterLengths DEF PendingSpikes
    <2>3. pending'[i] = [pending[i] EXCEPT !.left = Less(pending[i].left)]
      BY <1>5
    <2>4. QED
      BY <2>1, <2>2, <2>3 DEF PendingSpikes
  <1>9. pending' \in Seq(PendingSpikes) /\ Len(pending') <= MaxPending
    <2>1. DOMAIN pending = 1..Len(pending) /\ Len(pending) \in Nat
      BY <1>4, LenProperties
    <2>2. pending' = [i \in 1..Len(pending) |-> pending'[i]]
      BY <1>5, <2>1
    <2>3. \A i \in 1..Len(pending) : pending'[i] \in PendingSpikes
      BY <1>8, <2>1
    <2>4. pending' \in Seq(PendingSpikes)
      BY <2>1, <2>2, <2>3, IsASeq
    <2>5. Len(pending') = Len(pending)
      BY <2>1, <2>2, <2>4, LenProperties
    <2>6. QED
      BY <1>4, <2>4, <2>5
  <1>10. QED
    BY <1>5, <1>6, <1>7, <1>9 DEF FilterTypeOK, PendingSpikes

LEMMA FilterStep == FilterTypeOK /\ [FilterNext]_filterVars => FilterTypeOK'
  <1> SUFFICES ASSUME FilterTypeOK, [FilterNext]_filterVars PROVE FilterTypeOK'
    OBVIOUS
  <1>1. ASSUME NEW f \in Feeds, NEW s \in Symbols, NEW p \in Prices, FilterTick(f, s, p)
        PROVE  FilterTypeOK'
    BY <1>1, FakeSpikeStep, OrdinaryTickStep DEF FilterTick
  <1>2. ASSUME FilterTime PROVE FilterTypeOK'
    BY <1>2, FilterTimeStep
  <1>3. ASSUME UNCHANGED filterVars PROVE FilterTypeOK'
    BY <1>3 DEF filterVars, FilterTypeOK
  <1>4. QED
    BY <1>1, <1>2, <1>3 DEF FilterNext

\* The deques keep within their lengths and every time within its timeout.
THEOREM FilterTypeCorrect == FilterSpec => []FilterTypeOK
  BY FilterInitial, FilterStep, PTL DEF FilterSpec

\* No symbol is ever blocked for what another one did.
THEOREM OwnBlocks == FilterSpec => BlocksHaveCause
  <1> DEFINE Caused ==
            \A s \in Symbols :
                blockLeft'[s] > blockLeft[s] =>
                    \E i \in DOMAIN pending' : pending'[i].symbol = s
  <1>1. FilterTypeOK /\ [FilterNext]_filterVars => [Caused]_filterVars
    <2> SUFFICES ASSUME FilterTypeOK, FilterNext PROVE Caused
      OBVIOUS
    <2>1. ASSUME NEW f \in Feeds, NEW s \in Symbols, NEW p \in Prices, FilterTick(f, s, p)
          PROVE  Caused
      BY <2>1, FakeSpikeStep, OrdinaryTickStep DEF FilterTick
    <2>2. ASSUME FilterTime PROVE Caused
      BY <2>2, FilterTimeStep
    <2>3. QED
      BY <2>1, <2>2 DEF FilterNext
  <1>2. QED
    BY <1>1, FilterTypeCorrect, PTL DEF FilterSpec, BlocksHaveCause

-----------------------------------------------------------------------------
(* The watchers of prices.                                                 *)

\* The sum of natural numbers is one: the recursive function exists and has
\* only natural values, each by the least index where it would not hold.
LEMMA TotalNat ==
    ASSUME NEW s \in Seq(Nat)
    PROVE  Total(s) \in Nat
  <1> DEFINE N == Len(s)
             Sums(n) == {f \in [0 .. n -> Nat] :
                            f[0] = 0 /\ \A k \in 1 .. n : f[k] = f[k - 1] + s[k]}
             Without == {n \in 0 .. N : Sums(n) = {}}
  <1>1. N \in Nat /\ \A k \in 1 .. N : s[k] \in Nat
    BY LenProperties
  <1> HIDE DEF N
  <1>2. \A T \in SUBSET (0 .. N) : T # {} => \E m \in T : \A x \in T : m <= x
    <2> SUFFICES ASSUME NEW T \in SUBSET (0 .. N), T # {} PROVE \E m \in T : \A x \in T : m <= x
      OBVIOUS
    <2>1. IsFiniteSet(0 .. N)
      BY <1>1, FS_Interval
    <2>2. IsFiniteSet(T)
      BY <2>1, FS_Subset
    <2>4. T \in SUBSET Int
      BY <1>1
    <2>3. QED
      BY <2>2, <2>4, FiniteSetHasMin
  <1>3. Sums(N) # {}
    <2>0. N \in 0 .. N
      BY <1>1
    <2>1. SUFFICES ASSUME Without # {} PROVE FALSE
      <3> HIDE DEF Sums
      <3>1. QED
        BY <2>0
    <2>2. PICK m \in Without : \A x \in Without : m <= x
      <3> HIDE DEF Sums
      <3>1. Without \in SUBSET (0 .. N)
        OBVIOUS
      <3> HIDE DEF Without
      <3>2. QED
        BY <1>2, <2>1, <3>1
    <2>3. m \in 0 .. N /\ Sums(m) = {}
      OBVIOUS
    <2>4. m # 0
      <3>1. [k \in 0 .. 0 |-> 0] \in Sums(0)
        OBVIOUS
      <3>2. QED
        BY <2>3, <3>1
    <2>5. m - 1 \in 0 .. N /\ m - 1 \notin Without
      <3>1. m - 1 \in 0 .. N /\ ~ (m <= m - 1)
        BY <1>1, <2>3, <2>4
      <3> HIDE DEF Without
      <3>2. QED
        BY <2>2, <3>1
    <2>6. PICK f \in [0 .. m - 1 -> Nat] : f[0] = 0 /\ \A k \in 1 .. m - 1 : f[k] = f[k - 1] + s[k]
      <3>1. Sums(m - 1) # {}
        BY <2>5
      <3>2. QED
        BY <3>1
    <2> DEFINE g == [k \in 0 .. m |-> IF k = m THEN f[m - 1] + s[m] ELSE f[k]]
    <2>7. m - 1 \in 0 .. m - 1 /\ s[m] \in Nat /\ f[m - 1] \in Nat
      BY <1>1, <2>3, <2>4, <2>6
    <2>8. \A k \in 0 .. m : k # m => k \in 0 .. m - 1
      BY <2>3, <2>4
    <2>9. g \in [0 .. m -> Nat]
      BY <2>6, <2>7, <2>8
    <2>10. g[0] = 0
      BY <2>3, <2>4, <2>6
    <2>11. ASSUME NEW k \in 1 .. m PROVE g[k] = g[k - 1] + s[k]
      <3>1. k \in 0 .. m /\ k - 1 \in 0 .. m /\ k - 1 # m
        BY <2>3
      <3>2. CASE k = m
        BY <3>1, <3>2
      <3>3. CASE k # m
        <4>1. k \in 1 .. m - 1
          BY <2>3, <3>3
        <4>2. QED
          BY <2>6, <3>1, <3>3, <4>1
      <3>4. QED
        BY <3>2, <3>3
    <2>12. g \in Sums(m)
      BY <2>9, <2>10, <2>11
    <2>13. QED
      BY <2>3, <2>12
  <1>4. PICK f \in [0 .. N -> Nat] : f[0] = 0 /\ \A k \in 1 .. N : f[k] = f[k - 1] + s[k]
    BY <1>3
  <1> DEFINE IsSum(h) == h = [n \in 0 .. N |-> IF n = 0 THEN 0 ELSE h[n - 1] + s[n]]
             sum == CHOOSE h : IsSum(h)
  <1>5. IsSum(f)
    <2>1. \A n \in 0 .. N : n = 0 \/ n \in 1 .. N
      BY <1>1
    <2>2. \A n \in 0 .. N : f[n] = IF n = 0 THEN 0 ELSE f[n - 1] + s[n]
      BY <1>4, <2>1
    <2>3. QED
      BY <1>4, <2>2
  <1>6. IsSum(sum)
    <2> HIDE DEF IsSum
    <2>1. QED
      BY <1>5
  <1>7. \A n \in 0 .. N : sum[n] = IF n = 0 THEN 0 ELSE sum[n - 1] + s[n]
    <2> HIDE DEF sum
    <2>1. QED
      BY <1>6
  <1>8. Total(s) = sum[N]
    BY DEF Total, N
  <1> HIDE DEF sum, IsSum
  <1>9. \A n \in 0 .. N : sum[n] \in Nat
    <2> DEFINE Not == {n \in 0 .. N : sum[n] \notin Nat}
    <2>1. SUFFICES ASSUME Not # {} PROVE FALSE
      OBVIOUS
    <2>2. PICK m \in Not : \A x \in Not : m <= x
      <3>1. Not \in SUBSET (0 .. N)
        OBVIOUS
      <3> HIDE DEF Not
      <3>2. QED
        BY <1>2, <2>1, <3>1
    <2>3. m \in 0 .. N /\ sum[m] \notin Nat
      OBVIOUS
    <2>4. m # 0
      BY <1>7, <2>3
    <2>5. m - 1 \in 0 .. N /\ ~ (m <= m - 1) /\ s[m] \in Nat
      BY <1>1, <2>3, <2>4
    <2>6. sum[m - 1] \in Nat
      BY <2>2, <2>5
    <2>7. sum[m] = sum[m - 1] + s[m]
      BY <1>7, <2>3, <2>4
    <2>8. QED
      BY <2>3, <2>5, <2>6, <2>7
  <1>10. QED
    BY <1>1, <1>8, <1>9

Findings == [kind : Kinds, severity : 1 .. 5]
KeptFindings == [kind : Kinds, severity : 1 .. 5, source : Sources]

\* A finding of the kind that is not minor.
Finds(s, kind) == \E x \in ToSet(s) : x.kind = kind /\ x.severity >= 3

\* The two watchers remember the same last price, while the detector has one.
WatchIInv ==
    /\ WatchInvariant
    /\ prices # <<>> => seen /\ previous = <<prices[Len(prices)]>>

LEMMA WatchLengths ==
    /\ MaxAnomalies \in Nat /\ MaxAnomalies > 0 /\ MaxVolumes \in Nat /\ MaxVolumes > 0
    /\ MaxPrices \in Nat /\ MaxPrices > 0
    /\ \A p \in TickPrices : p \in Nat /\ p > 0
    /\ \A n \in Spreads \cup Distances \cup Volumes : n \in Nat
    /\ IsFiniteSet(Sources)
  BY PriceMonitorsAssumption

LEMMA RecentOK ==
    ASSUME NEW S, NEW s \in Seq(S), NEW n \in Nat, n > 0
    PROVE  /\ Recent(s, n) \in Seq(S) /\ Len(Recent(s, n)) <= n
           /\ s # <<>> => Recent(s, n) # <<>> /\ Recent(s, n)[Len(Recent(s, n))] = s[Len(s)]
  <1> DEFINE r == Recent(s, n)
  <1>1. r = IF Len(s) > n THEN SubSeq(s, Len(s) - n + 1, Len(s)) ELSE s
    BY DEF Recent
  <1> HIDE DEF r
  <1>2. /\ r \in Seq(S) /\ Len(r) <= n
        /\ s # <<>> => r # <<>> /\ r[Len(r)] = s[Len(s)]
    BY <1>1, LastElements
  <1>3. QED
    BY <1>2 DEF r

LEMMA IfOK ==
    ASSUME NEW S, NEW x, NEW condition, condition => x \in S
    PROVE  /\ If(condition, x) \in Seq(S)
           /\ condition => ToSet(If(condition, x)) = {x}
           /\ ~ condition => ToSet(If(condition, x)) = {}
  <1>1. <<>> \in Seq(S) /\ ToSet(<<>>) = {}
    BY EmptySeq DEF ToSet
  <1>2. ToSet(<<x>>) = {x}
    <2>1. DOMAIN <<x>> = {1} /\ <<x>>[1] = x
      OBVIOUS
    <2>2. QED
      BY <2>1 DEF ToSet
  <1>3. CASE condition
    <2>1. <<x>> \in Seq(S)
      BY <1>3
    <2>2. QED
      BY <1>2, <1>3, <2>1 DEF If
  <1>4. CASE ~ condition
    BY <1>1, <1>4 DEF If
  <1>5. QED
    BY <1>3, <1>4

\* The severity is that of the highest threshold reached.
LEMMA SeverityOK ==
    ASSUME NEW x \in Int, NEW thresholds \in [2 .. 5 -> Nat]
    PROVE  /\ Severity(x, thresholds) \in 0 .. 5
           /\ \A s \in 2 .. 5 : x >= thresholds[s] => Severity(x, thresholds) >= s
  <1> DEFINE reached == {s \in DOMAIN thresholds : x >= thresholds[s]}
  <1>1. reached \subseteq 2 .. 5 /\ \A s \in 2 .. 5 : x >= thresholds[s] => s \in reached
    OBVIOUS
  <1>2. Severity(x, thresholds) =
           IF reached = {} THEN 0 ELSE CHOOSE s \in reached : \A r \in reached : r <= s
    BY DEF Severity
  <1> HIDE DEF reached
  <1>3. IsFiniteSet(reached) /\ reached \in SUBSET Int
    <2>1. \A n \in Nat : IsFiniteSet(1 .. n)
      BY FS_Interval
    <2>2. PICK n \in Nat : n = 5
      OBVIOUS
    <2>3. reached \subseteq 1 .. n
      BY <1>1, <2>2
    <2>4. IsFiniteSet(reached)
      BY <2>1, <2>3, FS_Subset, Zenon
    <2>5. reached \in SUBSET Int
      BY <2>2, <2>3
    <2>6. QED
      BY <2>4, <2>5
  <1>4. CASE reached = {}
    BY <1>1, <1>2, <1>4
  <1>5. CASE reached # {}
    <2>1. \E m \in reached : \A r \in reached : m >= r
      BY <1>3, <1>5, FiniteSetHasMax
    <2>2. \E m \in reached : \A r \in reached : r <= m
      BY <1>3, <2>1
    <2> DEFINE v == Severity(x, thresholds)
    <2>3. v \in reached /\ \A r \in reached : r <= v
      BY <1>2, <1>5, <2>2
    <2> HIDE DEF v
    <2>4. v \in 0 .. 5 /\ \A s \in 2 .. 5 : x >= thresholds[s] => v >= s
      BY <1>1, <2>3
    <2>5. QED
      BY <2>4 DEF v
  <1>6. QED
    BY <1>4, <1>5

LEMMA ThresholdsOK ==
    /\ [s \in 2 .. 5 |-> PriceThresholds[s] * 100] \in [2 .. 5 -> Nat]
    /\ [s \in 2 .. 5 |-> PriceThresholds[s] * 100][3] = 500
    /\ SpreadThresholds \in [2 .. 5 -> Nat] /\ SpreadThresholds[4] = 200
    /\ StaleThresholds \in [2 .. 5 -> Nat] /\ StaleThresholds[5] = 60000
  <1>1. \A s \in 2 .. 5 : s = 2 \/ s = 3 \/ s = 4 \/ s = 5
    OBVIOUS
  <1>2. /\ PriceThresholds[2] = 2 /\ PriceThresholds[3] = 5
        /\ PriceThresholds[4] = 10 /\ PriceThresholds[5] = 20
    BY DEF PriceThresholds
  <1>3. /\ SpreadThresholds = [s \in 2 .. 5 |-> SpreadThresholds[s]]
        /\ SpreadThresholds[2] = 50 /\ SpreadThresholds[3] = 100
        /\ SpreadThresholds[4] = 200 /\ SpreadThresholds[5] = 500
    BY DEF SpreadThresholds
  <1>4. /\ StaleThresholds = [s \in 2 .. 5 |-> StaleThresholds[s]]
        /\ StaleThresholds[2] = 5000 /\ StaleThresholds[3] = 15000
        /\ StaleThresholds[4] = 30000 /\ StaleThresholds[5] = 60000
    BY DEF StaleThresholds
  <1>5. QED
    BY <1>1, <1>2, <1>3, <1>4

\* A price further than five percent is five hundred hundredths apart.
LEMMA FivePercent ==
    ASSUME NEW a \in Nat, NEW b \in Nat, b > 0
    PROVE  /\ (a * 10000) \div b \in Nat
           /\ a * 100 > 5 * b => (a * 10000) \div b >= 500
  <1> DEFINE n == a * 10000
             q == n \div b
  <1>1. n \in Nat
    OBVIOUS
  <1>2. a * 100 > 5 * b => n > 500 * b
    OBVIOUS
  <1> HIDE DEF n
  <1>3. q \in Nat /\ n < (q + 1) * b
    BY <1>1
  <1> HIDE DEF q
  <1>4. ASSUME q < 500 PROVE n < 500 * b
    <2>1. q + 1 <= 500 /\ q + 1 \in Nat
      BY <1>3, <1>4
    <2>2. (q + 1) * b <= 500 * b
      BY <2>1
    <2>3. (q + 1) * b \in Nat
      BY <2>1
    <2>4. QED
      BY <1>1, <1>3, <2>2, <2>3
  <1>5. q >= 500 \/ ~ (n > 500 * b)
    BY <1>1, <1>3, <1>4
  <1>6. QED
    BY <1>2, <1>3, <1>5 DEF n, q

LEMMA FarApartNat == \A a, b \in Nat : FarApart(a, b) \in Nat
  BY DEF FarApart

\* What the manager finds, and when.
LEMMA ManagerFindsOK ==
    ASSUME NEW price \in TickPrices, NEW spread \in Spreads, NEW distance \in Distances
    PROVE  LET finds == ManagerFinds(price, spread, distance)
           IN  /\ finds \in Seq(Kinds)
               /\ \A kind \in ToSet(finds) :
                    /\ previous # <<>>
                    /\ \/ kind = "price_spike"
                          /\ FarApart(price, previous[1]) * 100 > 5 * previous[1]
                       \/ kind = "spread_anomaly" /\ spread > 200
                       \/ kind = "feed_gap" /\ distance > 60000
  <1> DEFINE far == FarApart(price, previous[1]) * 100 > 5 * previous[1]
             wide == spread > 200
             late == distance > 60000
             a == If(far, "price_spike")
             b == If(wide, "spread_anomaly")
             c == If(late, "feed_gap")
             finds == ManagerFinds(price, spread, distance)
  <1>1. finds = IF previous = <<>> THEN <<>> ELSE a \o b \o c
    BY DEF ManagerFinds
  <1> HIDE DEF finds
  <1>2. <<>> \in Seq(Kinds) /\ ToSet(<<>>) = {}
    BY EmptySeq DEF ToSet
  <1>3. "price_spike" \in Kinds /\ "spread_anomaly" \in Kinds /\ "feed_gap" \in Kinds
    BY DEF Kinds
  <1> HIDE DEF far, wide, late
  <1>4. a \in Seq(Kinds) /\ \A kind \in ToSet(a) : kind = "price_spike" /\ far
    BY <1>3, IfOK
  <1>5. b \in Seq(Kinds) /\ \A kind \in ToSet(b) : kind = "spread_anomaly" /\ wide
    BY <1>3, IfOK
  <1>6. c \in Seq(Kinds) /\ \A kind \in ToSet(c) : kind = "feed_gap" /\ late
    BY <1>3, IfOK
  <1> HIDE DEF a, b, c
  <1>7. a \o b \in Seq(Kinds) /\ ToSet(a \o b) = ToSet(a) \cup ToSet(b)
    BY <1>4, <1>5, ConcatElements
  <1>8. /\ a \o b \o c \in Seq(Kinds)
        /\ ToSet(a \o b \o c) = ToSet(a) \cup ToSet(b) \cup ToSet(c)
    <2> DEFINE ab == a \o b
    <2> HIDE DEF ab
    <2>1. ab \in Seq(Kinds) /\ ToSet(ab) = ToSet(a) \cup ToSet(b)
      BY <1>7 DEF ab
    <2>2. ab \o c \in Seq(Kinds) /\ ToSet(ab \o c) = ToSet(ab) \cup ToSet(c)
      BY <1>6, <2>1, ConcatElements
    <2>3. QED
      BY <2>1, <2>2 DEF ab
  <1>9. CASE previous = <<>>
    BY <1>1, <1>2, <1>9 DEF finds
  <1>10. CASE previous # <<>>
    <2>1. finds = a \o b \o c
      BY <1>1, <1>10
    <2>2. ASSUME NEW kind \in ToSet(finds)
          PROVE  \/ kind = "price_spike" /\ far
                 \/ kind = "spread_anomaly" /\ wide
                 \/ kind = "feed_gap" /\ late
      <3>1. kind \in ToSet(a) \/ kind \in ToSet(b) \/ kind \in ToSet(c)
        BY <1>8, <2>1, <2>2
      <3>2. QED
        BY <1>4, <1>5, <1>6, <3>1
    <2>3. QED
      BY <1>8, <1>10, <2>1, <2>2 DEF far, wide, late, finds
  <1>11. QED
    BY <1>9, <1>10

\* A severity above the highest is the highest.
LEMMA AtMost5OK ==
    ASSUME NEW n \in Nat, n > 0
    PROVE  AtMost5(n) \in 1 .. 5 /\ (n >= 3 => AtMost5(n) >= 3)
  BY DEF AtMost5

\* A threshold of a severity that is not minor is reached.
LEMMA FindingOK ==
    ASSUME NEW kind \in Kinds, NEW severity \in 0 .. 5, NEW condition
    PROVE  LET s == If(condition /\ severity > 0, Found(kind, severity))
           IN  s \in Seq(Findings) /\ (condition /\ severity >= 3 => Finds(s, kind))
  <1> DEFINE f == Found(kind, severity)
             known == condition /\ severity > 0
             s == If(known, f)
  <1>1. known => f \in Findings
    BY DEF Found, Findings
  <1>2. f.kind = kind /\ f.severity = severity
    BY DEF Found
  <1>3. condition /\ severity >= 3 => known
    OBVIOUS
  <1> HIDE DEF f, known
  <1>4. s \in Seq(Findings) /\ (known => ToSet(s) = {f})
    BY <1>1, IfOK
  <1> HIDE DEF s
  <1>5. condition /\ severity >= 3 => Finds(s, kind)
    BY <1>2, <1>3, <1>4 DEF Finds
  <1>6. QED
    BY <1>4, <1>5 DEF s, f, known

LEMMA PriceSpikeOK ==
    ASSUME prices \in Seq(TickPrices), prices # <<>>, NEW price \in TickPrices
    PROVE  /\ PriceSpike(price) \in Seq(Findings)
           /\ LET last == prices[Len(prices)]
              IN  FarApart(price, last) * 100 > 5 * last => Finds(PriceSpike(price), "price_spike")
  <1> DEFINE last == prices[Len(prices)]
             change == (FarApart(price, last) * 10000) \div last
             thresholds == [s \in 2 .. 5 |-> PriceThresholds[s] * 100]
             severity == Severity(change, thresholds)
             more == IF Unusual(change) THEN AtMost5(severity + 1) ELSE severity
  <1>1. Last(prices) = last
    BY DEF Last
  <1>2. last \in TickPrices
    <2>1. Len(prices) \in Nat /\ Len(prices) # 0 /\ \A i \in 1 .. Len(prices) : prices[i] \in TickPrices
      BY LenProperties, EmptySeq
    <2>2. QED
      BY <2>1
  <1>3. price \in Nat /\ last \in Nat /\ last > 0
    BY <1>2, WatchLengths
  <1> HIDE DEF last
  <1>4. change \in Nat /\ (FarApart(price, last) * 100 > 5 * last => change >= 500)
    <2> DEFINE a == FarApart(price, last)
    <2>1. a \in Nat
      BY <1>3, FarApartNat
    <2> HIDE DEF a
    <2>2. (a * 10000) \div last \in Nat /\ (a * 100 > 5 * last => (a * 10000) \div last >= 500)
      BY <1>3, <2>1, FivePercent
    <2>3. QED
      BY <2>2 DEF a
  <1>5. thresholds \in [2 .. 5 -> Nat] /\ thresholds[3] = 500
    BY ThresholdsOK
  <1>6. PriceSpike(price) = If(severity > 0, Found("price_spike", more))
    BY <1>1 DEF PriceSpike
  <1> HIDE DEF change, thresholds
  <1>7. severity \in 0 .. 5 /\ (change >= 500 => severity >= 3)
    <2>1. /\ severity \in 0 .. 5
          /\ \A s \in 2 .. 5 : change >= thresholds[s] => severity >= s
      BY <1>4, <1>5, SeverityOK
    <2>2. 3 \in 2 .. 5
      OBVIOUS
    <2>3. QED
      BY <1>5, <2>1, <2>2
  <1> HIDE DEF severity
  <1>8. /\ severity > 0 => more \in 1 .. 5
        /\ severity >= 3 => more >= 3
    <2>1. AtMost5(severity + 1) \in 1 .. 5 /\ (severity >= 3 => AtMost5(severity + 1) >= 3)
      <3>1. severity + 1 \in Nat /\ severity + 1 > 0 /\ (severity >= 3 => severity + 1 >= 3)
        BY <1>7
      <3>2. QED
        BY <3>1, AtMost5OK
    <2>2. QED
      BY <1>7, <2>1
  <1> HIDE DEF more
  <1> DEFINE f == Found("price_spike", more)
             known == severity > 0
             s == If(known, f)
  <1>9. /\ known => f \in Findings
        /\ f.kind = "price_spike" /\ f.severity = more
        /\ severity >= 3 => known
    BY <1>7, <1>8 DEF Found, Findings, Kinds
  <1> HIDE DEF known, f
  <1>10. s \in Seq(Findings) /\ (known => ToSet(s) = {f})
    BY <1>9, IfOK
  <1>11. PriceSpike(price) = s
    BY <1>6 DEF known, f
  <1> HIDE DEF s
  <1>12. severity >= 3 => Finds(s, "price_spike")
    BY <1>8, <1>9, <1>10 DEF Finds
  <1>13. QED
    BY <1>4, <1>7, <1>10, <1>11, <1>12 DEF last

LEMMA SpreadAnomalyOK ==
    ASSUME NEW spread \in Spreads
    PROVE  /\ SpreadAnomaly(spread) \in Seq(Findings)
           /\ spread > 200 => Finds(SpreadAnomaly(spread), "spread_anomaly")
  <1> DEFINE severity == Severity(spread, SpreadThresholds)
  <1>1. spread \in Nat /\ "spread_anomaly" \in Kinds
    BY WatchLengths DEF Kinds
  <1>2. severity \in 0 .. 5 /\ (spread > 200 => severity >= 3)
    <2>1. /\ severity \in 0 .. 5
          /\ \A s \in 2 .. 5 : spread >= SpreadThresholds[s] => severity >= s
      BY <1>1, ThresholdsOK, SeverityOK
    <2> HIDE DEF severity
    <2>2. 4 \in 2 .. 5 /\ SpreadThresholds[4] = 200
      BY ThresholdsOK
    <2>3. spread > 200 => severity >= 4
      BY <1>1, <2>1, <2>2
    <2>4. QED
      BY <2>1, <2>3
  <1>3. SpreadAnomaly(spread) = If(TRUE /\ severity > 0, Found("spread_anomaly", severity))
    BY DEF SpreadAnomaly
  <1> HIDE DEF severity
  <1>4. QED
    BY <1>1, <1>2, <1>3, FindingOK

LEMMA StaleFeedOK ==
    ASSUME NEW distance \in Distances
    PROVE  /\ StaleFeed(distance) \in Seq(Findings)
           /\ seen /\ distance > 60000 => Finds(StaleFeed(distance), "stale_feed")
  <1> DEFINE severity == Severity(distance, StaleThresholds)
  <1>1. distance \in Nat /\ "stale_feed" \in Kinds
    BY WatchLengths DEF Kinds
  <1>2. severity \in 0 .. 5 /\ (distance > 60000 => severity >= 3)
    <2>1. /\ severity \in 0 .. 5
          /\ \A s \in 2 .. 5 : distance >= StaleThresholds[s] => severity >= s
      BY <1>1, ThresholdsOK, SeverityOK
    <2> HIDE DEF severity
    <2>2. 5 \in 2 .. 5 /\ StaleThresholds[5] = 60000
      BY ThresholdsOK
    <2>3. distance > 60000 => severity >= 5
      BY <1>1, <2>1, <2>2
    <2>4. QED
      BY <2>1, <2>3
  <1>3. StaleFeed(distance) = If(seen /\ severity > 0, Found("stale_feed", severity))
    BY DEF StaleFeed
  <1> HIDE DEF severity
  <1>4. QED
    BY <1>1, <1>2, <1>3, FindingOK

LEMMA VolumeAnomalyOK ==
    ASSUME volumes \in Seq(Volumes \ {0}), NEW volume \in Volumes
    PROVE  VolumeAnomaly(volume) \in Seq(Findings)
  <1> DEFINE total == Total(volumes)
             n == volume * Len(volumes)
             m == 10 * total
             severity == AtMost5((n \div m) + 2)
  <1>1. volumes \in Seq(Nat)
    <2>1. \A v \in Volumes \ {0} : v \in Nat
      BY WatchLengths
    <2>2. volumes \in [1 .. Len(volumes) -> Volumes \ {0}] /\ Len(volumes) \in Nat
      BY LenProperties
    <2>3. volumes \in [1 .. Len(volumes) -> Nat]
      BY <2>1, <2>2
    <2>4. \A k \in Nat : [1 .. k -> Nat] \subseteq Seq(Nat)
      BY SeqDef
    <2>5. QED
      BY <2>2, <2>3, <2>4
  <1>2. total \in Nat /\ Len(volumes) \in Nat /\ volume \in Nat
    BY <1>1, TotalNat, LenProperties, WatchLengths
  <1> HIDE DEF total
  <1>3. n \in Nat /\ m \in Nat /\ (total > 0 => m > 0)
    BY <1>2
  <1>4. VolumeAnomaly(volume) =
           IF n > m /\ total > 0 THEN <<Found("volume_anomaly", severity)>> ELSE <<>>
    BY DEF VolumeAnomaly, total
  <1> HIDE DEF n, m
  <1>5. <<>> \in Seq(Findings)
    BY EmptySeq
  <1>6. CASE total > 0
    <2>1. n \div m \in Nat
      BY <1>3, <1>6
    <2>2. severity \in 1 .. 5
      <3> DEFINE k == (n \div m) + 2
      <3>1. k \in Nat /\ k > 0
        BY <2>1
      <3> HIDE DEF k
      <3>2. AtMost5(k) \in 1 .. 5
        BY <3>1, AtMost5OK
      <3>3. QED
        BY <3>2 DEF k
    <2> HIDE DEF severity
    <2>3. Found("volume_anomaly", severity) \in Findings
      BY <2>2 DEF Found, Findings, Kinds
    <2>4. <<Found("volume_anomaly", severity)>> \in Seq(Findings)
      BY <2>3
    <2>5. QED
      BY <1>4, <1>5, <2>4
  <1>7. CASE ~ (total > 0)
    BY <1>4, <1>5, <1>7
  <1>8. QED
    BY <1>6, <1>7

LEMMA CrossFeedOK ==
    ASSUME latest \in [Sources -> TickPrices \cup {0}], NEW source \in Sources,
           NEW price \in TickPrices
    PROVE  CrossFeedMismatch(source, price) \in Seq(Findings)
  <1> DEFINE compared == Compared(source)
             deviation(q) == (FarApart(price, q) * 10000) \div q
             deviations == {deviation(q) : q \in compared}
             most == CHOOSE d \in deviations : \A e \in deviations : e <= d
             severity == AtMost5((most \div 10) + 1)
             apart == \E q \in compared : FarApart(price, q) * 1000 > q
  <1>1. CrossFeedMismatch(source, price) =
           IF apart THEN <<Found("cross_feed_mismatch", severity)>> ELSE <<>>
    BY DEF CrossFeedMismatch
  <1>2. compared \subseteq TickPrices /\ compared \subseteq {latest[s] : s \in Sources}
    BY DEF Compared
  <1>3. IsFiniteSet(compared)
    <2> DEFINE shown == {latest[s] : s \in Sources}
    <2>1. latest \in Surjection(Sources, shown)
      BY DEF Surjection
    <2> HIDE DEF shown
    <2>2. IsFiniteSet(shown)
      BY <2>1, WatchLengths, FS_Surjection
    <2> HIDE DEF compared
    <2>3. QED
      BY <1>2, <2>2, FS_Subset DEF shown
  <1> HIDE DEF compared, apart
  <1>4. \A q \in compared : deviation(q) \in Nat
    <2> SUFFICES ASSUME NEW q \in compared PROVE deviation(q) \in Nat
      OBVIOUS
    <2>1. q \in Nat /\ q > 0 /\ price \in Nat
      BY <1>2, WatchLengths
    <2> DEFINE a == FarApart(price, q)
    <2>2. a \in Nat
      BY <2>1, FarApartNat
    <2> HIDE DEF a
    <2>3. (a * 10000) \div q \in Nat
      BY <2>1, <2>2, FivePercent
    <2>4. QED
      BY <2>3 DEF a
  <1>5. <<>> \in Seq(Findings)
    BY EmptySeq
  <1>6. CASE compared = {}
    BY <1>1, <1>5, <1>6 DEF apart
  <1>7. CASE compared # {}
    <2>1. IsFiniteSet(deviations) /\ deviations # {} /\ \A d \in deviations : d \in Nat
      <3> DEFINE f == [q \in compared |-> deviation(q)]
      <3> HIDE DEF deviation
      <3>1. f \in Surjection(compared, deviations)
        BY DEF Surjection
      <3>2. deviations # {} /\ \A d \in deviations : d \in Nat
        BY <1>4, <1>7
      <3> HIDE DEF f, deviations
      <3>3. QED
        BY <1>3, <3>1, <3>2, FS_Surjection
    <2> HIDE DEF deviations
    <2>2. \E m \in deviations : \A x \in deviations : m >= x
      <3>1. deviations \in SUBSET Int
        BY <2>1
      <3>2. QED
        BY <2>1, <3>1, FiniteSetHasMax
    <2>3. \E m \in deviations : \A x \in deviations : x <= m
      BY <2>1, <2>2
    <2>4. most \in deviations
      BY <2>3
    <2>5. most \in Nat
      BY <2>1, <2>4
    <2> HIDE DEF most
    <2>6. severity \in 1 .. 5
      <3> DEFINE k == (most \div 10) + 1
      <3>1. k \in Nat /\ k > 0
        BY <2>5
      <3> HIDE DEF k
      <3>2. AtMost5(k) \in 1 .. 5
        BY <3>1, AtMost5OK
      <3>3. QED
        BY <3>2 DEF k
    <2> HIDE DEF severity
    <2>7. Found("cross_feed_mismatch", severity) \in Findings
      BY <2>6 DEF Found, Findings, Kinds
    <2>8. <<Found("cross_feed_mismatch", severity)>> \in Seq(Findings)
      BY <2>7
    <2>9. QED
      BY <1>1, <1>5, <2>8
  <1>8. QED
    BY <1>6, <1>7

\* A finding stays one among others.
LEMMA FindsJoined ==
    ASSUME NEW a \in Seq(Findings), NEW b \in Seq(Findings)
    PROVE  /\ a \o b \in Seq(Findings)
           /\ \A kind : Finds(a, kind) \/ Finds(b, kind) => Finds(a \o b, kind)
  BY ConcatElements DEF Finds

\* What the detector finds.
LEMMA DetectorFindsOK ==
    ASSUME WatchIInv, NEW source \in Sources, NEW price \in TickPrices, NEW spread \in Spreads,
           NEW distance \in Distances, NEW volume \in Volumes
    PROVE  LET finds == DetectorFinds(source, price, spread, distance, volume)
               last == prices[Len(prices)]
           IN  /\ finds \in Seq(Findings)
               /\ spread > 200 => Finds(finds, "spread_anomaly")
               /\ seen /\ distance > 60000 => Finds(finds, "stale_feed")
               /\ prices # <<>> /\ FarApart(price, last) * 100 > 5 * last
                     => Finds(finds, "price_spike")
  <1> DEFINE last == prices[Len(prices)]
             far == prices # <<>> /\ FarApart(price, last) * 100 > 5 * last
             wide == spread > 200
             late == seen /\ distance > 60000
             a == IF prices = <<>> THEN <<>> ELSE PriceSpike(price)
             b == SpreadAnomaly(spread)
             c == StaleFeed(distance)
             d == VolumeAnomaly(volume)
             e == CrossFeedMismatch(source, price)
             finds == DetectorFinds(source, price, spread, distance, volume)
  <1>1. finds = a \o b \o c \o d \o e
    BY DEF DetectorFinds
  <1>2. /\ prices \in Seq(TickPrices) /\ volumes \in Seq(Volumes \ {0})
        /\ latest \in [Sources -> TickPrices \cup {0}]
    BY DEF WatchIInv, WatchInvariant, WatchTypeOK
  <1>3. a \in Seq(Findings) /\ (far => Finds(a, "price_spike"))
    <2>1. <<>> \in Seq(Findings)
      BY EmptySeq
    <2>2. CASE prices = <<>>
      BY <2>1, <2>2
    <2>3. CASE prices # <<>>
      BY <1>2, <2>3, PriceSpikeOK
    <2>4. QED
      BY <2>2, <2>3
  <1>4. b \in Seq(Findings) /\ (wide => Finds(b, "spread_anomaly"))
    BY SpreadAnomalyOK
  <1>5. c \in Seq(Findings) /\ (late => Finds(c, "stale_feed"))
    BY StaleFeedOK
  <1>6. d \in Seq(Findings)
    BY <1>2, VolumeAnomalyOK
  <1>7. e \in Seq(Findings)
    BY <1>2, CrossFeedOK
  <1> HIDE DEF a, b, c, d, e, far, wide, late
  <1> DEFINE ab == a \o b
             abc == ab \o c
             abcd == abc \o d
  <1>8. ab \in Seq(Findings) /\ (far => Finds(ab, "price_spike"))
        /\ (wide => Finds(ab, "spread_anomaly"))
    BY <1>3, <1>4, FindsJoined
  <1> HIDE DEF ab
  <1>9. abc \in Seq(Findings) /\ (far => Finds(abc, "price_spike"))
        /\ (wide => Finds(abc, "spread_anomaly")) /\ (late => Finds(abc, "stale_feed"))
    BY <1>5, <1>8, FindsJoined
  <1> HIDE DEF abc
  <1>10. abcd \in Seq(Findings) /\ (far => Finds(abcd, "price_spike"))
        /\ (wide => Finds(abcd, "spread_anomaly")) /\ (late => Finds(abcd, "stale_feed"))
    BY <1>6, <1>9, FindsJoined
  <1> HIDE DEF abcd
  <1>11. abcd \o e \in Seq(Findings) /\ (far => Finds(abcd \o e, "price_spike"))
        /\ (wide => Finds(abcd \o e, "spread_anomaly")) /\ (late => Finds(abcd \o e, "stale_feed"))
    BY <1>7, <1>10, FindsJoined
  <1>12. finds = abcd \o e
    BY <1>1 DEF abcd, abc, ab
  <1> HIDE DEF finds
  <1>13. finds \in Seq(Findings) /\ (far => Finds(finds, "price_spike"))
        /\ (wide => Finds(finds, "spread_anomaly")) /\ (late => Finds(finds, "stale_feed"))
    BY <1>11, <1>12
  <1>14. QED
    BY <1>13 DEF far, wide, late, finds

\* A sequence of findings with their source.
LEMMA WithSourceOK ==
    ASSUME NEW s \in Seq(Findings), NEW source \in Sources
    PROVE  [i \in DOMAIN s |-> [kind |-> s[i].kind, severity |-> s[i].severity,
                                source |-> source]] \in Seq(KeptFindings)
  <1> DEFINE k == Len(s)
             kept(i) == [kind |-> s[i].kind, severity |-> s[i].severity, source |-> source]
  <1>1. k \in Nat /\ DOMAIN s = 1 .. k /\ \A i \in 1 .. k : s[i] \in Findings
    BY LenProperties
  <1>2. \A i \in 1 .. k : kept(i) \in KeptFindings
    BY <1>1 DEF Findings, KeptFindings
  <1> HIDE DEF k, kept
  <1>3. [i \in 1 .. k |-> kept(i)] \in Seq(KeptFindings)
    BY <1>1, <1>2, IsASeq
  <1>4. QED
    BY <1>1, <1>3 DEF kept

LEMMA OnTickOK ==
    ASSUME WatchIInv, NEW source \in Sources, NEW price \in TickPrices, NEW spread \in Spreads,
           NEW distance \in Distances, NEW volume \in Volumes,
           OnTick(source, price, spread, distance, volume)
    PROVE  WatchIInv'
  <1> DEFINE reports == ManagerFinds(price, spread, distance)
             detector == DetectorFinds(source, price, spread, distance, volume)
             kept == [i \in DOMAIN detector |->
                         [kind |-> detector[i].kind, severity |-> detector[i].severity,
                          source |-> source]]
             last == prices[Len(prices)]
  <1>1. /\ previous' = <<price>>
        /\ reported' = Recent(reported \o reports, MaxAnomalies)
        /\ prices' = Recent(Append(prices, price), MaxPrices)
        /\ volumes' = IF volume > 0 THEN Recent(Append(volumes, volume), MaxVolumes) ELSE volumes
        /\ seen' = TRUE
        /\ latest' = [latest EXCEPT ![source] = price]
        /\ detected' = Recent(detected \o kept, MaxAnomalies)
        /\ onTick' = [manager |-> reports, detector |-> detector, first |-> prices = <<>>]
    BY DEF OnTick
  <1>2. /\ reports \in Seq(Kinds)
        /\ \A kind \in ToSet(reports) :
              /\ previous # <<>>
              /\ \/ kind = "price_spike" /\ FarApart(price, previous[1]) * 100 > 5 * previous[1]
                 \/ kind = "spread_anomaly" /\ spread > 200
                 \/ kind = "feed_gap" /\ distance > 60000
    BY ManagerFindsOK
  <1>3. /\ detector \in Seq(Findings)
        /\ spread > 200 => Finds(detector, "spread_anomaly")
        /\ seen /\ distance > 60000 => Finds(detector, "stale_feed")
        /\ prices # <<>> /\ FarApart(price, last) * 100 > 5 * last
              => Finds(detector, "price_spike")
    BY DetectorFindsOK
  <1> HIDE DEF reports, detector
  <1>4. kept \in Seq(KeptFindings)
    BY <1>3, WithSourceOK
  <1> HIDE DEF kept
  <1>5. /\ WatchTypeOK
        /\ prices # <<>> => seen /\ previous = <<last>>
    BY DEF WatchIInv, WatchInvariant
  <1>6. /\ reported \in Seq(Kinds) /\ prices \in Seq(TickPrices) /\ volumes \in Seq(Volumes \ {0})
        /\ latest \in [Sources -> TickPrices \cup {0}] /\ detected \in Seq(KeptFindings)
        /\ Len(volumes) <= MaxVolumes
    BY <1>5 DEF WatchTypeOK, KeptFindings
  <1>7. reported' \in Seq(Kinds) /\ Len(reported') <= MaxAnomalies
    <2>1. reported \o reports \in Seq(Kinds)
      BY <1>2, <1>6, ConcatProperties
    <2>2. QED
      BY <1>1, <2>1, RecentOK, WatchLengths
  <1>8. detected' \in Seq(KeptFindings) /\ Len(detected') <= MaxAnomalies
    <2>1. detected \o kept \in Seq(KeptFindings)
      BY <1>4, <1>6, ConcatProperties
    <2>2. QED
      BY <1>1, <2>1, RecentOK, WatchLengths
  <1>9. /\ prices' \in Seq(TickPrices) /\ Len(prices') <= MaxPrices
        /\ prices' # <<>> /\ prices'[Len(prices')] = price
    <2> DEFINE more == Append(prices, price)
    <2>1. more \in Seq(TickPrices) /\ Len(more) = Len(prices) + 1 /\ more # <<>>
          /\ more[Len(prices) + 1] = price
      BY <1>6, AppendProperties
    <2>2. more[Len(more)] = price
      BY <2>1
    <2> HIDE DEF more
    <2>3. prices' = Recent(more, MaxPrices)
      BY <1>1 DEF more
    <2>4. QED
      BY <2>1, <2>2, <2>3, RecentOK, WatchLengths
  <1>10. volumes' \in Seq(Volumes \ {0}) /\ Len(volumes') <= MaxVolumes
    <2>1. CASE volume > 0
      <3>1. volume \in Volumes \ {0}
        BY <2>1
      <3>2. Append(volumes, volume) \in Seq(Volumes \ {0})
        BY <1>6, <3>1, AppendProperties
      <3>3. volumes' = Recent(Append(volumes, volume), MaxVolumes)
        BY <1>1, <2>1
      <3>4. QED
        BY <3>2, <3>3, RecentOK, WatchLengths
    <2>2. CASE ~ (volume > 0)
      BY <1>1, <1>6, <2>2
    <2>3. QED
      BY <2>1, <2>2
  <1>11. latest' \in [Sources -> TickPrices \cup {0}]
    BY <1>1, <1>6
  <1>12. previous' \in {<<>>} \cup {<<p>> : p \in TickPrices} /\ seen' \in BOOLEAN
    BY <1>1
  <1>13. WatchTypeOK'
    BY <1>7, <1>8, <1>9, <1>10, <1>11, <1>12 DEF WatchTypeOK, KeptFindings
  <1>14. previous' = <<prices'[Len(prices')]>> /\ seen'
    BY <1>1, <1>9
  <1>15. WatchersAgree'
    <2>1. ASSUME prices # <<>>, NEW kind \in ToSet(reports)
          PROVE  Finds(detector, IF kind = "feed_gap" THEN "stale_feed" ELSE kind)
      <3>1. seen /\ previous = <<last>>
        BY <1>5, <2>1
      <3>2. previous[1] = last
        BY <3>1
      <3>3. \/ kind = "price_spike" /\ FarApart(price, last) * 100 > 5 * last
            \/ kind = "spread_anomaly" /\ spread > 200
            \/ kind = "feed_gap" /\ distance > 60000
        BY <1>2, <2>1, <3>2
      <3> HIDE DEF last
      <3>4. CASE kind = "price_spike" /\ FarApart(price, last) * 100 > 5 * last
        BY <1>3, <2>1, <3>4
      <3>5. CASE kind = "spread_anomaly" /\ spread > 200
        BY <1>3, <3>5
      <3>6. CASE kind = "feed_gap" /\ distance > 60000
        BY <1>3, <3>1, <3>6
      <3>7. QED
        BY <3>3, <3>4, <3>5, <3>6
    <2>2. /\ onTick'.manager = reports /\ onTick'.detector = detector
          /\ (onTick'.first <=> prices = <<>>)
      BY <1>1
    <2>3. ASSUME prices # <<>>, NEW i \in DOMAIN reports
          PROVE  \E j \in DOMAIN detector :
                    /\ detector[j].kind = IF reports[i] = "feed_gap" THEN "stale_feed"
                                          ELSE reports[i]
                    /\ detector[j].severity >= 3
      <3>1. reports[i] \in ToSet(reports)
        BY DEF ToSet
      <3>2. Finds(detector, IF reports[i] = "feed_gap" THEN "stale_feed" ELSE reports[i])
        BY <2>1, <2>3, <3>1
      <3>3. QED
        BY <3>2 DEF Finds, ToSet
    <2>4. QED
      BY <2>2, <2>3 DEF WatchersAgree
  <1>16. QED
    BY <1>13, <1>14, <1>15 DEF WatchIInv, WatchInvariant

LEMMA WatchInitial == WatchInit => WatchIInv
  <1> SUFFICES ASSUME WatchInit PROVE WatchIInv
    OBVIOUS
  <1>1. \A S : <<>> \in Seq(S)
    BY EmptySeq
  <1>2. Len(<<>>) <= MaxAnomalies /\ Len(<<>>) <= MaxPrices /\ Len(<<>>) <= MaxVolumes
    BY WatchLengths
  <1>3. WatchTypeOK
    BY <1>1, <1>2 DEF WatchInit, WatchTypeOK
  <1>4. onTick.first = TRUE
    BY DEF WatchInit, Nothing
  <1>5. QED
    BY <1>3, <1>4 DEF WatchInit, WatchIInv, WatchInvariant, WatchersAgree

LEMMA DetectorResetOK == ASSUME WatchIInv, DetectorReset PROVE WatchIInv'
  <1>1. \A S : <<>> \in Seq(S)
    BY EmptySeq
  <1>2. Len(<<>>) <= MaxAnomalies /\ Len(<<>>) <= MaxPrices /\ Len(<<>>) <= MaxVolumes
    BY WatchLengths
  <1>3. WatchTypeOK'
    BY <1>1, <1>2 DEF DetectorReset, WatchTypeOK, WatchIInv, WatchInvariant
  <1>4. onTick'.first = TRUE /\ prices' = <<>>
    BY DEF DetectorReset, Nothing
  <1>5. QED
    BY <1>3, <1>4 DEF WatchIInv, WatchInvariant, WatchersAgree

LEMMA WatchStep == WatchIInv /\ [WatchNext]_watchVars => WatchIInv'
  <1> SUFFICES ASSUME WatchIInv, [WatchNext]_watchVars PROVE WatchIInv'
    OBVIOUS
  <1>1. ASSUME UNCHANGED watchVars PROVE WatchIInv'
    BY <1>1 DEF watchVars, WatchIInv, WatchInvariant, WatchTypeOK, WatchersAgree
  <1>2. QED
    BY <1>1, DetectorResetOK, OnTickOK DEF WatchNext

\* For any prices, spreads and distances in time, whatever the feed manager
\* reports of a tick the anomaly detector finds too, and not as a minor one.
THEOREM WatchersSafe == WatchSpec => []WatchInvariant
  <1>1. WatchIInv => WatchInvariant
    BY DEF WatchIInv
  <1>2. WatchSpec => []WatchIInv
    BY WatchInitial, WatchStep, PTL DEF WatchSpec
  <1>3. QED
    BY <1>1, <1>2, PTL

-----------------------------------------------------------------------------
(* The feed manager.                                                       *)

\* One feed that never escaped the manager: is it registered (listed), does it
\* run, is it connected, which receive loops were made and have begun, which
\* generators are alive.  A receive loop is awaited only while the feed runs,
\* and then no generator of an earlier one is left; a feed that does not run
\* has none at all.
FeedOK(f, listed, phase, wait, runs, connects, made, began, ticks, bars) ==
    /\ runs => listed /\ phase # "stopped"
    /\ began # made => /\ runs /\ phase \in {"running", "halting"}
                       /\ made = began + 1 /\ ticks = {} /\ bars = {}
    /\ ~ runs => ticks = {} /\ bars = {}
    /\ ticks \cup bars \subseteq {began}
    /\ connects => runs \/ wait = <<f>>

\* What get_status may have stored never contradicts the connection.
StatusOK(connects, state, heard) ==
    /\ connects <=> heard = "healthy"
    /\ state = "healthy" => connects
    /\ state = "disconnected" => ~ connects

FeedIInv ==
    /\ FeedTypeOK
    /\ ticking \in [Adapters -> SUBSET Int] /\ barring \in [Adapters -> SUBSET Int]
    /\ awaited # NoFeed => manager = "stopping"
    /\ \A f \in Adapters : StatusOK(connected[f], health[f], told[f])
    /\ \A f \in Adapters \ escaped :
          FeedOK(f, f \in Registered, manager, awaited, running[f], connected[f], loops[f],
                 begun[f], ticking[f], barring[f])

LEMMA FeedInitial == FeedInit => FeedIInv
  <1> SUFFICES ASSUME FeedInit PROVE FeedIInv
    OBVIOUS
  <1>1. <<>> \in Seq(Adapters)
    BY EmptySeq
  <1>2. MaxLoops \in Nat /\ MaxRegistrations \in [Adapters -> Nat] /\ 0 \in 0 .. MaxLoops
    BY FeedManagerAssumption
  <1>3. FeedTypeOK
    BY <1>1, <1>2 DEF FeedInit, FeedTypeOK, Healths, NoFeed
  <1>4. ticking \in [Adapters -> SUBSET Int] /\ barring \in [Adapters -> SUBSET Int]
    BY DEF FeedInit
  <1>5. ASSUME NEW f \in Adapters
        PROVE  /\ StatusOK(connected[f], health[f], told[f])
               /\ FeedOK(f, f \in Registered, manager, awaited, running[f], connected[f], loops[f],
                         begun[f], ticking[f], barring[f])
    BY DEF FeedInit, StatusOK, FeedOK
  <1>6. QED
    BY <1>3, <1>4, <1>5 DEF FeedInit, FeedIInv

LEMMA RegisterOK == ASSUME FeedIInv, NEW f \in Adapters, RegisterFeed(f) PROVE FeedIInv'
  <1>1. /\ f \notin Registered /\ callbacks[f] < MaxRegistrations[f]
        /\ feeds' = Append(feeds, f) /\ callbacks' = [callbacks EXCEPT ![f] = @ + 1]
        /\ UNCHANGED <<manager, visited, sizeAtStop, awaited, running, connected, health, fresh,
                       told, loops, begun, ticking, barring, traded, escaped>>
    BY DEF RegisterFeed, stopping, status, tasks
  <1>2. feeds \in Seq(Adapters) /\ callbacks \in [Adapters -> Nat]
        /\ MaxRegistrations \in [Adapters -> Nat]
        /\ \A g \in Adapters : callbacks[g] <= MaxRegistrations[g]
    BY FeedManagerAssumption DEF FeedIInv, FeedTypeOK
  <1>3. feeds' \in Seq(Adapters) /\ Registered \subseteq Registered'
    <2>1. /\ Append(feeds, f) \in Seq(Adapters)
          /\ DOMAIN Append(feeds, f) = 1 .. Len(feeds) + 1
          /\ \A i \in DOMAIN feeds : Append(feeds, f)[i] = feeds[i]
      BY <1>2, AppendElements
    <2>2. Len(feeds) \in Nat /\ DOMAIN feeds = 1 .. Len(feeds)
      BY <1>2, LenProperties
    <2>3. \A i \in DOMAIN feeds : i \in DOMAIN feeds'
      BY <1>1, <2>1, <2>2
    <2>4. QED
      BY <1>1, <2>1, <2>3 DEF Registered, Range
  <1>4. callbacks' \in [Adapters -> Nat] /\ \A g \in Adapters : callbacks'[g] <= MaxRegistrations[g]
    BY <1>1, <1>2
  <1>5. FeedTypeOK'
    BY <1>1, <1>3, <1>4 DEF FeedIInv, FeedTypeOK
  <1>6. ASSUME NEW g \in Adapters \ escaped
        PROVE  FeedOK(g, g \in Registered', manager, awaited, running[g], connected[g], loops[g],
                      begun[g], ticking[g], barring[g])
    BY <1>3 DEF FeedIInv, FeedOK
  <1>7. QED
    BY <1>1, <1>5, <1>6 DEF FeedIInv

LEMMA UnregisterOK == ASSUME FeedIInv, NEW f \in Adapters, UnregisterFeed(f) PROVE FeedIInv'
  <1>1. PICK i \in DOMAIN feeds : feeds[i] = f /\ feeds' = RemoveAt(feeds, i)
    BY DEF UnregisterFeed
  <1>2. /\ escaped' = IF running[f] THEN escaped \cup {f} ELSE escaped
        /\ UNCHANGED <<manager, visited, sizeAtStop, awaited, callbacks, running, connected, health,
                       fresh, told, loops, begun, ticking, barring, traded>>
    BY DEF UnregisterFeed, stopping, status, tasks
  <1>3. feeds \in Seq(Adapters) /\ escaped \subseteq Adapters
    BY DEF FeedIInv, FeedTypeOK
  <1>4. feeds' \in Seq(Adapters) /\ \A g \in Registered : g # f => g \in Registered'
    <2>1. /\ RemoveAt(feeds, i) \in Seq(Adapters)
          /\ \A j \in DOMAIN feeds : j # i =>
                \E k \in DOMAIN RemoveAt(feeds, i) : RemoveAt(feeds, i)[k] = feeds[j]
      BY <1>1, <1>3, RemoveAtElements
    <2>2. QED
      BY <1>1, <2>1 DEF Registered, Range
  <1>5. FeedTypeOK'
    BY <1>2, <1>3, <1>4 DEF FeedIInv, FeedTypeOK
  <1>6. ASSUME NEW g \in Adapters \ escaped'
        PROVE  FeedOK(g, g \in Registered', manager, awaited, running[g], connected[g], loops[g],
                      begun[g], ticking[g], barring[g])
    <2>1. g \in Adapters \ escaped /\ (g = f => ~ running[g])
      BY <1>2
    <2>2. FeedOK(g, g \in Registered, manager, awaited, running[g], connected[g], loops[g],
                 begun[g], ticking[g], barring[g])
      BY <2>1 DEF FeedIInv
    <2>3. running[g] /\ g \in Registered => g \in Registered'
      BY <1>4, <2>1
    <2>4. QED
      BY <2>2, <2>3 DEF FeedOK
  <1>7. QED
    BY <1>2, <1>5, <1>6 DEF FeedIInv

LEMMA GetStatusOK == ASSUME FeedIInv, NEW f, GetStatus(f) PROVE FeedIInv'
  <1>1. /\ health' = [health EXCEPT ![f] = HealthOf(f)]
        /\ UNCHANGED <<feeds, manager, visited, sizeAtStop, awaited, callbacks, running, connected,
                       fresh, told, loops, begun, ticking, barring, traded, escaped>>
    BY DEF GetStatus, stopping, tasks
  <1>2. health \in [Adapters -> Healths]
    BY DEF FeedIInv, FeedTypeOK
  <1>3. /\ HealthOf(f) \in Healths
        /\ HealthOf(f) = "healthy" => connected[f]
        /\ HealthOf(f) = "disconnected" => ~ connected[f]
    BY DEF HealthOf, Healths
  <1>4. health' \in [Adapters -> Healths]
    BY <1>1, <1>2, <1>3
  <1>5. FeedTypeOK'
    BY <1>1, <1>4 DEF FeedIInv, FeedTypeOK
  <1>6. ASSUME NEW g \in Adapters PROVE StatusOK(connected[g], health'[g], told[g])
    <2>1. StatusOK(connected[g], health[g], told[g])
      BY DEF FeedIInv
    <2>2. health'[g] = IF g = f THEN HealthOf(f) ELSE health[g]
      BY <1>1, <1>2
    <2>3. QED
      BY <1>3, <2>1, <2>2 DEF StatusOK
  <1>7. \A g \in Adapters \ escaped :
          FeedOK(g, g \in Registered', manager, awaited, running[g], connected[g], loops[g],
                 begun[g], ticking[g], barring[g])
    <2>1. Registered' = Registered
      BY <1>1 DEF Registered
    <2>2. QED
      BY <2>1 DEF FeedIInv
  <1>8. QED
    BY <1>1, <1>5, <1>6, <1>7 DEF FeedIInv

\* An action that changes nothing but what the ticks leave behind.
LEMMA FreshOK ==
    ASSUME FeedIInv, fresh' \in [Adapters -> BOOLEAN], traded' \in [Adapters -> BOOLEAN],
           UNCHANGED <<feeds, manager, visited, sizeAtStop, awaited, callbacks, running, connected,
                       health, told, loops, begun, ticking, barring, escaped>>
    PROVE  FeedIInv'
  <1>1. FeedTypeOK'
    BY DEF FeedIInv, FeedTypeOK
  <1>2. Registered' = Registered
    BY DEF Registered
  <1>3. QED
    BY <1>1, <1>2 DEF FeedIInv

\* An action that moves the manager on while no feed changes.
LEMMA ManagerOK ==
    ASSUME FeedIInv, manager' \in {"stopped", "running", "halting", "stopping"},
           sizeAtStop' \in Nat, visited' \subseteq Adapters,
           awaited # NoFeed => manager' = "stopping",
           escaped' \subseteq Adapters, escaped \subseteq escaped',
           \A f \in Adapters \ escaped' : running[f] => manager' # "stopped",
           \A f \in Adapters \ escaped' : begun[f] # loops[f] => manager' \in {"running", "halting"},
           UNCHANGED <<feeds, awaited, callbacks, running, connected, health, fresh, told, loops,
                       begun, ticking, barring, traded>>
    PROVE  FeedIInv'
  <1>1. FeedTypeOK'
    BY DEF FeedIInv, FeedTypeOK
  <1>2. Registered' = Registered
    BY DEF Registered
  <1>3. ASSUME NEW f \in Adapters \ escaped'
        PROVE  FeedOK(f, f \in Registered, manager', awaited, running[f], connected[f], loops[f],
                      begun[f], ticking[f], barring[f])
    <2>1. FeedOK(f, f \in Registered, manager, awaited, running[f], connected[f], loops[f],
                 begun[f], ticking[f], barring[f])
      BY DEF FeedIInv
    <2>2. /\ running[f] => manager' # "stopped"
          /\ begun[f] # loops[f] => manager' \in {"running", "halting"}
      OBVIOUS
    <2>3. QED
      BY <2>1, <2>2 DEF FeedOK
  <1>4. QED
    BY <1>1, <1>2, <1>3 DEF FeedIInv

LEMMA StopOK == ASSUME FeedIInv, Stop PROVE FeedIInv'
  <1>1. /\ manager = "running" /\ manager' = "halting"
        /\ UNCHANGED <<feeds, visited, sizeAtStop, awaited, callbacks, running, connected, health,
                       fresh, told, loops, begun, ticking, barring, traded, escaped>>
    BY DEF Stop, stopping, status, tasks
  <1>2. sizeAtStop \in Nat /\ visited \subseteq Adapters /\ escaped \subseteq Adapters
        /\ awaited = NoFeed
    BY <1>1 DEF FeedIInv, FeedTypeOK
  <1>3. QED
    BY <1>1, <1>2, ManagerOK

LEMMA HealthLoopEndsOK == ASSUME FeedIInv, HealthLoopEnds PROVE FeedIInv'
  <1>1. /\ manager = "halting" /\ begun = loops /\ manager' = "stopping" /\ sizeAtStop' = Len(feeds)
        /\ UNCHANGED <<feeds, visited, awaited, callbacks, running, connected, health,
                       fresh, told, loops, begun, ticking, barring, traded, escaped>>
    BY DEF HealthLoopEnds, status, tasks
  <1>2. visited \subseteq Adapters /\ escaped \subseteq Adapters /\ feeds \in Seq(Adapters)
    BY DEF FeedIInv, FeedTypeOK
  <1>3. Len(feeds) \in Nat
    BY <1>2, LenProperties
  <1>4. QED
    BY <1>1, <1>2, <1>3, ManagerOK

LEMMA StopEndsOK == ASSUME FeedIInv, StopEnds PROVE FeedIInv'
  <1>1. /\ manager = "stopping" /\ awaited = NoFeed /\ manager' = "stopped"
        /\ escaped' = escaped \cup {f \in Registered : running[f]}
        /\ visited' = {} /\ sizeAtStop' = 0
        /\ UNCHANGED <<feeds, awaited, callbacks, running, connected, health,
                       fresh, told, loops, begun, ticking, barring, traded>>
    BY DEF StopEnds, status, tasks
  <1>2. escaped \subseteq Adapters /\ Registered \subseteq Adapters
    <2>1. feeds \in Seq(Adapters) /\ escaped \subseteq Adapters
      BY DEF FeedIInv, FeedTypeOK
    <2>2. \A i \in DOMAIN feeds : feeds[i] \in Adapters
      BY <2>1, LenProperties
    <2>3. QED
      BY <2>1, <2>2 DEF Registered, Range
  <1>3. ASSUME NEW f \in Adapters \ escaped' PROVE ~ running[f] /\ begun[f] = loops[f]
    <2>1. FeedOK(f, f \in Registered, manager, awaited, running[f], connected[f], loops[f],
                 begun[f], ticking[f], barring[f])
      BY <1>1 DEF FeedIInv
    <2>2. running[f] => f \in Registered
      BY <2>1 DEF FeedOK
    <2>3. ~ running[f]
      BY <1>1, <2>2
    <2>4. QED
      BY <2>1, <2>3 DEF FeedOK
  <1>4. QED
    BY <1>1, <1>2, <1>3, ManagerOK

LEMMA TicksOK == ASSUME FeedIInv, NEW f \in Adapters, GoStale(f) \/ Ticks(f) PROVE FeedIInv'
  <1>1. fresh \in [Adapters -> BOOLEAN] /\ traded \in [Adapters -> BOOLEAN]
    BY DEF FeedIInv, FeedTypeOK
  <1>2. CASE GoStale(f)
    <2>1. /\ fresh' = [fresh EXCEPT ![f] = FALSE] /\ traded' = traded
          /\ UNCHANGED <<feeds, manager, visited, sizeAtStop, awaited, callbacks, running,
                         connected, health, told, loops, begun, ticking, barring, escaped>>
      BY <1>2 DEF GoStale, stopping, tasks
    <2>2. fresh' \in [Adapters -> BOOLEAN]
      BY <1>1, <2>1
    <2>3. QED
      BY <1>1, <2>1, <2>2, FreshOK
  <1>3. CASE Ticks(f)
    <2>1. /\ fresh' = [fresh EXCEPT ![f] = TRUE] /\ traded' = [traded EXCEPT ![f] = TRUE]
          /\ UNCHANGED <<feeds, manager, visited, sizeAtStop, awaited, callbacks, running,
                         connected, health, told, loops, begun, ticking, barring, escaped>>
      BY <1>3 DEF Ticks, Tick, stopping
    <2>2. fresh' \in [Adapters -> BOOLEAN] /\ traded' \in [Adapters -> BOOLEAN]
      BY <1>1, <2>1
    <2>3. QED
      BY <2>1, <2>2, FreshOK
  <1>4. QED
    BY <1>2, <1>3

\* An action that takes generators away and moves nothing else.
LEMMA GeneratorsOK ==
    ASSUME FeedIInv, traded' \in [Adapters -> BOOLEAN],
           ticking' \in [Adapters -> SUBSET Int], barring' \in [Adapters -> SUBSET Int],
           \A f \in Adapters : ticking'[f] \subseteq ticking[f] /\ barring'[f] \subseteq barring[f],
           UNCHANGED <<feeds, manager, visited, sizeAtStop, awaited, callbacks, running, connected,
                       health, fresh, told, loops, begun, escaped>>
    PROVE  FeedIInv'
  <1>1. FeedTypeOK'
    BY DEF FeedIInv, FeedTypeOK
  <1>2. Registered' = Registered
    BY DEF Registered
  <1>3. ASSUME NEW f \in Adapters \ escaped
        PROVE  FeedOK(f, f \in Registered, manager, awaited, running[f], connected[f], loops[f],
                      begun[f], ticking'[f], barring'[f])
    <2>1. FeedOK(f, f \in Registered, manager, awaited, running[f], connected[f], loops[f],
                 begun[f], ticking[f], barring[f])
      BY DEF FeedIInv
    <2>2. QED
      BY <2>1 DEF FeedOK
  <1>4. QED
    BY <1>1, <1>2, <1>3 DEF FeedIInv

LEMMA GeneratorEndsOK ==
    ASSUME FeedIInv, NEW f \in Adapters, NEW g \in Generators,
           TickGeneratorEnds(f, g) \/ BarInterval(f, g)
    PROVE  FeedIInv'
  <1>1. /\ ticking \in [Adapters -> SUBSET Int] /\ barring \in [Adapters -> SUBSET Int]
        /\ traded \in [Adapters -> BOOLEAN]
    BY DEF FeedIInv, FeedTypeOK
  <1>2. CASE TickGeneratorEnds(f, g)
    <2>1. /\ ticking' = [ticking EXCEPT ![f] = @ \ {g}]
          /\ UNCHANGED <<feeds, manager, visited, sizeAtStop, awaited, callbacks, running, connected,
                         health, fresh, told, loops, begun, barring, traded, escaped>>
      BY <1>2 DEF TickGeneratorEnds, stopping, status
    <2>2. /\ ticking' \in [Adapters -> SUBSET Int]
          /\ \A h \in Adapters : ticking'[h] \subseteq ticking[h] /\ barring'[h] \subseteq barring[h]
      BY <1>1, <2>1
    <2>3. QED
      BY <1>1, <2>1, <2>2, GeneratorsOK
  <1>3. CASE BarInterval(f, g)
    <2>1. /\ traded' = [traded EXCEPT ![f] = FALSE]
          /\ barring' = [barring EXCEPT ![f] = IF running[f] THEN @ ELSE @ \ {g}]
          /\ UNCHANGED <<feeds, manager, visited, sizeAtStop, awaited, callbacks, running, connected,
                         health, fresh, told, loops, begun, ticking, escaped>>
      BY <1>3 DEF BarInterval, stopping, status
    <2>2. /\ barring' \in [Adapters -> SUBSET Int] /\ traded' \in [Adapters -> BOOLEAN]
          /\ \A h \in Adapters : ticking'[h] \subseteq ticking[h] /\ barring'[h] \subseteq barring[h]
      BY <1>1, <2>1
    <2>3. QED
      BY <1>1, <2>1, <2>2, GeneratorsOK
  <1>4. QED
    BY <1>2, <1>3

\* Telling the listeners of a change keeps what they know true.
LEMMA UpdateStatusOK ==
    ASSUME FeedIInv, NEW changed, NEW h \in {"healthy", "disconnected"}, UpdateStatus(changed, h)
    PROVE  /\ health' \in [Adapters -> Healths] /\ connected' \in [Adapters -> BOOLEAN]
           /\ told' \in [Adapters -> Healths]
           /\ \A f \in Adapters : StatusOK(connected'[f], health'[f], told'[f])
           /\ \A f \in Adapters : connected'[f] <=>
                 IF f \in changed THEN h = "healthy" ELSE connected[f]
  <1>1. /\ health' = [f \in Adapters |-> IF f \in changed THEN h ELSE health[f]]
        /\ connected' = [f \in Adapters |-> IF f \in changed THEN h = "healthy" ELSE connected[f]]
        /\ told' = [f \in Adapters |-> IF f \in changed /\ health[f] # h THEN h ELSE told[f]]
    BY DEF UpdateStatus
  <1>2. /\ health \in [Adapters -> Healths] /\ told \in [Adapters -> Healths]
        /\ connected \in [Adapters -> BOOLEAN] /\ h \in Healths
    BY DEF FeedIInv, FeedTypeOK, Healths
  <1>3. health' \in [Adapters -> Healths] /\ told' \in [Adapters -> Healths]
    BY <1>1, <1>2
  <1>4. connected' \in [Adapters -> BOOLEAN]
    BY <1>1, <1>2
  <1>5. ASSUME NEW f \in Adapters
        PROVE  /\ StatusOK(connected'[f], health'[f], told'[f])
               /\ connected'[f] <=> IF f \in changed THEN h = "healthy" ELSE connected[f]
    <2>1. StatusOK(connected[f], health[f], told[f])
      BY DEF FeedIInv
    <2>2. connected'[f] <=> IF f \in changed THEN h = "healthy" ELSE connected[f]
      BY <1>1
    <2>3. /\ health'[f] = IF f \in changed THEN h ELSE health[f]
          /\ told'[f] = IF f \in changed /\ health[f] # h THEN h ELSE told[f]
      BY <1>1
    <2>4. QED
      BY <2>1, <2>2, <2>3 DEF StatusOK
  <1>6. QED
    BY <1>3, <1>4, <1>5

LEMMA StartOK == ASSUME FeedIInv, Start PROVE FeedIInv'
  <1> DEFINE started == {f \in Registered : ~ running[f]}
  <1>1. /\ manager = "stopped" /\ manager' = "running"
        /\ \A f \in Registered : loops[f] < MaxLoops
        /\ running' = [f \in Adapters |-> f \in started \/ running[f]]
        /\ UpdateStatus(started, "healthy")
        /\ loops' = [f \in Adapters |-> IF f \in Registered THEN loops[f] + 1 ELSE loops[f]]
        /\ UNCHANGED <<feeds, visited, sizeAtStop, awaited, callbacks, fresh, begun, ticking,
                       barring, traded, escaped>>
    BY DEF Start, NewLoops, stopping
  <1>2. /\ FeedTypeOK /\ awaited = NoFeed
        /\ loops \in [Adapters -> 0 .. MaxLoops] /\ begun \in [Adapters -> 0 .. MaxLoops]
        /\ \A f \in Adapters : begun[f] <= loops[f]
        /\ running \in [Adapters -> BOOLEAN]
    BY <1>1 DEF FeedIInv, FeedTypeOK
  <1>3. /\ health' \in [Adapters -> Healths] /\ connected' \in [Adapters -> BOOLEAN]
        /\ told' \in [Adapters -> Healths]
        /\ \A f \in Adapters : StatusOK(connected'[f], health'[f], told'[f])
        /\ \A f \in Adapters : connected'[f] <=> f \in started \/ connected[f]
    BY <1>1, UpdateStatusOK
  <1>4. \A f \in Adapters : f \in started <=> f \in Registered /\ ~ running[f]
    OBVIOUS
  <1> HIDE DEF started
  <1>5. running' \in [Adapters -> BOOLEAN]
    BY <1>1, <1>2
  <1>6. loops' \in [Adapters -> 0 .. MaxLoops] /\ \A f \in Adapters : begun[f] <= loops'[f]
    <2>1. MaxLoops \in Nat
      BY FeedManagerAssumption
    <2>2. ASSUME NEW f \in Adapters PROVE loops'[f] \in 0 .. MaxLoops /\ begun[f] <= loops'[f]
      <3>1. loops[f] \in 0 .. MaxLoops /\ begun[f] \in 0 .. MaxLoops /\ begun[f] <= loops[f]
        BY <1>2
      <3>2. CASE f \in Registered
        BY <1>1, <2>1, <3>1, <3>2
      <3>3. CASE f \notin Registered
        BY <1>1, <3>1, <3>3
      <3>4. QED
        BY <3>2, <3>3
    <2>3. QED
      BY <1>1, <2>2
  <1>7. FeedTypeOK'
    BY <1>1, <1>2, <1>3, <1>5, <1>6 DEF FeedTypeOK
  <1>8. Registered' = Registered
    BY <1>1 DEF Registered
  <1>9. ASSUME NEW f \in Adapters \ escaped
        PROVE  FeedOK(f, f \in Registered, manager', awaited, running'[f], connected'[f], loops'[f],
                      begun[f], ticking[f], barring[f])
    <2>1. FeedOK(f, f \in Registered, manager, awaited, running[f], connected[f], loops[f],
                 begun[f], ticking[f], barring[f])
      BY DEF FeedIInv
    <2>2. /\ ~ running[f] /\ begun[f] = loops[f] /\ ticking[f] = {} /\ barring[f] = {}
          /\ ~ connected[f]
      BY <1>1, <1>2, <2>1 DEF FeedOK, NoFeed
    <2>3. /\ running'[f] <=> f \in started
          /\ loops'[f] = IF f \in Registered THEN loops[f] + 1 ELSE loops[f]
          /\ connected'[f] <=> f \in started
      BY <1>1, <1>3, <2>2
    <2>4. CASE f \in Registered
      <3>1. running'[f] /\ loops'[f] = begun[f] + 1
        BY <1>4, <2>2, <2>3, <2>4
      <3>2. QED
        BY <1>1, <2>2, <2>4, <3>1 DEF FeedOK
    <2>5. CASE f \notin Registered
      <3>1. ~ running'[f] /\ loops'[f] = begun[f] /\ ~ connected'[f]
        BY <1>4, <2>2, <2>3, <2>5
      <3>2. QED
        BY <1>1, <2>2, <2>5, <3>1 DEF FeedOK
    <2>6. QED
      BY <2>4, <2>5
  <1>10. /\ ticking' \in [Adapters -> SUBSET Int] /\ barring' \in [Adapters -> SUBSET Int]
         /\ awaited' = NoFeed
    BY <1>1, <1>2 DEF FeedIInv
  <1>11. \A f \in Adapters \ escaped' :
           FeedOK(f, f \in Registered', manager', awaited', running'[f], connected'[f], loops'[f],
                  begun'[f], ticking'[f], barring'[f])
    BY <1>1, <1>8, <1>9, Zenon
  <1>12. QED
    BY <1>3, <1>7, <1>10, <1>11 DEF FeedIInv

LEMMA ReceiveLoopOK == ASSUME FeedIInv, NEW f \in Adapters, ReceiveLoop(f) PROVE FeedIInv'
  <1> DEFINE b == begun[f] + 1
  <1>1. /\ begun[f] < loops[f] /\ begun' = [begun EXCEPT ![f] = b]
        /\ ticking' = [ticking EXCEPT ![f] = @ \cup {b}]
        /\ barring' = [barring EXCEPT ![f] = @ \cup {b}]
        /\ UNCHANGED <<feeds, manager, visited, sizeAtStop, awaited, callbacks, running, connected,
                       health, fresh, told, loops, traded, escaped>>
    BY DEF ReceiveLoop, stopping, status
  <1>2. /\ loops \in [Adapters -> 0 .. MaxLoops] /\ begun \in [Adapters -> 0 .. MaxLoops]
        /\ \A g \in Adapters : begun[g] <= loops[g]
                              /\ ticking[g] \cup barring[g] \subseteq 1 .. begun[g]
        /\ ticking \in [Adapters -> SUBSET Int] /\ barring \in [Adapters -> SUBSET Int]
        /\ FeedTypeOK
    BY DEF FeedIInv, FeedTypeOK
  <1>3. b \in 0 .. MaxLoops /\ b <= loops[f] /\ b \in Int /\ b \in 1 .. b
        /\ \A n \in 1 .. begun[f] : n \in 1 .. b
    <2>1. begun[f] \in 0 .. MaxLoops /\ loops[f] \in 0 .. MaxLoops /\ MaxLoops \in Nat
      BY <1>2, FeedManagerAssumption
    <2>2. QED
      BY <1>1, <2>1
  <1>4. begun[f] \in Int /\ begun[f] # loops[f] /\ loops[f] \in Int
    <2>1. begun[f] \in 0 .. MaxLoops /\ loops[f] \in 0 .. MaxLoops
      BY <1>2
    <2>2. QED
      BY <1>1, <2>1
  <1>5. loops[f] = begun[f] + 1 => b = loops[f]
    OBVIOUS
  <1> HIDE DEF b
  <1>6. begun' \in [Adapters -> 0 .. MaxLoops]
    BY <1>1, <1>2, <1>3
  <1>7. ticking' \in [Adapters -> SUBSET Int] /\ barring' \in [Adapters -> SUBSET Int]
    BY <1>1, <1>2, <1>3
  <1>8. \A g \in Adapters : begun'[g] <= loops[g]
                            /\ ticking'[g] \cup barring'[g] \subseteq 1 .. begun'[g]
    <2> SUFFICES ASSUME NEW g \in Adapters
                 PROVE  begun'[g] <= loops[g]
                        /\ ticking'[g] \cup barring'[g] \subseteq 1 .. begun'[g]
      OBVIOUS
    <2>1. CASE g = f
      <3>1. begun'[g] = b /\ ticking'[g] = ticking[f] \cup {b} /\ barring'[g] = barring[f] \cup {b}
        BY <1>1, <1>2, <2>1
      <3>2. ticking[f] \cup barring[f] \subseteq 1 .. begun[f]
        BY <1>2
      <3>3. ticking'[g] \cup barring'[g] \subseteq 1 .. b
        BY <1>3, <3>1, <3>2
      <3>4. QED
        BY <1>3, <2>1, <3>1, <3>3
    <2>2. CASE g # f
      <3>1. begun'[g] = begun[g] /\ ticking'[g] = ticking[g] /\ barring'[g] = barring[g]
        BY <1>1, <1>2, <2>2
      <3>2. QED
        BY <1>2, <3>1
    <2>3. QED
      BY <2>1, <2>2
  <1>9. FeedTypeOK'
    BY <1>1, <1>2, <1>6, <1>8 DEF FeedTypeOK
  <1>10. Registered' = Registered
    BY <1>1 DEF Registered
  <1>11. ASSUME NEW g \in Adapters \ escaped
        PROVE  FeedOK(g, g \in Registered, manager, awaited, running[g], connected[g], loops[g],
                      begun'[g], ticking'[g], barring'[g])
    <2>1. FeedOK(g, g \in Registered, manager, awaited, running[g], connected[g], loops[g],
                 begun[g], ticking[g], barring[g])
      BY DEF FeedIInv
    <2>2. CASE g = f
      <3>1. begun'[g] = b /\ ticking'[g] = ticking[f] \cup {b} /\ barring'[g] = barring[f] \cup {b}
        BY <1>1, <1>2, <2>2
      <3>2. /\ running[g] /\ manager \in {"running", "halting"} /\ loops[f] = begun[f] + 1
            /\ ticking[f] = {} /\ barring[f] = {}
        BY <1>4, <2>1, <2>2 DEF FeedOK
      <3>3. begun'[g] = loops[g] /\ ticking'[g] = {b} /\ barring'[g] = {b}
        BY <1>5, <2>2, <3>1, <3>2
      <3>4. QED
        BY <2>1, <3>1, <3>2, <3>3 DEF FeedOK
    <2>3. CASE g # f
      <3>1. begun'[g] = begun[g] /\ ticking'[g] = ticking[g] /\ barring'[g] = barring[g]
        BY <1>1, <1>2, <2>3
      <3>2. QED
        BY <2>1, <3>1
    <2>4. QED
      BY <2>2, <2>3
  <1>12. QED
    BY <1>1, <1>7, <1>9, <1>10, <1>11 DEF FeedIInv

LEMMA FeedStoppedOK == ASSUME FeedIInv, FeedStopped PROVE FeedIInv'
  <1>1. /\ awaited # NoFeed /\ UpdateStatus({awaited[1]}, "disconnected") /\ awaited' = NoFeed
        /\ UNCHANGED <<feeds, manager, visited, sizeAtStop, callbacks, running, fresh, loops, begun,
                       ticking, barring, traded, escaped>>
    BY DEF FeedStopped, tasks
  <1>2. PICK f \in Adapters : awaited = <<f>>
    BY <1>1 DEF FeedIInv, FeedTypeOK
  <1>3. awaited[1] = f
    BY <1>2
  <1>4. /\ health' \in [Adapters -> Healths] /\ connected' \in [Adapters -> BOOLEAN]
        /\ told' \in [Adapters -> Healths]
        /\ \A g \in Adapters : StatusOK(connected'[g], health'[g], told'[g])
        /\ \A g \in Adapters : connected'[g] <=>
              IF g \in {f} THEN "disconnected" = "healthy" ELSE connected[g]
    <2>1. UpdateStatus({f}, "disconnected")
      BY <1>1, <1>3
    <2>2. QED
      BY <2>1, UpdateStatusOK
  <1>5. awaited' \in {NoFeed} \cup {<<g>> : g \in Adapters}
    BY <1>1
  <1>6. FeedTypeOK'
    BY <1>1, <1>4, <1>5 DEF FeedIInv, FeedTypeOK
  <1>7. Registered' = Registered
    BY <1>1 DEF Registered
  <1>8. ASSUME NEW g \in Adapters \ escaped
        PROVE  FeedOK(g, g \in Registered, manager, awaited', running[g], connected'[g], loops[g],
                      begun[g], ticking[g], barring[g])
    <2>1. FeedOK(g, g \in Registered, manager, awaited, running[g], connected[g], loops[g],
                 begun[g], ticking[g], barring[g])
      BY DEF FeedIInv
    <2>2. connected'[g] => connected[g] /\ g # f
      BY <1>4
    <2>3. awaited = <<g>> => g = f
      BY <1>2
    <2>4. connected'[g] => running[g]
      BY <2>1, <2>2, <2>3 DEF FeedOK
    <2>5. QED
      BY <2>1, <2>4 DEF FeedOK
  <1>9. QED
    BY <1>1, <1>4, <1>6, <1>7, <1>8 DEF FeedIInv

LEMMA StopFeedOK == ASSUME FeedIInv, StopFeed PROVE FeedIInv'
  <1> DEFINE f == feeds[Min(Unvisited)]
  <1>1. /\ manager = "stopping" /\ awaited = NoFeed /\ Unvisited # {}
        /\ visited' = visited \cup {f}
        /\ running' = [running EXCEPT ![f] = FALSE]
        /\ \/ /\ running[f] /\ awaited' = <<f>>
              /\ ticking' = [ticking EXCEPT ![f] = @ \ {begun[f]}]
              /\ barring' = [barring EXCEPT ![f] = @ \ {begun[f]}]
           \/ ~ running[f] /\ UNCHANGED <<awaited, ticking, barring>>
        /\ UNCHANGED <<feeds, manager, sizeAtStop, callbacks, connected, health, fresh, told,
                       loops, begun, traded, escaped>>
    BY DEF StopFeed, Cancelled, status
  <1>2. f \in Adapters
    <2>1. feeds \in Seq(Adapters)
      BY DEF FeedIInv, FeedTypeOK
    <2>2. Len(feeds) \in Nat /\ DOMAIN feeds = 1 .. Len(feeds)
          /\ \A i \in DOMAIN feeds : feeds[i] \in Adapters
      BY <2>1, LenProperties
    <2>3. Unvisited \subseteq DOMAIN feeds
      BY DEF Unvisited
    <2>4. IsFiniteSet(Unvisited)
      <3>1. IsFiniteSet(1 .. Len(feeds))
        <4>1. \A n \in Nat : IsFiniteSet(1 .. n)
          BY FS_Interval
        <4>2. QED
          BY <2>2, <4>1
      <3>2. Unvisited \subseteq 1 .. Len(feeds)
        BY <2>2, <2>3
      <3>3. QED
        BY <3>1, <3>2, FS_Subset
    <2>5. Unvisited \in SUBSET Int
      BY <2>2, <2>3
    <2>6. Min(Unvisited) \in Unvisited
      BY <1>1, <2>4, <2>5, MinIsMin
    <2>7. QED
      BY <2>2, <2>3, <2>6
  <1> HIDE DEF f
  <1>3. /\ FeedTypeOK /\ running \in [Adapters -> BOOLEAN]
        /\ ticking \in [Adapters -> SUBSET Int] /\ barring \in [Adapters -> SUBSET Int]
        /\ visited \subseteq Adapters /\ begun \in [Adapters -> 0 .. MaxLoops]
        /\ \A g \in Adapters : begun[g] <= loops[g]
                              /\ ticking[g] \cup barring[g] \subseteq 1 .. begun[g]
    BY DEF FeedIInv, FeedTypeOK
  <1>4. /\ running' \in [Adapters -> BOOLEAN] /\ ~ running'[f]
        /\ \A g \in Adapters : g # f => running'[g] = running[g]
    BY <1>1, <1>2, <1>3
  <1>5. /\ ticking' \in [Adapters -> SUBSET Int] /\ barring' \in [Adapters -> SUBSET Int]
        /\ \A g \in Adapters : ticking'[g] \subseteq ticking[g] /\ barring'[g] \subseteq barring[g]
    BY <1>1, <1>2, <1>3
  <1>6. awaited' \in {NoFeed} \cup {<<g>> : g \in Adapters}
    BY <1>1, <1>2
  <1>7. \A g \in Adapters : begun[g] <= loops[g]
                            /\ ticking'[g] \cup barring'[g] \subseteq 1 .. begun[g]
    BY <1>3, <1>5
  <1>8. FeedTypeOK'
    BY <1>1, <1>2, <1>3, <1>4, <1>6, <1>7 DEF FeedTypeOK
  <1>9. Registered' = Registered
    BY <1>1 DEF Registered
  <1>10. ASSUME NEW g \in Adapters \ escaped
         PROVE  FeedOK(g, g \in Registered, manager, awaited', running'[g], connected[g], loops[g],
                       begun[g], ticking'[g], barring'[g])
    <2>1. FeedOK(g, g \in Registered, manager, awaited, running[g], connected[g], loops[g],
                 begun[g], ticking[g], barring[g])
      BY DEF FeedIInv
    <2>2. begun[g] = loops[g] /\ (connected[g] => running[g])
          /\ ticking[g] \cup barring[g] \subseteq {begun[g]}
          /\ (~ running[g] => ticking[g] = {} /\ barring[g] = {})
      BY <1>1, <2>1 DEF FeedOK, NoFeed
    <2>3. CASE g # f
      <3>1. /\ running'[g] <=> running[g]
            /\ ticking'[g] \subseteq ticking[g] /\ barring'[g] \subseteq barring[g]
        BY <1>4, <1>5, <2>3
      <3>2. QED
        BY <2>1, <2>2, <3>1 DEF FeedOK
    <2>4. CASE g = f /\ running[f]
      <3>1. /\ awaited' = <<g>> /\ ~ running'[g]
            /\ ticking'[g] = ticking[g] \ {begun[g]} /\ barring'[g] = barring[g] \ {begun[g]}
        BY <1>1, <1>3, <1>4, <2>4
      <3>2. ticking'[g] = {} /\ barring'[g] = {}
        BY <2>2, <3>1
      <3>3. QED
        BY <2>2, <3>1, <3>2 DEF FeedOK
    <2>5. CASE g = f /\ ~ running[f]
      <3>1. ~ running'[g] /\ ticking'[g] = {} /\ barring'[g] = {} /\ ~ connected[g]
        BY <1>1, <1>4, <2>2, <2>5
      <3>2. QED
        BY <2>2, <3>1 DEF FeedOK
    <2>6. QED
      BY <2>3, <2>4, <2>5
  <1>11. \A g \in Adapters : StatusOK(connected[g], health[g], told[g])
    BY DEF FeedIInv
  <1>12. \A g \in Adapters \ escaped' :
           FeedOK(g, g \in Registered', manager', awaited', running'[g], connected'[g], loops'[g],
                  begun'[g], ticking'[g], barring'[g])
    BY <1>1, <1>9, <1>10
  <1>13. QED
    BY <1>1, <1>5, <1>8, <1>11, <1>12 DEF FeedIInv

LEMMA FeedStep == FeedIInv /\ [FeedNext]_feedVars => FeedIInv'
  <1> SUFFICES ASSUME FeedIInv, [FeedNext]_feedVars PROVE FeedIInv'
    OBVIOUS
  <1>1. ASSUME UNCHANGED feedVars PROVE FeedIInv'
    BY <1>1 DEF feedVars, FeedIInv, FeedTypeOK, Registered
  <1>2. ASSUME HealthCheck PROVE FeedIInv'
    BY <1>2, GetStatusOK DEF HealthCheck
  <1>3. QED
    BY <1>1, <1>2, StartOK, StopOK, HealthLoopEndsOK, StopFeedOK, FeedStoppedOK, StopEndsOK,
       RegisterOK, UnregisterOK, GetStatusOK, TicksOK, ReceiveLoopOK, GeneratorEndsOK
       DEF FeedNext

LEMMA FeedIInvImplies == FeedIInv => FeedInvariant
  <1> SUFFICES ASSUME FeedIInv PROVE FeedInvariant
    OBVIOUS
  <1>1. \A x : IsFiniteSet({x}) /\ Cardinality({x}) = 1
    BY FS_Singleton
  <1>2. ASSUME NEW S, NEW x, S \subseteq {x} PROVE Cardinality(S) <= 1
    <2>1. IsFiniteSet({x}) /\ Cardinality({x}) = 1
      BY <1>1
    <2>2. Cardinality(S) <= Cardinality({x})
      BY <1>2, <2>1, FS_Subset
    <2>3. QED
      BY <2>1, <2>2
  <1>3. ASSUME NEW f \in Adapters \ escaped
        PROVE  /\ Cardinality(ticking[f]) <= 1
               /\ Cardinality(barring[f]) <= 1
               /\ manager = "stopped" => ~ running[f] /\ ~ connected[f] /\ barring[f] = {}
    <2>1. FeedOK(f, f \in Registered, manager, awaited, running[f], connected[f], loops[f],
                 begun[f], ticking[f], barring[f])
      BY DEF FeedIInv
    <2>2. ticking[f] \subseteq {begun[f]} /\ barring[f] \subseteq {begun[f]}
      BY <2>1 DEF FeedOK
    <2>3. manager = "stopped" => awaited = NoFeed
      BY DEF FeedIInv
    <2>4. manager = "stopped" => ~ running[f] /\ ~ connected[f] /\ barring[f] = {}
      BY <2>1, <2>3 DEF FeedOK, NoFeed
    <2>5. QED
      BY <1>2, <2>2, <2>4
  <1>4. ListenersKnowConnection
    BY DEF FeedIInv, StatusOK, ListenersKnowConnection
  <1>5. QED
    BY <1>3, <1>4 DEF FeedIInv, FeedInvariant, GeneratorsAreCancelled

\* However feeds are registered, started, stopped and unregistered: a feed
\* that never escaped the manager has at most one pair of generators, none
\* when the manager has stopped, and the listeners know what is connected.
THEOREM FeedsSafe == FeedSpec => []FeedInvariant
  <1>1. FeedSpec => []FeedIInv
    BY FeedInitial, FeedStep, PTL DEF FeedSpec
  <1>2. QED
    BY <1>1, FeedIInvImplies, PTL
-----------------------------------------------------------------------------
(* The parts of MarketData side by side.                                   *)

LEMMA StepsOfMarketData ==
    ASSUME [Next]_vars
    PROVE  /\ [FeedNext]_feedVars /\ [AggregatorNext]_barVars /\ [HeartbeatNext]_beatVars
           /\ [WatchNext]_watchVars /\ [FilterNext]_filterVars
  <1>1. CASE UNCHANGED vars
    BY <1>1 DEF vars
  <1>2. CASE Next
    BY <1>2 DEF Next
  <1>3. QED
    BY <1>1, <1>2

\* Whichever part a behaviour follows, each keeps what it promises of feeds
\* and ticks.
THEOREM MarketDataSafe ==
    Spec => /\ [](FeedInvariant /\ BarInvariant /\ HeartbeatInvariant /\ WatchInvariant)
            /\ BlocksHaveCause
  <1>1. Init => FeedInit /\ AggregatorInit /\ HeartbeatInit /\ WatchInit /\ FilterInit
    BY DEF Init
  <1>2. [Next]_vars => /\ [FeedNext]_feedVars /\ [AggregatorNext]_barVars /\ [HeartbeatNext]_beatVars
                       /\ [WatchNext]_watchVars /\ [FilterNext]_filterVars
    BY StepsOfMarketData
  <1>3. Spec => FeedSpec /\ AggregatorSpec /\ HeartbeatSpec /\ WatchSpec /\ FilterSpec
    BY <1>1, <1>2, PTL DEF Spec, FeedSpec, AggregatorSpec, HeartbeatSpec, WatchSpec, FilterSpec
  <1>4. QED
    BY <1>3, FeedsSafe, BarsSafe, HeartbeatSafe, WatchersSafe, OwnBlocks, PTL
=============================================================================
