--------------------------- MODULE TickAggregator ---------------------------
(***************************************************************************)
(* The aggregator of ticks into bars (market_data/aggregator.py), for one  *)
(* symbol and several intervals.  Ticks carry the feed's time stamp, which *)
(* is taken as it comes: they may be late, or ahead of the local clock.    *)
(* Completing all bars by force uses the local clock.                      *)
(*                                                                         *)
(* Alignment takes a time stamp without a zone for local time and returns  *)
(* it in UTC.  The model is of a host whose zone is UTC, where the two     *)
(* cancel out.  Volume and quotes are summed and copied along and decide   *)
(* nothing.                                                                *)
(***************************************************************************)
EXTENDS Integers, FiniteSets

CONSTANTS Intervals,      \* lengths of bars
          BarPrices,      \* what a tick may show
          MaxTime,        \* bound: the clock
          MaxLate,        \* bound: how far a tick may be behind the clock
          MaxEarly,       \* bound: how far a tick may be ahead of it
          MaxTicks        \* bound: ticks processed

ASSUME AggregatorAssumption ==
    /\ Intervals \subseteq Nat \ {0}
    /\ BarPrices \subseteq Nat \ {0}
    /\ {MaxTime, MaxLate, MaxEarly, MaxTicks} \subseteq Nat

NoBar == [trades |-> -1]

VARIABLES
    clock,        \* datetime.utcnow()
    builders,     \* _builders: the bar under construction of each interval
    processed,    \* history: ticks since the last reset
    counted,      \* history: of those, the ones in bars already emitted
    emitted,      \* history: when the last bar emitted began, -1 before
    forced        \* history: was a bar begun by force since one ended by a tick?

barVars == <<clock, builders, processed, counted, emitted, forced>>

AggregatorInit ==
    /\ clock = 0
    /\ builders = [i \in Intervals |-> NoBar]
    /\ processed = 0
    /\ counted = [i \in Intervals |-> 0]
    /\ emitted = [i \in Intervals |-> -1]
    /\ forced = [i \in Intervals |-> FALSE]

-----------------------------------------------------------------------------
(* BarBuilder *)

Align(t, i) == (t \div i) * i

NewBar(start) ==
    [start |-> start, open |-> 0, high |-> 0, low |-> 0, close |-> 0, trades |-> 0, latest |-> 0]

Higher(a, b) == IF a > b THEN a ELSE b
Lower(a, b) == IF a < b THEN a ELSE b

AddTick(bar, t, p) ==
    LET first == bar.trades = 0 IN
    [bar EXCEPT !.open = IF first THEN p ELSE @,
                !.high = IF first THEN p ELSE Higher(@, p),
                !.low = IF first THEN p ELSE Lower(@, p),
                !.close = p,
                !.trades = bar.trades + 1,
                !.latest = Higher(@, t)]

\* A late tick, before the bar's beginning, never completes it.
IsComplete(bar, t, i) == t - bar.start >= i

-----------------------------------------------------------------------------
(* TickAggregator *)

\* Does a tick of time t need a new bar?
NeedsBar(i, t) == builders[i] = NoBar \/ IsComplete(builders[i], t, i)

\* Mutant of Emits: only a bar of several ticks is worth emitting.
EmitsSeveral(i) == builders[i] # NoBar /\ builders[i].trades > 1

\* A bar is emitted if it has a tick.
Emits(i) == builders[i] # NoBar /\ builders[i].trades > 0

\* The bars of the intervals is are emitted and leave the construction.
Emit(is) ==
    /\ counted' = [i \in Intervals |->
                      IF i \in is /\ Emits(i) THEN counted[i] + builders[i].trades ELSE counted[i]]
    /\ emitted' = [i \in Intervals |->
                      IF i \in is /\ Emits(i) THEN builders[i].start ELSE emitted[i]]

ProcessTick(t, p) ==
    LET ending == {i \in Intervals : NeedsBar(i, t)} IN
    /\ processed < MaxTicks
    /\ Emit(ending)
    /\ builders' = [i \in Intervals |->
                       AddTick(IF i \in ending THEN NewBar(Align(t, i)) ELSE builders[i], t, p)]
    /\ processed' = processed + 1
    /\ forced' = [i \in Intervals |-> forced[i] /\ ~ (i \in ending /\ Emits(i))]
    /\ UNCHANGED clock

\* force_complete_all begins new bars at the clock's time, wherever the ticks are.
ForceCompleteAll ==
    LET active == {i \in Intervals : builders[i] # NoBar} IN
    /\ Emit(active)
    /\ builders' = [i \in Intervals |->
                       IF i \in active THEN NewBar(Align(clock, i)) ELSE NoBar]
    /\ forced' = [i \in Intervals |-> i \in active]
    /\ UNCHANGED <<clock, processed>>

\* reset forgets the bars under construction with their ticks.
AggregatorReset ==
    /\ builders' = [i \in Intervals |-> NoBar]
    /\ processed' = 0
    /\ counted' = [i \in Intervals |-> 0]
    /\ emitted' = [i \in Intervals |-> -1]
    /\ forced' = [i \in Intervals |-> FALSE]
    /\ UNCHANGED clock

ClockAdvances ==
    /\ clock < MaxTime
    /\ clock' = clock + 1
    /\ UNCHANGED <<builders, processed, counted, emitted, forced>>

AggregatorNext ==
    \/ ForceCompleteAll
    \/ AggregatorReset
    \/ ClockAdvances
    \/ \E t \in (clock - MaxLate) .. (clock + MaxEarly), p \in BarPrices :
          t >= 0 /\ ProcessTick(t, p)

AggregatorSpec == AggregatorInit /\ [][AggregatorNext]_barVars

-----------------------------------------------------------------------------
(* Properties *)

\* The types; a bar with ticks is one that MarketBar would accept when it is
\* built, so that no tick is lost to a validation error (events.py:168).
AggregatorTypeOK ==
    /\ clock \in 0 .. MaxTime
    /\ processed \in 0 .. MaxTicks
    /\ \A i \in Intervals : builders[i] # NoBar =>
          LET bar == builders[i] IN
          /\ bar.trades \in Nat
          /\ bar.start \in Nat /\ Align(bar.start, i) = bar.start
          /\ bar.trades > 0 =>
                /\ {bar.open, bar.close, bar.high, bar.low} \subseteq BarPrices
                /\ bar.low <= Lower(bar.open, bar.close)
                /\ bar.high >= Higher(bar.open, bar.close)

\* Each tick is in exactly one bar of each interval, however late it is and
\* whenever the bars are completed by force (aggregator.py:186, :250).
TicksAreConserved ==
    \A i \in Intervals :
        counted[i] + (IF builders[i] = NoBar THEN 0 ELSE builders[i].trades) = processed

\* Bars follow each other in time: a bar begins after the last one emitted and
\* holds no tick that belongs to a later one; a late tick may be in a bar that
\* began after it.  Only a completion by force, which begins bars at the local
\* clock's time (aggregator.py:250), may begin one with the last one emitted,
\* or before it by as much as ticks are ahead of the clock.
BarsFollowInTime ==
    \A i \in Intervals : builders[i] # NoBar =>
        LET bar == builders[i] IN
        /\ emitted[i] < bar.start \/ (forced[i] /\ emitted[i] - bar.start < MaxEarly + i)
        /\ bar.trades > 0 => bar.latest < bar.start + i

\* What holds of the bars at any time: the parts above.
BarInvariant == AggregatorTypeOK /\ TicksAreConserved /\ BarsFollowInTime
=============================================================================
