--------------------------- MODULE LiquiditySweeps ---------------------------
(***************************************************************************)
(* The LiquiditySweepDetector (strategy/detectors/liquidity_sweep.py): the *)
(* high and the low of a symbol's bars are levels; a tick a little beyond  *)
(* a level sweeps it; a tick back inside, in time, reclaims it.            *)
(*                                                                         *)
(* A level is an object: the active sweep of a symbol is the level that    *)
(* was swept, also when a new level has taken its place in between.  Bars  *)
(* carry the time they began, ticks the time they arrive.                  *)
(***************************************************************************)
EXTENDS Integers, Sequences, SequencesExt, FiniteSetsExt

CONSTANTS SweepSymbols,   \* the symbols with bars and ticks
          SweepPrices,    \* prices a tick may show
          BarRanges,      \* <<low, high>> of a bar
          Lookback,       \* lookback_periods
          MinBars,        \* bars before there are levels, 5 in the code
          ReclaimTimeout, \* reclaim_timeout_seconds
          BarLength,      \* interval_seconds of a bar
          MaxSweepTime    \* bound: time at the end of a behaviour

ASSUME SweepAssumption ==
    /\ SweepPrices \subseteq Nat \ {0}
    /\ BarRanges \subseteq {r \in (Nat \ {0}) \X (Nat \ {0}) : r[1] <= r[2]}
    /\ {Lookback, MinBars, BarLength, MaxSweepTime} \subseteq Nat \ {0}
    /\ ReclaimTimeout \in Nat

VARIABLES
    bars,      \* _bars, the last Lookback: what is before them is not read again
    levels,    \* _liquidity_levels, by symbol and side
    active,    \* _active_sweeps
    lastTick,  \* when the symbol's last tick arrived: _recent_ticks[-1].timestamp
    now

sweepVars == <<bars, levels, active, lastTick, now>>

Sides == {"high", "low"}

\* sweptAt is -1 until mark_swept.
NoLevel == [price |-> 0, sweptAt |-> -1]

NewLevel(price) == [price |-> price, sweptAt |-> -1]

IsSwept(level) == level.sweptAt # -1

NoSweep == [side |-> "none", price |-> 0, sweptAt |-> -1]

SweepsInit ==
    /\ bars = [s \in SweepSymbols |-> <<>>]
    /\ levels = [s \in SweepSymbols |-> [side \in Sides |-> NoLevel]]
    /\ active = [s \in SweepSymbols |-> NoSweep]
    /\ lastTick = [s \in SweepSymbols |-> 0]
    /\ now = 0

-----------------------------------------------------------------------------
(* A bar: new levels where it makes a new extreme, and old sweeps dropped  *)

Lows(window) == {window[i][1] : i \in DOMAIN window}

Highs(window) == {window[i][2] : i \in DOMAIN window}

\* Is p beyond q on the outer side of a level?
Beyond(side, p, q) == IF side = "high" THEN p > q ELSE p < q

Extreme(side, window) == IF side = "high" THEN Max(Highs(window)) ELSE Min(Lows(window))

\* Mutant of Replaces: a level follows the extreme of the window both ways.
ReplacesAlways(side, level, price) == level = NoLevel \/ price # level.price

Replaces(side, level, price) == level = NoLevel \/ Beyond(side, price, level.price)

UpdatedLevels(old, window) ==
    IF Len(window) < MinBars THEN old
    ELSE [side \in Sides |->
             IF Replaces(side, old[side], Extreme(side, window))
             THEN NewLevel(Extreme(side, window)) ELSE old[side]]

TimedOut(sweep, t) == sweep # NoSweep /\ t - sweep.sweptAt > ReclaimTimeout

LastOf(window, n) == IF Len(window) > n THEN SubSeq(window, Len(window) - n + 1, Len(window))
                     ELSE window

\* The sweeps of every symbol are held against the time of this one's bar.
OnBar(s, range) ==
    LET window == LastOf(Append(bars[s], range), Lookback) IN
    /\ bars' = [bars EXCEPT ![s] = window]
    /\ levels' = [levels EXCEPT ![s] = UpdatedLevels(@, window)]
    /\ active' = [x \in SweepSymbols |->
                     IF TimedOut(active[x], now - BarLength) THEN NoSweep ELSE active[x]]
    /\ UNCHANGED <<lastTick, now>>

-----------------------------------------------------------------------------
(* A tick: first the trigger, then the reclaim of whatever is active now   *)

\* More than 0.05 % and less than 0.5 % beyond the level.
InSweepZone(side, p, level) ==
    LET edge(tenThousandths) ==
            IF side = "high" THEN level * (10000 + tenThousandths)
                             ELSE level * (10000 - tenThousandths)
    IN Beyond(side, 10000 * p, edge(5)) /\ Beyond(side, edge(50), 10000 * p)

Sweeps(side, level, p) ==
    level # NoLevel /\ ~IsSwept(level) /\ InSweepZone(side, p, level.price)

Opposite(side) == IF side = "high" THEN "low" ELSE "high"

\* Back inside the level.
Reclaims(sweep, p) == Beyond(Opposite(sweep.side), p, sweep.price)

(***************************************************************************)
(* on_tick.  The low is looked at after the high, so its sweep takes the   *)
(* place of the high's.  A reclaim deletes the sweep and then fails in     *)
(* _generate_signal, which reads an attribute levels do not have: like a   *)
(* timeout it leaves no signal, only the caller gets an exception.         *)
(***************************************************************************)
OnTick(s, p) ==
    LET swept == {side \in Sides : Sweeps(side, levels[s][side], p)}
        sweep == IF swept = {} THEN active[s]
                 ELSE LET side == IF "low" \in swept THEN "low" ELSE "high" IN
                      [side |-> side, price |-> levels[s][side].price, sweptAt |-> now]
        over == sweep # NoSweep /\ (TimedOut(sweep, now) \/ Reclaims(sweep, p))
    IN /\ levels' = [levels EXCEPT ![s] =
                        [side \in Sides |-> IF side \in swept THEN [@[side] EXCEPT !.sweptAt = now]
                                            ELSE @[side]]]
       /\ active' = [active EXCEPT ![s] = IF over THEN NoSweep ELSE sweep]
       /\ lastTick' = [lastTick EXCEPT ![s] = now]
       /\ UNCHANGED <<bars, now>>

Elapse ==
    /\ now < MaxSweepTime
    /\ now' = now + 1
    /\ UNCHANGED <<bars, levels, active, lastTick>>

SweepsNext ==
    \/ \E s \in SweepSymbols, r \in BarRanges : OnBar(s, r)
    \/ \E s \in SweepSymbols, p \in SweepPrices : OnTick(s, p)
    \/ Elapse

SweepsSpec == SweepsInit /\ [][SweepsNext]_sweepVars

-----------------------------------------------------------------------------
Times == 0..MaxSweepTime

SweepsTypeOK ==
    /\ bars \in [SweepSymbols -> BoundedSeq(BarRanges, Lookback)]
    /\ \A s \in SweepSymbols, side \in Sides :
          /\ levels[s][side].price \in Nat
          /\ levels[s][side].sweptAt \in Times \cup {-1}
    /\ \A s \in SweepSymbols :
          active[s] = NoSweep \/ (active[s].side \in Sides /\ active[s].sweptAt \in Times)
    /\ lastTick \in [SweepSymbols -> Times]
    /\ now \in Times

(***************************************************************************)
(* The sweep a symbol waits on is one of a level it knows: the level as it *)
(* was marked, or one further in that a new extreme has replaced since.    *)
(***************************************************************************)
ActiveSweepIsOfALevel ==
    \A s \in SweepSymbols : active[s] # NoSweep =>
        LET sweep == active[s]  level == levels[s][sweep.side] IN
        \/ level = [price |-> sweep.price, sweptAt |-> sweep.sweptAt]
        \/ Beyond(sweep.side, level.price, sweep.price)

(***************************************************************************)
(* Measured at the last tick of its symbol, no waiting sweep is older than *)
(* the timeout, whatever the bars of other symbols did in between.         *)
(***************************************************************************)
SweepsWaitNoLongerThanTimeout ==
    \A s \in SweepSymbols : active[s] # NoSweep =>
        lastTick[s] - active[s].sweptAt \in 0..ReclaimTimeout

(***************************************************************************)
(* What holds of levels and sweeps at any time: the parts above.           *)
(***************************************************************************)
SweepInvariant == SweepsTypeOK /\ ActiveSweepIsOfALevel /\ SweepsWaitNoLongerThanTimeout
=============================================================================
