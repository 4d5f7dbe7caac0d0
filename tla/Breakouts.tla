------------------------------ MODULE Breakouts ------------------------------
(***************************************************************************)
(* The BreakoutDetector (strategy/detectors/breakout.py) for one symbol:   *)
(* enough bars in a tight range are a consolidation, a close beyond it     *)
(* with volume is a breakout, and a breakout that holds for some bars is a *)
(* signal.  The engine gives it bars only, so on_tick is left out.         *)
(***************************************************************************)
EXTENDS Integers, Sequences, SequencesExt, FiniteSetsExt

CONSTANTS BarSet,             \* bars: low, close, high, volume
          ConsolidationBars,  \* consolidation_periods
          AcceptanceBars,     \* acceptance_periods
          MaxBarVolumes       \* volumes kept, 20 in the code

ASSUME BreakoutAssumption ==
    /\ \A b \in BarSet : /\ {b.low, b.close, b.high} \subseteq Nat \ {0}
                         /\ b.low <= b.close /\ b.close <= b.high
                         /\ b.volume \in Nat
    /\ {ConsolidationBars, AcceptanceBars, MaxBarVolumes} \subseteq Nat \ {0}

VARIABLES
    window,      \* _bars, the last ConsolidationBars
    barVolumes,  \* _volume_history
    breakout,    \* _breakout_state, NoBreakout if the symbol has none
    returned         \* what on_bar returned last: "none", "long" or "short"

breakoutVars == <<window, barVolumes, breakout, returned>>

NoBreakout == [direction |-> "none"]

BreakoutInit ==
    /\ window = <<>>
    /\ barVolumes = <<>>
    /\ breakout = NoBreakout
    /\ returned = "none"

Newest(s, n) == IF Len(s) > n THEN Tail(s) ELSE s

\* _identify_consolidation: at most half a percent from low to high.
ConsolidationRange(bs) ==
    LET lows == {b.low : b \in ToSet(bs)}
        highs == {b.high : b \in ToSet(bs)}
    IN [low |-> Min(lows), high |-> Max(highs)]

IsTight(r) == (r.high - r.low) * 1000 <= 5 * r.low

\* 0.3 percent of the range beyond its edge.
ClosesAbove(b, r) == 1000 * (b.close - r.high) > 3 * (r.high - r.low)

ClosesBelow(b, r) == 1000 * (r.low - b.close) > 3 * (r.high - r.low)

\* One and a half times the average, this bar's own volume among it.
HasVolume(b, vs) == 2 * Len(vs) * b.volume >= 3 * FoldSeq(LAMBDA x, y : x + y, 0, vs)

CheckBreakout(b, r, vs) ==
    IF ~(ClosesAbove(b, r) \/ ClosesBelow(b, r)) \/ ~HasVolume(b, vs) THEN NoBreakout
    ELSE [direction |-> IF ClosesAbove(b, r) THEN "up" ELSE "down",
          range |-> r, periods |-> 0]

FallsBack(b, state) ==
    IF state.direction = "up" THEN b.low < state.range.high ELSE b.high > state.range.low

\* _check_breakout_acceptance; a signal deletes the state too.
Accepted(b, state) ==
    IF FallsBack(b, state) THEN [state |-> NoBreakout, signal |-> "none"]
    ELSE IF state.periods + 1 < AcceptanceBars
    THEN [state |-> [state EXCEPT !.periods = @ + 1], signal |-> "none"]
    ELSE [state |-> NoBreakout, signal |-> IF state.direction = "up" THEN "long" ELSE "short"]

NewBar(b) ==
    LET bs == Newest(Append(window, b), ConsolidationBars)
        vs == Newest(Append(barVolumes, b.volume), MaxBarVolumes)
        ready == Len(bs) >= ConsolidationBars
    IN /\ window' = bs
       /\ barVolumes' = vs
       /\ IF ready /\ breakout # NoBreakout
          THEN /\ breakout' = Accepted(b, breakout).state
               /\ returned' = Accepted(b, breakout).signal
          ELSE /\ breakout' = IF ready /\ IsTight(ConsolidationRange(bs))
                              THEN CheckBreakout(b, ConsolidationRange(bs), vs) ELSE breakout
               /\ returned' = "none"

BreakoutNext == \E b \in BarSet : NewBar(b)

BreakoutSpec == BreakoutInit /\ [][BreakoutNext]_breakoutVars

-----------------------------------------------------------------------------
BreakoutTypeOK ==
    /\ Len(window) <= ConsolidationBars /\ ToSet(window) \subseteq BarSet
    /\ Len(barVolumes) <= MaxBarVolumes /\ ToSet(barVolumes) \subseteq {b.volume : b \in BarSet}
    /\ breakout.direction \in {"none", "up", "down"}
    /\ returned \in {"none", "long", "short"}

(***************************************************************************)
(* What the class promises (breakout.py:56-58: "1. Identify consolidation  *)
(* range (tight price action) 2. Detect breakout beyond range with         *)
(* momentum 3. Confirm with volume increase"): once the bars so far are a  *)
(* tight range, a bar that closes beyond it with volume is a breakout.     *)
(***************************************************************************)
BreakoutsAreSeen ==
    [][\A b \in BarSet :
          LET range == ConsolidationRange(window) IN
          ( /\ NewBar(b) /\ breakout = NoBreakout
            /\ Len(window) = ConsolidationBars /\ IsTight(range)
            /\ ClosesAbove(b, range) \/ ClosesBelow(b, range)
            /\ HasVolume(b, barVolumes') )
          => breakout' # NoBreakout]_breakoutVars

(***************************************************************************)
(* What the code does instead: the bar that is asked for a breakout is     *)
(* itself one of the bars the range is taken from, and no bar closes       *)
(* beyond its own high.  The detector never signals.                       *)
(***************************************************************************)
NoBreakoutIsEverSeen == breakout = NoBreakout /\ returned = "none"

(***************************************************************************)
(* What holds of the detector at any time: the parts above.                *)
(***************************************************************************)
BreakoutInvariant == BreakoutTypeOK /\ NoBreakoutIsEverSeen
=============================================================================
