-------------------------- MODULE CorrelationMoves --------------------------
(***************************************************************************)
(* The CorrelationDetector (strategy/detectors/correlation.py): moves of   *)
(* correlated markets are recorded, and a WTI tick is held against those   *)
(* that have not been checked yet, the oldest first, until one of them     *)
(* makes a signal.                                                         *)
(*                                                                         *)
(* Prices are abstracted to what the detector reads from its histories at  *)
(* a tick: the sign of a change that reaches its threshold (0 for none),   *)
(* and which markets the coefficient with WTI reaches its threshold for.   *)
(* Of the histories themselves their lengths matter, up to MinHistory.     *)
(***************************************************************************)
EXTENDS Integers, Sequences, SequencesExt, FiniteSetsExt

CONSTANTS Markets,       \* CORRELATED_SYMBOLS
          Weight,        \* the sign of a market's weight, by market
          MinHistory,    \* prices before there is a change, 5 in the code
          MaxMoves,      \* moves kept, 100 in the code
          MaxLag,        \* max_lag_seconds
          MaxMoveTime    \* bound: time at the end of a behaviour

Wti == "CL=F"

ASSUME CorrelationAssumption ==
    /\ Wti \notin Markets
    /\ Weight \in [Markets -> {-1, 1}]
    /\ {MinHistory, MaxMoves, MaxMoveTime} \subseteq Nat \ {0}
    /\ MaxLag \in Nat

VARIABLES
    prices,     \* length of _price_history, up to MinHistory
    moves,      \* _recent_moves: market, sign, timestamp, wti_response_checked
    time,
    wtiTime,    \* the last WTI tick that was looked at, -1 for none
    signalled   \* history: the moves that made a signal, with its sign

moveVars == <<prices, moves, time, wtiTime, signalled>>

Signs == {-1, 0, 1}

Move == [market : Markets, sign : {-1, 1}, at : 0..MaxMoveTime, checked : BOOLEAN]

MovesInit ==
    /\ prices = [s \in Markets \cup {Wti} |-> 0]
    /\ moves = <<>>
    /\ time = 0
    /\ wtiTime = -1
    /\ signalled = <<>>

WithPrice(s) == [prices EXCEPT ![s] = IF @ < MinHistory THEN @ + 1 ELSE @]

KeepMoves(s) == IF Len(s) > MaxMoves THEN Tail(s) ELSE s

\* _check_correlated_move.  A change that lasts is a new move at every tick.
MarketTick(market, change) ==
    /\ prices' = WithPrice(market)
    /\ moves' = IF prices'[market] < MinHistory \/ change = 0 THEN moves
                ELSE KeepMoves(Append(moves, [market |-> market, sign |-> change, at |-> time,
                                              checked |-> FALSE]))
    /\ UNCHANGED <<time, wtiTime, signalled>>

-----------------------------------------------------------------------------
(* A WTI tick: response is the sign of WTI's change, correlated the set of *)
(* markets with a high enough coefficient.                                 *)

TooLate(move) == time - move.at > MaxLag

\* _calculate_expected_wti_move, its sign.
Expected(move) == move.sign * Weight[move.market]

Answered(move, response) == ~TooLate(move) /\ response # 0

Diverges(move, response) == Answered(move, response) /\ response # Expected(move)

Signals(move, response, correlated) ==
    /\ ~move.checked
    /\ Answered(move, response)
    /\ response = Expected(move)
    /\ move.market \in correlated

\* Mutant of Checked: a move too old is passed over and left as it is.
CheckedIfDiverges(move, response) == move.checked \/ Diverges(move, response)

Checked(move, response) == move.checked \/ TooLate(move) \/ Diverges(move, response)

\* The loop of _check_wti_response returns at the first move that signals.
WtiTick(response, correlated) ==
    LET hits == {i \in DOMAIN moves : Signals(moves[i], response, correlated)}
        end == IF hits = {} THEN Len(moves) + 1 ELSE Min(hits)
    IN /\ prices' = WithPrice(Wti)
       /\ IF prices'[Wti] < MinHistory THEN UNCHANGED <<moves, wtiTime, signalled>>
          ELSE /\ moves' = [i \in DOMAIN moves |->
                               [moves[i] EXCEPT !.checked =
                                   CASE i < end -> Checked(moves[i], response)
                                     [] i = end -> TRUE
                                     [] OTHER   -> @]]
               /\ wtiTime' = time
               /\ signalled' = IF hits = {} THEN <<>>
                               ELSE <<[move |-> moves[end], sign |-> response]>>
       /\ UNCHANGED time

TimePasses ==
    /\ time < MaxMoveTime
    /\ time' = time + 1
    /\ UNCHANGED <<prices, moves, wtiTime, signalled>>

MovesNext ==
    \/ \E market \in Markets, change \in Signs : MarketTick(market, change)
    \/ \E response \in Signs, correlated \in SUBSET Markets : WtiTick(response, correlated)
    \/ TimePasses

MovesSpec == MovesInit /\ [][MovesNext]_moveVars

-----------------------------------------------------------------------------
MovesTypeOK ==
    /\ prices \in [Markets \cup {Wti} -> 0..MinHistory]
    /\ Len(moves) <= MaxMoves /\ \A i \in DOMAIN moves : moves[i] \in Move
    /\ time \in 0..MaxMoveTime
    /\ wtiTime \in -1..MaxMoveTime
    /\ Len(signalled) <= 1

(***************************************************************************)
(* When a WTI tick has been looked at, the moves it left for the next one  *)
(* can still be answered: those too old are all marked, also when the loop *)
(* returned early with a signal, because the moves lie in order of time.   *)
(***************************************************************************)
PendingMovesAreInTime ==
    \A i \in DOMAIN moves : ~moves[i].checked => wtiTime - moves[i].at <= MaxLag

(***************************************************************************)
(* A signal trades the way its market's weight says, on a move that was    *)
(* not too old when WTI answered.                                          *)
(***************************************************************************)
SignalFollowsItsMove ==
    \A i \in DOMAIN signalled :
        LET move == signalled[i].move IN
        /\ signalled[i].sign = Expected(move)
        /\ wtiTime - move.at \in 0..MaxLag

(***************************************************************************)
(* What holds of the moves at any time: the parts above.                   *)
(***************************************************************************)
MoveInvariant == MovesTypeOK /\ PendingMovesAreInTime /\ SignalFollowsItsMove
=============================================================================
