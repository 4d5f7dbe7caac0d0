---------------------------- MODULE RiskManager ----------------------------
(***************************************************************************)
(* The RiskManager and its RiskState (risk/manager.py, risk/models.py) as  *)
(* a record and what each method does to it.  The methods run on the event *)
(* loop without suspending, so a caller composes them within one step.     *)
(*                                                                         *)
(* cooldown is what _is_in_cooldown answers now.  Left out: the status and *)
(* the breach log, which nothing reads back; total_exposure, which only    *)
(* get_status reports; the order rate gate, which never closes because     *)
(* _recent_orders is never appended to.                                    *)
(***************************************************************************)
EXTENDS Integers

CONSTANTS MaxPositionSize, MaxPositionPct, MaxOpenPositions, MaxDailyLoss,
          MaxDrawdownPct, PerTradeRisk, MaxTradesPerDay,
          KillSwitchEnabled,
          CooldownLosses      \* consecutive losses that start a cooldown (3)

ASSUME RiskAssumption ==
    /\ MaxPositionSize \in Nat \ {0}
    /\ MaxPositionPct \in Nat
    /\ MaxOpenPositions \in Nat \ {0}
    /\ MaxDailyLoss \in Nat
    /\ MaxDrawdownPct \in Nat \ {0}
    /\ PerTradeRisk \in Nat
    /\ MaxTradesPerDay \in Nat \ {0}
    /\ KillSwitchEnabled \in BOOLEAN
    /\ CooldownLosses \in Nat \ {0}

RiskRecords == [killSwitch : BOOLEAN, cooldown : BOOLEAN, dailyPnl : Int,
                dailyTrades : Nat, dailyOrders : Nat, openPositions : Nat,
                consecutiveLosses : Nat]

InitialRisk ==
    [killSwitch |-> FALSE, cooldown |-> FALSE, dailyPnl |-> 0,
     dailyTrades |-> 0, dailyOrders |-> 0, openPositions |-> 0,
     consecutiveLosses |-> 0]

-----------------------------------------------------------------------------
(* The gates *)

Distance(a, b) == IF a >= b THEN a - b ELSE b - a

CheckPositionOpen(r, sig, balance) ==
    /\ ~r.killSwitch
    /\ sig.quantity <= MaxPositionSize
    /\ balance > 0 => sig.price * sig.quantity * 100 <= MaxPositionPct * balance
    /\ Distance(sig.price, sig.stop) * sig.quantity <= PerTradeRisk

\* The part of check_order in front of the daily loss test.
MayTrade(r) == ~r.killSwitch /\ ~r.cooldown

DailyLossReached(r) == r.dailyPnl <= -MaxDailyLoss

\* The tests between the daily loss and the drawdown.
WithinLimits(r, quantity) ==
    /\ quantity <= MaxPositionSize
    /\ r.openPositions < MaxOpenPositions
    /\ r.dailyTrades < MaxTradesPerDay

NewPeak(peak, balance) == IF balance > peak THEN balance ELSE peak

DrawdownReached(peak, balance) ==
    /\ peak > 0
    /\ (peak - balance) * 100 >= MaxDrawdownPct * peak

-----------------------------------------------------------------------------
(* The updates *)

TriggerKillSwitch(r) ==
    IF KillSwitchEnabled THEN [r EXCEPT !.killSwitch = TRUE] ELSE r

RecordOrder(r) == [r EXCEPT !.dailyOrders = @ + 1]

RecordTrade(r, pnl) ==
    LET losses == IF pnl < 0 THEN r.consecutiveLosses + 1 ELSE 0
    IN  [r EXCEPT !.dailyTrades = @ + 1,
                  !.dailyPnl = @ + pnl,
                  !.consecutiveLosses = losses,
                  !.cooldown = IF losses = 0 THEN FALSE
                               ELSE IF losses >= CooldownLosses THEN TRUE ELSE @]

OnPositionOpened(r) == [r EXCEPT !.openPositions = @ + 1]

\* Mutant of OnPositionClosed: the count is not kept from going negative.
OnPositionClosedUnbounded(r, pnl) ==
    RecordTrade([r EXCEPT !.openPositions = @ - 1], pnl)

OnPositionClosed(r, pnl) ==
    RecordTrade([r EXCEPT !.openPositions = IF @ > 0 THEN @ - 1 ELSE 0], pnl)

CooldownOver(r) == [r EXCEPT !.cooldown = FALSE]

KillSwitchReset(r) == [r EXCEPT !.killSwitch = FALSE]

DailyStatsReset(r) ==
    [r EXCEPT !.dailyPnl = 0, !.dailyTrades = 0, !.dailyOrders = 0]
=============================================================================
