--------------------------- MODULE TradingSystem ---------------------------
(***************************************************************************)
(* The ExecutionEngine, the PaperBroker and the RiskManager at work on one *)
(* asyncio event loop (execution/engine.py, execution/brokers/paper.py).   *)
(*                                                                         *)
(* A step is what the loop runs between two suspension points: a signal up *)
(* to the latency sleep of submit_order, the rest of submit_order, the two *)
(* halves of a fill task, a market tick, a scheduled stop-loss close, or   *)
(* one REST call.  The broker's callbacks run inside the step that calls   *)
(* them, so the risk manager's bookkeeping is part of that step.           *)
(***************************************************************************)
EXTENDS Orders, RiskManager, FiniteSetsExt

CONSTANTS SignalSet,       \* the signals the strategies may emit
          Prices,          \* the prices a tick may carry
          InitialBalance,  \* PaperBroker.initial_balance
          SlippagePct,     \* slippage_pct
          MaxTicks         \* bound: ticks in a behaviour

ASSUME TradingAssumption ==
    /\ IsFiniteSet(Symbols)
    /\ SignalSet \subseteq Signals
    /\ Prices \subseteq Positive
    /\ InitialBalance \in Int
    /\ SlippagePct \in 0..99
    /\ MaxTicks \in Nat

VARIABLES
    running,      \* ExecutionEngine._running
    orders,       \* every order created, by id
    positions,    \* PaperBroker._positions
    lastPrice,    \* PaperBroker._last_prices, 0 when the symbol has none
    cash,         \* PaperBroker.balance
    closeTasks,   \* stop-loss close_position tasks not yet run, by symbol
    closing,      \* symbols the running close_all_positions has yet to close
    risk,         \* RiskManager.state
    peakBalance,  \* RiskManager.state.peak_balance
    ticks         \* ticks so far, for the bound

vars == <<running, orders, positions, lastPrice, cash, closeTasks, closing,
          risk, peakBalance, ticks>>

Used(o) == orders[o] # NoOrder

Phase(o) == IF Used(o) THEN orders[o].phase ELSE "unused"

HasPosition(s) == positions[s] # NoPosition

OpenSymbols == {s \in Symbols : HasPosition(s)}

Init ==
    /\ running = FALSE
    /\ orders = [o \in OrderIds |-> NoOrder]
    /\ positions = [s \in Symbols |-> NoPosition]
    /\ lastPrice = [s \in Symbols |-> 0]
    /\ cash = InitialBalance
    /\ closeTasks = [s \in Symbols |-> 0]
    /\ closing = {}
    /\ risk = InitialRisk
    /\ peakBalance = 0
    /\ ticks = 0

-----------------------------------------------------------------------------
(* Starting and stopping the engine.  Neither touches a task in flight.    *)

Start ==
    /\ ~running
    /\ running' = TRUE
    /\ UNCHANGED <<orders, positions, lastPrice, cash, closeTasks, closing,
                   risk, peakBalance, ticks>>

Stop ==
    /\ running
    /\ running' = FALSE
    /\ UNCHANGED <<orders, positions, lastPrice, cash, closeTasks, closing,
                   risk, peakBalance, ticks>>

-----------------------------------------------------------------------------
(* From a signal to an accepted order                                      *)

\* get_account_balance: opening a position does not debit the cash.
TotalValue ==
    cash + MapThenSumSet(LAMBDA s : PositionValue(positions[s])
                                      + UnrealizedPnl(positions[s]),
                         OpenSymbols)

(***************************************************************************)
(* execute_signal up to the sleep in submit_order.  A signal that a gate   *)
(* turns away without a trace is a stuttering step; the daily loss and the *)
(* drawdown gates leave one, the kill switch.                              *)
(***************************************************************************)
RejectOnDailyLoss ==
    /\ DailyLossReached(risk)
    /\ risk' = TriggerKillSwitch(risk)
    /\ UNCHANGED <<orders, peakBalance>>

RejectOnDrawdown(sig) ==
    /\ ~DailyLossReached(risk)
    /\ WithinLimits(risk, sig.quantity)
    /\ peakBalance' = NewPeak(peakBalance, TotalValue)
    /\ DrawdownReached(peakBalance', TotalValue)
    /\ risk' = TriggerKillSwitch(risk)
    /\ UNCHANGED orders

AcceptSignal(o, sig) ==
    /\ ~DailyLossReached(risk)
    /\ WithinLimits(risk, sig.quantity)
    /\ peakBalance' = NewPeak(peakBalance, TotalValue)
    /\ ~DrawdownReached(peakBalance', TotalValue)
    /\ risk' = RecordOrder(risk)
    /\ ~Used(o)
    /\ orders' = [orders EXCEPT ![o] = NewOrder(sig)]

\* Mutant of ExecuteSignal: a signal against an open position skips the switch.
ExecuteSignalReducing(o, sig) ==
    /\ running
    /\ HasPosition(sig.symbol) \/ (CheckPositionOpen(risk, sig, TotalValue) /\ MayTrade(risk))
    /\ \/ RejectOnDailyLoss
       \/ RejectOnDrawdown(sig)
       \/ AcceptSignal(o, sig)
    /\ UNCHANGED <<running, positions, lastPrice, cash, closeTasks, closing, ticks>>

ExecuteSignal(o, sig) ==
    /\ running
    /\ CheckPositionOpen(risk, sig, TotalValue)
    /\ MayTrade(risk)
    /\ \/ RejectOnDailyLoss
       \/ RejectOnDrawdown(sig)
       \/ AcceptSignal(o, sig)
    /\ UNCHANGED <<running, positions, lastPrice, cash, closeTasks, closing, ticks>>

\* The rest of submit_order: SUBMITTED and ACCEPTED, then the fill task.
SubmitOrder(o) ==
    /\ Phase(o) = "sending"
    /\ orders' = [orders EXCEPT ![o] = Accepted(@)]
    /\ UNCHANGED <<running, positions, lastPrice, cash, closeTasks, closing,
                   risk, peakBalance, ticks>>

-----------------------------------------------------------------------------
(* The fill task                                                           *)

Slippage(price) == (price * SlippagePct) \div 100

FillPrice(side, price) ==
    IF side = "buy" THEN price + Slippage(price) ELSE price - Slippage(price)

\* Mutant of RejectOrder: the early return forgets order.reject.
RejectOrderSilently(o) ==
    /\ Phase(o) = "queued"
    /\ lastPrice[orders[o].signal.symbol] = 0
    /\ UNCHANGED vars

\* _simulate_fill with no price to fill at.
RejectOrder(o) ==
    /\ Phase(o) = "queued"
    /\ lastPrice[orders[o].signal.symbol] = 0
    /\ orders' = [orders EXCEPT ![o] = Rejected(@)]
    /\ UNCHANGED <<running, positions, lastPrice, cash, closeTasks, closing,
                   risk, peakBalance, ticks>>

\* Mutant of StartFill: a missing price is taken for a price of zero.
StartFillUnpriced(o) ==
    /\ Phase(o) = "queued"
    /\ LET sig == orders[o].signal IN
       \E qty \in 1..sig.quantity :
            orders' = [orders EXCEPT
                         ![o] = Filling(@, FillPrice(sig.side, lastPrice[sig.symbol]), qty)]
    /\ UNCHANGED <<running, positions, lastPrice, cash, closeTasks, closing,
                   risk, peakBalance, ticks>>

\* _simulate_fill up to its sleep: the price and the quantity are settled.
StartFill(o) ==
    /\ Phase(o) = "queued"
    /\ LET sig == orders[o].signal IN
       /\ lastPrice[sig.symbol] # 0
       /\ \E qty \in 1..sig.quantity :
            orders' = [orders EXCEPT
                         ![o] = Filling(@, FillPrice(sig.side, lastPrice[sig.symbol]), qty)]
    /\ UNCHANGED <<running, positions, lastPrice, cash, closeTasks, closing,
                   risk, peakBalance, ticks>>

\* Mutant of ClosePosition: the close is reported twice, as EngineClose does.
ClosePositionTwice(s, exit) ==
    LET pnl == RealizedPnl(positions[s], exit) IN
    /\ positions' = [positions EXCEPT ![s] = NoPosition]
    /\ cash' = cash + pnl
    /\ risk' = OnPositionClosed(OnPositionClosed(risk, pnl), pnl)

\* A position leaves the book at a price; the risk manager hears of it once.
ClosePosition(s, exit) ==
    LET pnl == RealizedPnl(positions[s], exit) IN
    /\ positions' = [positions EXCEPT ![s] = NoPosition]
    /\ cash' = cash + pnl
    /\ risk' = OnPositionClosed(risk, pnl)

\* Mutant of UpdatePosition: an opening debits the balance and is not reported.
UpdatePositionSilently(o) ==
    LET order == orders[o]
        s == order.signal.symbol
    IN  IF HasPosition(s)
        THEN IF Opposite(positions[s], order.signal.side)
             THEN ClosePosition(s, order.fillPrice)
             ELSE UNCHANGED <<positions, cash, risk>>
        ELSE /\ positions' = [positions EXCEPT ![s] = NewPosition(o, order)]
             /\ cash' = cash - order.fillPrice * order.fillQty
             /\ UNCHANGED risk

\* _update_position: an addition and a partial close leave no trace.
UpdatePosition(o) ==
    LET order == orders[o]
        s == order.signal.symbol
    IN  \/ /\ ~HasPosition(s)
           /\ positions' = [positions EXCEPT ![s] = NewPosition(o, order)]
           /\ risk' = OnPositionOpened(risk)
           /\ UNCHANGED cash
        \/ /\ HasPosition(s)
           /\ Opposite(positions[s], order.signal.side)
           /\ order.fillQty >= positions[s].quantity
           /\ ClosePosition(s, order.fillPrice)
        \/ /\ HasPosition(s)
           /\ \/ ~Opposite(positions[s], order.signal.side)
              \/ order.fillQty < positions[s].quantity
           /\ UNCHANGED <<positions, cash, risk>>

\* _simulate_fill after its sleep.  It does not look at the status again.
ApplyFill(o) ==
    /\ Phase(o) = "filling"
    /\ orders' = [orders EXCEPT ![o] = AddFill(@)]
    /\ UpdatePosition(o)
    /\ UNCHANGED <<running, lastPrice, closeTasks, closing, peakBalance, ticks>>

-----------------------------------------------------------------------------
(* Market data                                                             *)

\* PaperBroker.on_market_tick: a tick on an open position is reported to the
\* engine as a position update, which the risk manager takes for an opening.
MarketTick(s, price) ==
    /\ ticks < MaxTicks
    /\ ticks' = ticks + 1
    /\ lastPrice' = [lastPrice EXCEPT ![s] = price]
    /\ IF HasPosition(s)
       THEN LET moved == [positions[s] EXCEPT !.price = price] IN
            /\ positions' = [positions EXCEPT ![s] = moved]
            /\ closeTasks' = [closeTasks EXCEPT
                                ![s] = IF ShouldTriggerStop(moved) THEN @ + 1 ELSE @]
            /\ risk' = OnPositionOpened(risk)
       ELSE UNCHANGED <<positions, closeTasks, risk>>
    /\ UNCHANGED <<running, orders, cash, closing, peakBalance>>

\* Mutant of RunCloseTask: the task looks at the stop once more.
RunCloseTaskIfStillHit(s) ==
    /\ closeTasks[s] > 0
    /\ closeTasks' = [closeTasks EXCEPT ![s] = @ - 1]
    /\ IF HasPosition(s) /\ ShouldTriggerStop(positions[s])
       THEN ClosePosition(s, lastPrice[s])
       ELSE UNCHANGED <<positions, cash, risk>>
    /\ UNCHANGED <<running, orders, lastPrice, closing, peakBalance, ticks>>

\* The task a stop-loss hit has created.  It closes whatever position the
\* symbol has by now.
RunCloseTask(s) ==
    /\ closeTasks[s] > 0
    /\ closeTasks' = [closeTasks EXCEPT ![s] = @ - 1]
    /\ IF HasPosition(s) /\ lastPrice[s] # 0
       THEN ClosePosition(s, lastPrice[s])
       ELSE UNCHANGED <<positions, cash, risk>>
    /\ UNCHANGED <<running, orders, lastPrice, closing, peakBalance, ticks>>

CooldownElapses ==
    /\ risk.cooldown
    /\ risk' = CooldownOver(risk)
    /\ UNCHANGED <<running, orders, positions, lastPrice, cash, closeTasks,
                   closing, peakBalance, ticks>>

-----------------------------------------------------------------------------
(* What an operator does through the REST API                              *)

CancelOrder(o) ==
    /\ Phase(o) \in {"queued", "filling", "done"}
    /\ CanCancel(orders[o])
    /\ orders' = [orders EXCEPT ![o] = Cancelled(@)]
    /\ UNCHANGED <<running, positions, lastPrice, cash, closeTasks, closing,
                   risk, peakBalance, ticks>>

(***************************************************************************)
(* ExecutionEngine.close_position: the broker closes the position and      *)
(* reports it, and the engine reports what the broker returned once more,  *)
(* whether it was closed or not.                                           *)
(***************************************************************************)
EngineClose(s) ==
    /\ HasPosition(s)
    /\ IF lastPrice[s] # 0
       THEN LET pnl == RealizedPnl(positions[s], lastPrice[s]) IN
            /\ positions' = [positions EXCEPT ![s] = NoPosition]
            /\ cash' = cash + pnl
            /\ risk' = OnPositionClosed(OnPositionClosed(risk, pnl), pnl)
       ELSE /\ risk' = OnPositionClosed(risk, 0)
            /\ UNCHANGED <<positions, cash>>

ClosePositionCall(s) ==
    /\ EngineClose(s)
    /\ UNCHANGED <<running, orders, lastPrice, closeTasks, closing, peakBalance, ticks>>

\* close_all_positions: a loop over a snapshot, with nothing else in between.
CloseAllCall ==
    /\ OpenSymbols # {}
    /\ closing' = OpenSymbols
    /\ UNCHANGED <<running, orders, positions, lastPrice, cash, closeTasks,
                   risk, peakBalance, ticks>>

CloseNext(s) ==
    /\ s \in closing
    /\ closing' = closing \ {s}
    /\ EngineClose(s)
    /\ UNCHANGED <<running, orders, lastPrice, closeTasks, peakBalance, ticks>>

ResetKillSwitch ==
    /\ risk.killSwitch
    /\ risk' = KillSwitchReset(risk)
    /\ UNCHANGED <<running, orders, positions, lastPrice, cash, closeTasks,
                   closing, peakBalance, ticks>>

ResetDailyStats ==
    /\ risk' = DailyStatsReset(risk)
    /\ UNCHANGED <<running, orders, positions, lastPrice, cash, closeTasks,
                   closing, peakBalance, ticks>>

-----------------------------------------------------------------------------
(* The system                                                              *)

OrderTask(o) == SubmitOrder(o) \/ RejectOrder(o) \/ StartFill(o) \/ ApplyFill(o)

\* What happens without anybody calling the API.
BotNext ==
    /\ closing = {}
    /\ \/ Start
       \/ Stop
       \/ \E o \in OrderIds, sig \in SignalSet : ExecuteSignal(o, sig)
       \/ \E o \in OrderIds : OrderTask(o)
       \/ \E s \in Symbols, price \in Prices : MarketTick(s, price)
       \/ \E s \in Symbols : RunCloseTask(s)
       \/ CooldownElapses

OperatorNext ==
    \/ \E s \in Symbols : CloseNext(s)
    \/ /\ closing = {}
       /\ \/ \E o \in OrderIds : CancelOrder(o)
          \/ \E s \in Symbols : ClosePositionCall(s)
          \/ CloseAllCall
          \/ ResetKillSwitch
          \/ ResetDailyStats

Next == BotNext \/ OperatorNext

Spec == Init /\ [][Next]_vars

BotSpec == Init /\ [][BotNext]_vars

\* The event loop runs every task that is ready and every sleep ends.
TaskFairness ==
    /\ \A o \in OrderIds : WF_vars(closing = {} /\ OrderTask(o))
    /\ \A s \in Symbols : WF_vars(closing = {} /\ RunCloseTask(s))
    /\ WF_vars(\E s \in Symbols : CloseNext(s))

FairSpec == Spec /\ TaskFairness

-----------------------------------------------------------------------------
(* Properties                                                              *)

\* Types.  peakBalance, a sum over the open positions, is left untyped.
TypeOK ==
    /\ running \in BOOLEAN
    /\ orders \in [OrderIds -> OrderRecords \cup {NoOrder}]
    /\ positions \in [Symbols -> PositionRecords \cup {NoPosition}]
    /\ lastPrice \in [Symbols -> Nat]
    /\ cash \in Int
    /\ closeTasks \in [Symbols -> Nat]
    /\ closing \subseteq Symbols
    /\ risk \in RiskRecords
    /\ ticks \in Nat

Consistent(order) ==
    /\ order.status = "FILLED" <=> order.filled = order.signal.quantity
    /\ order.status = "PARTIALLY_FILLED" => order.filled > 0
    /\ order.status = "REJECTED" => order.filled = 0
    /\ order.filled > 0 => order.phase = "done" /\ order.filled = order.fillQty
    /\ order.phase = "sending" => order.status = "PENDING"
    /\ order.phase \in {"queued", "filling"} => order.status \in {"ACCEPTED", "CANCELLED"}
    /\ order.phase = "filling" => order.fillQty \in 1..order.signal.quantity

\* An order's status and its filled quantity never tell different stories,
\* however cancellations, rejections and the fill task interleave: it is
\* FILLED exactly when all of it is filled, a rejected order has no fill,
\* nothing is filled before the fill task has run, and the task in progress
\* will fill something and never more than was ordered.
StatusMatchesFills ==
    \A o \in OrderIds : Used(o) => Consistent(orders[o])

\* Every open position can be traced to the one order that opened it, which
\* has filled exactly the position's quantity, on its side, symbol and price.
PositionBackedByFill ==
    \A s \in Symbols : HasPosition(s) =>
        LET position == positions[s]
            order == orders[position.order]
        IN  /\ Used(position.order)
            /\ order.phase = "done"
            /\ order.signal.symbol = s
            /\ order.signal.side = position.side
            /\ order.filled = position.quantity
            /\ order.fillPrice = position.entry

\* A symbol with an open position or with a fill on its way has a price, so
\* close_position always closes the position it returns, and a stop-loss close
\* never misses.
TradedSymbolsArePriced ==
    /\ \A s \in Symbols : HasPosition(s) => lastPrice[s] # 0
    /\ \A o \in OrderIds : Phase(o) = "filling" => lastPrice[orders[o].signal.symbol] # 0

\* FILLED and REJECTED are final: no late fill, cancellation or rejection
\* changes such an order's status or its filled quantity.
FinalStatusIsFinal ==
    [][\A o \in OrderIds :
          Used(o) /\ orders[o].status \in {"FILLED", "REJECTED"} =>
              /\ orders'[o].status = orders[o].status
              /\ orders'[o].filled = orders[o].filled]_vars

\* The system implements the TradingBook: between a signal, its order, the two
\* halves of a fill, stops and an operator's calls, no order settles twice, no
\* holding changes in place and no money moves without a holding that leaves.
NotAsked == [side |-> "none"]

Asked == [o \in OrderIds |-> IF Used(o) THEN orders[o].signal ELSE NotAsked]

Settled == {o \in OrderIds : Phase(o) = "done"}

EmptyHolding == [order |-> NoOrder, quantity |-> 0, entry |-> 0]

Holding(position) ==
    [order |-> position.order, quantity |-> position.quantity, entry |-> position.entry]

Holdings ==
    [s \in Symbols |-> IF HasPosition(s) THEN Holding(positions[s]) ELSE EmptyHolding]

Book == INSTANCE TradingBook WITH
            Requests <- SignalSet, Quotes <- Prices, Deal <- FillPrice,
            OpeningBalance <- InitialBalance,
            NoRequest <- NotAsked, NoHolding <- EmptyHolding,
            asked <- Asked, settled <- Settled, book <- Holdings, balance <- cash

BookSpec == Book!BookSpec

InFlight(o) == Phase(o) \in {"sending", "queued", "filling"}

\* Without API calls the day's profit and loss is what the balance has gained:
\* each close is reported to the risk manager exactly once.
DailyPnlIsRealized == risk.dailyPnl = cash - InitialBalance

\* Without API calls the risk manager never believes fewer positions open than
\* there are, so its position limit is never too generous for what is open.
OpenCountCoversPositions == Cardinality(OpenSymbols) <= risk.openPositions

\* The orders that still can move money: on their way, or behind a position.
Exposed == {o \in OrderIds : InFlight(o)} \cup {positions[s].order : s \in OpenSymbols}

\* Without API calls the risk manager's kill switch is for good, and from then
\* on the exposure only runs down: a position opened after the switch comes from
\* an order admitted before it, and what is settled and closed stays closed.
HaltRunsDown ==
    [][risk.killSwitch => risk'.killSwitch /\ Exposed' \subseteq Exposed]_vars

\* Every admitted order reaches the end of its fill task.
OrdersSettle == \A o \in OrderIds : InFlight(o) ~> ~InFlight(o)

\* A position whose stop has been hit, and for which a close was scheduled,
\* is eventually off the book.
StopsAreHonoured ==
    \A s \in Symbols, o \in OrderIds :
        (HasPosition(s) /\ positions[s].order = o /\ closeTasks[s] > 0)
            ~> ~(HasPosition(s) /\ positions[s].order = o)

-----------------------------------------------------------------------------
(* What the documentation says and the code does not do                    *)

\* risk/models.py: "max_open_positions: Maximum concurrent positions".
MaxConcurrentPositions == Cardinality(OpenSymbols) <= MaxOpenPositions
=============================================================================
