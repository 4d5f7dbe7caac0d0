------------------------ MODULE TradingSystemProofs ------------------------
(***************************************************************************)
(* Proofs about TradingSystem, for every set of symbols, orders, signals   *)
(* and prices and every value of the limits.                               *)
(***************************************************************************)
EXTENDS TradingSystem, FiniteSetTheorems, TLAPS

(* What the value operators return. *)

LEMMA PnlType ==
    ASSUME NEW p \in PositionRecords, NEW exit \in Int
    PROVE  RealizedPnl(p, exit) \in Int
  <1>1. p.quantity \in Int /\ p.entry \in Int
    BY DEF PositionRecords, Positive
  <1>2. Commission * p.quantity \in Int
    BY <1>1, OrdersAssumption
  <1>3. Gain(p, exit) \in Int
    BY <1>1 DEF Gain
  <1>4. QED
    BY <1>2, <1>3 DEF RealizedPnl

LEMMA FillPriceType ==
    ASSUME NEW side \in Sides, NEW price \in Nat
    PROVE  FillPrice(side, price) \in Int
  <1>1. price * SlippagePct \in Int
    BY TradingAssumption
  <1>2. QED
    BY <1>1 DEF FillPrice, Slippage

LEMMA NewOrderType ==
    ASSUME NEW sig \in Signals
    PROVE  NewOrder(sig) \in OrderRecords
  BY DEF NewOrder, OrderRecords, Statuses, Phases

LEMMA RiskTypes ==
    ASSUME NEW r \in RiskRecords, NEW pnl \in Int
    PROVE  /\ TriggerKillSwitch(r) \in RiskRecords
           /\ RecordOrder(r) \in RiskRecords
           /\ OnPositionOpened(r) \in RiskRecords
           /\ OnPositionClosed(r, pnl) \in RiskRecords
           /\ CooldownOver(r) \in RiskRecords
           /\ KillSwitchReset(r) \in RiskRecords
           /\ DailyStatsReset(r) \in RiskRecords
  <1>1. ASSUME NEW q \in RiskRecords
        PROVE  RecordTrade(q, pnl) \in RiskRecords
    <2> DEFINE trades == q.dailyTrades + 1
               total == q.dailyPnl + pnl
               losses == IF pnl < 0 THEN q.consecutiveLosses + 1 ELSE 0
               cooldown == IF losses = 0 THEN FALSE
                           ELSE IF losses >= CooldownLosses THEN TRUE ELSE q.cooldown
    <2>1. trades \in Nat /\ total \in Int /\ losses \in Nat
      BY DEF RiskRecords
    <2>2. cooldown \in BOOLEAN
      BY DEF RiskRecords
    <2>3. RecordTrade(q, pnl) =
            [q EXCEPT !.dailyTrades = trades, !.dailyPnl = total,
                      !.consecutiveLosses = losses, !.cooldown = cooldown]
      BY DEF RecordTrade
    <2> HIDE DEF trades, total, losses, cooldown
    <2>4. QED
      BY <2>1, <2>2, <2>3 DEF RiskRecords
  <1>2. OnPositionClosed(r, pnl) \in RiskRecords
    <2>1. [r EXCEPT !.openPositions = IF @ > 0 THEN @ - 1 ELSE 0] \in RiskRecords
      BY DEF RiskRecords
    <2>2. QED
      BY <1>1, <2>1 DEF OnPositionClosed
  <1>3. TriggerKillSwitch(r) \in RiskRecords
    BY DEF TriggerKillSwitch, RiskRecords
  <1>4. RecordOrder(r) \in RiskRecords /\ OnPositionOpened(r) \in RiskRecords
    BY DEF RecordOrder, OnPositionOpened, RiskRecords
  <1>5. CooldownOver(r) \in RiskRecords /\ KillSwitchReset(r) \in RiskRecords
    BY DEF CooldownOver, KillSwitchReset, RiskRecords
  <1>6. DailyStatsReset(r) \in RiskRecords
    <2> DEFINE zero == 0
    <2>1. zero \in Nat /\ zero \in Int
      OBVIOUS
    <2>2. DailyStatsReset(r) = [r EXCEPT !.dailyPnl = zero, !.dailyTrades = zero,
                                         !.dailyOrders = zero]
      BY DEF DailyStatsReset
    <2> HIDE DEF zero
    <2>3. QED
      BY <2>1, <2>2 DEF RiskRecords
  <1>7. QED
    BY <1>2, <1>3, <1>4, <1>5, <1>6

-----------------------------------------------------------------------------
(* What each method of Order keeps of a consistent order. *)

LEMMA NewOrderConsistent ==
    ASSUME NEW sig \in Signals
    PROVE  Consistent(NewOrder(sig))
  BY DEF NewOrder, Consistent, Signals, Positive

LEMMA Names ==
    /\ {"ACCEPTED", "REJECTED", "CANCELLED", "FILLED", "PARTIALLY_FILLED"} \subseteq Statuses
    /\ {"queued", "filling", "done"} \subseteq Phases
  BY DEF Statuses, Phases

LEMMA OrderFields ==
    ASSUME NEW order \in OrderRecords
    PROVE  /\ order.signal.quantity \in Nat /\ order.signal.quantity > 0
           /\ order.filled \in Nat /\ order.fillQty \in Nat
           /\ order.signal.side \in Sides /\ order.signal.symbol \in Symbols
           /\ order.signal.stop \in Positive /\ order.fillPrice \in Int
  BY DEF OrderRecords, Signals, Positive

LEMMA AcceptedOrder ==
    ASSUME NEW order \in OrderRecords, Consistent(order), order.phase = "sending"
    PROVE  Accepted(order) \in OrderRecords /\ Consistent(Accepted(order))
  <1>1. Accepted(order) \in OrderRecords
    BY Names DEF Accepted, OrderRecords
  <1>2. /\ Accepted(order).status = "ACCEPTED" /\ Accepted(order).phase = "queued"
        /\ Accepted(order).filled = order.filled
        /\ Accepted(order).signal = order.signal
    BY DEF Accepted, OrderRecords
  <1>3. QED
    BY <1>1, <1>2, OrderFields DEF Consistent

LEMMA RejectedOrder ==
    ASSUME NEW order \in OrderRecords, Consistent(order), order.phase = "queued"
    PROVE  Rejected(order) \in OrderRecords /\ Consistent(Rejected(order))
  <1>1. Rejected(order) \in OrderRecords
    BY Names DEF Rejected, OrderRecords
  <1>2. /\ Rejected(order).status = "REJECTED" /\ Rejected(order).phase = "done"
        /\ Rejected(order).filled = order.filled
        /\ Rejected(order).signal = order.signal
    BY DEF Rejected, OrderRecords
  <1>3. QED
    BY <1>1, <1>2, OrderFields DEF Consistent

LEMMA FillingOrder ==
    ASSUME NEW order \in OrderRecords, Consistent(order), order.phase = "queued",
           NEW price \in Int, NEW qty \in 1..order.signal.quantity
    PROVE  Filling(order, price, qty) \in OrderRecords
             /\ Consistent(Filling(order, price, qty))
  <1>1. qty \in Nat
    BY OrderFields
  <1>2. Filling(order, price, qty) \in OrderRecords
    BY <1>1, Names DEF Filling, OrderRecords
  <1>3. /\ Filling(order, price, qty).status = order.status
        /\ Filling(order, price, qty).phase = "filling"
        /\ Filling(order, price, qty).filled = order.filled
        /\ Filling(order, price, qty).fillQty = qty
        /\ Filling(order, price, qty).signal = order.signal
    BY DEF Filling, OrderRecords
  <1>4. QED
    BY <1>2, <1>3, OrderFields DEF Consistent

LEMMA CancelledOrder ==
    ASSUME NEW order \in OrderRecords, Consistent(order), CanCancel(order),
           order.phase # "sending"
    PROVE  /\ Cancelled(order) \in OrderRecords
           /\ Consistent(Cancelled(order))
           /\ Cancelled(order).phase = order.phase
           /\ Cancelled(order).filled = order.filled
           /\ Cancelled(order).signal = order.signal
           /\ Cancelled(order).fillPrice = order.fillPrice
  BY DEF Cancelled, CanCancel, OrderRecords, Statuses, Phases, Consistent, Signals,
     Positive

LEMMA FilledOrder ==
    ASSUME NEW order \in OrderRecords, Consistent(order), order.phase = "filling"
    PROVE  /\ AddFill(order) \in OrderRecords
           /\ Consistent(AddFill(order))
           /\ AddFill(order).phase = "done"
           /\ AddFill(order).filled = order.fillQty
           /\ AddFill(order).signal = order.signal
           /\ AddFill(order).fillPrice = order.fillPrice
  <1> DEFINE total == order.filled + order.fillQty
             status == IF total >= order.signal.quantity
                       THEN "FILLED" ELSE "PARTIALLY_FILLED"
  <1>1. total = order.fillQty /\ total \in 1..order.signal.quantity
    BY OrderFields DEF Consistent
  <1>2. total \in Nat /\ status \in Statuses
    BY <1>1, OrderFields, Names
  <1>3. AddFill(order) = [order EXCEPT !.phase = "done", !.filled = total,
                                       !.status = status]
    BY DEF AddFill
  <1>4. status = "FILLED" <=> total = order.signal.quantity
    BY <1>1, OrderFields
  <1>5. status \in {"FILLED", "PARTIALLY_FILLED"}
    OBVIOUS
  <1> HIDE DEF total, status
  <1>6. AddFill(order) \in OrderRecords
    BY <1>2, <1>3, Names DEF OrderRecords
  <1>7. /\ AddFill(order).phase = "done" /\ AddFill(order).filled = total
        /\ AddFill(order).status = status /\ AddFill(order).signal = order.signal
        /\ AddFill(order).fillPrice = order.fillPrice
        /\ AddFill(order).fillQty = order.fillQty
    BY <1>3 DEF OrderRecords
  <1>8. Consistent(AddFill(order))
    BY <1>1, <1>4, <1>5, <1>7, OrderFields DEF Consistent
  <1>9. QED
    BY <1>1, <1>6, <1>7, <1>8

LEMMA NewPositionType ==
    ASSUME NEW id \in OrderIds, NEW order \in OrderRecords, Consistent(order),
           order.phase = "filling"
    PROVE  NewPosition(id, order) \in PositionRecords
  BY DEF NewPosition, PositionRecords, OrderRecords, Consistent, Signals, Positive

-----------------------------------------------------------------------------
(***************************************************************************)
(* The inductive invariant.  An order must be consistent for its fill to   *)
(* make a well-formed position, a position must be traced to a finished    *)
(* order for later steps of other orders to leave it alone, and its symbol *)
(* must be priced, from the start of the fill on, for it to be closable.   *)
(***************************************************************************)
IInv == TypeOK /\ StatusMatchesFills /\ PositionBackedByFill /\ TradedSymbolsArePriced

\* The part of the invariant that speaks of orders, positions and prices.
BookOK ==
    /\ orders \in [OrderIds -> OrderRecords \cup {NoOrder}]
    /\ positions \in [Symbols -> PositionRecords \cup {NoPosition}]
    /\ lastPrice \in [Symbols -> Nat]
    /\ StatusMatchesFills
    /\ PositionBackedByFill
    /\ TradedSymbolsArePriced

\* The rest of it.
StateOK ==
    /\ running \in BOOLEAN
    /\ cash \in Int
    /\ closeTasks \in [Symbols -> Nat]
    /\ closing \subseteq Symbols
    /\ risk \in RiskRecords
    /\ ticks \in Nat

LEMMA InvSplit == IInv <=> BookOK /\ StateOK
  BY DEF IInv, BookOK, StateOK, TypeOK

LEMMA InvSplitNext == IInv' <=> BookOK' /\ StateOK'
  BY DEF IInv, BookOK, StateOK, TypeOK

LEMMA UsedOrder ==
    ASSUME BookOK, NEW o \in OrderIds
    PROVE  Used(o) <=> orders[o] \in OrderRecords /\ orders[o].phase = Phase(o)
  BY OrdersAssumption DEF BookOK, Used, Phase

LEMMA HeldPosition ==
    ASSUME BookOK, NEW s \in Symbols, HasPosition(s)
    PROVE  positions[s] \in PositionRecords /\ lastPrice[s] \in Nat \ {0}
  BY DEF BookOK, HasPosition, TradedSymbolsArePriced

\* A step that changes one order and keeps what a finished order has filled.
LEMMA ChangeOrder ==
    ASSUME BookOK, NEW o \in OrderIds, NEW new \in OrderRecords, Consistent(new),
           orders' = [orders EXCEPT ![o] = new],
           Used(o) /\ orders[o].phase = "done" =>
               /\ new.phase = "done"
               /\ new.signal = orders[o].signal
               /\ new.filled = orders[o].filled
               /\ new.fillPrice = orders[o].fillPrice,
           new.phase = "filling" => lastPrice[new.signal.symbol] # 0,
           UNCHANGED <<positions, lastPrice>>
    PROVE  BookOK'
  <1>1. orders' \in [OrderIds -> OrderRecords \cup {NoOrder}]
    BY DEF BookOK
  <1>2. StatusMatchesFills'
    BY OrdersAssumption DEF BookOK, StatusMatchesFills, Used
  <1>3. PositionBackedByFill'
    <2> SUFFICES ASSUME NEW s \in Symbols, HasPosition(s)'
                 PROVE  LET order == orders'[positions[s].order] IN
                        /\ order # NoOrder
                        /\ order.phase = "done"
                        /\ order.signal.symbol = s
                        /\ order.signal.side = positions[s].side
                        /\ order.filled = positions[s].quantity
                        /\ order.fillPrice = positions[s].entry
      BY DEF PositionBackedByFill, HasPosition, Used
    <2> DEFINE id == positions[s].order
    <2>1. HasPosition(s)
      BY DEF HasPosition
    <2>2. id \in OrderIds
      BY <2>1, HeldPosition DEF PositionRecords
    <2>3. /\ Used(id) /\ orders[id].phase = "done"
          /\ orders[id].signal.symbol = s
          /\ orders[id].signal.side = positions[s].side
          /\ orders[id].filled = positions[s].quantity
          /\ orders[id].fillPrice = positions[s].entry
      BY <2>1 DEF BookOK, PositionBackedByFill
    <2>4. CASE id = o
      BY <2>3, <2>4, OrdersAssumption DEF BookOK
    <2>5. CASE id # o
      BY <2>2, <2>3, <2>5 DEF BookOK, Used
    <2>6. QED
      BY <2>4, <2>5
  <1>4. TradedSymbolsArePriced'
    BY DEF BookOK, TradedSymbolsArePriced, HasPosition, Phase, Used
  <1>5. QED
    BY <1>1, <1>2, <1>3, <1>4 DEF BookOK

\* A step that takes a position off the book.
LEMMA DropPosition ==
    ASSUME BookOK, NEW s \in Symbols,
           positions' = [positions EXCEPT ![s] = NoPosition],
           UNCHANGED <<orders, lastPrice>>
    PROVE  BookOK'
  BY DEF BookOK, StatusMatchesFills, Used, PositionBackedByFill, HasPosition,
     TradedSymbolsArePriced, Phase

LEMMA SameBook ==
    ASSUME BookOK, UNCHANGED <<orders, positions, lastPrice>>
    PROVE  BookOK'
  BY DEF BookOK, StatusMatchesFills, Used, PositionBackedByFill, HasPosition,
     TradedSymbolsArePriced, Phase

-----------------------------------------------------------------------------
(* One lemma for each step that changes the book. *)

LEMMA TickKeeps ==
    ASSUME IInv, NEW s \in Symbols, NEW price \in Prices, MarketTick(s, price)
    PROVE  IInv'
  <1> USE InvSplit DEF StateOK
  <1>1. price \in Positive /\ price \in Int
    BY TradingAssumption DEF Positive
  <1>2. lastPrice' \in [Symbols -> Nat] /\ ticks' \in Nat
    <2>1. lastPrice' = [lastPrice EXCEPT ![s] = price] /\ ticks' = ticks + 1
      BY DEF MarketTick
    <2>2. QED
      BY <1>1, <2>1 DEF Positive, BookOK
  <1>3. CASE ~HasPosition(s)
    <2>1. UNCHANGED <<running, orders, positions, cash, closeTasks, closing, risk>>
      BY <1>3 DEF MarketTick
    <2>2. TradedSymbolsArePriced'
      BY <1>1, <2>1 DEF BookOK, TradedSymbolsArePriced, MarketTick, HasPosition,
         Positive, Phase, Used
    <2>3. BookOK'
      BY <1>2, <2>1, <2>2 DEF BookOK, StatusMatchesFills, Used, PositionBackedByFill,
         HasPosition
    <2>4. QED
      BY <1>2, <2>1, <2>3, InvSplitNext
  <1>4. CASE HasPosition(s)
    <2> DEFINE moved == [positions[s] EXCEPT !.price = price]
    <2>1. positions[s] \in PositionRecords
      BY <1>4, HeldPosition
    <2>2. /\ moved \in PositionRecords
          /\ moved.order = positions[s].order
          /\ moved.side = positions[s].side
          /\ moved.quantity = positions[s].quantity
          /\ moved.entry = positions[s].entry
      BY <1>1, <2>1 DEF PositionRecords
    <2>3. positions' = [positions EXCEPT ![s] = moved]
      BY <1>4 DEF MarketTick
    <2>4. closeTasks' \in [Symbols -> Nat] /\ risk' \in RiskRecords
      <3>1. closeTasks' \in [Symbols -> Nat]
        BY <1>4 DEF MarketTick
      <3>2. risk' = OnPositionOpened(risk)
        BY <1>4 DEF MarketTick
      <3>3. QED
        BY <3>1, <3>2, RiskTypes
    <2>5. positions' \in [Symbols -> PositionRecords \cup {NoPosition}]
      BY <2>2, <2>3 DEF BookOK
    <2>6. \A t \in Symbols : HasPosition(t)' <=> HasPosition(t)
      <3> HIDE DEF moved
      <3>1. QED
        BY <1>4, <2>2, <2>3, OrdersAssumption DEF HasPosition, BookOK
    <2>7. \A t \in Symbols : HasPosition(t) =>
            /\ positions'[t].order = positions[t].order
            /\ positions'[t].side = positions[t].side
            /\ positions'[t].quantity = positions[t].quantity
            /\ positions'[t].entry = positions[t].entry
      <3> HIDE DEF moved
      <3>1. QED
        BY <2>2, <2>3 DEF BookOK
    <2>8. UNCHANGED <<running, orders, cash, closing>>
      BY DEF MarketTick
    <2>9. StatusMatchesFills'
      BY <2>8 DEF BookOK, StatusMatchesFills, Used
    <2>10. PositionBackedByFill'
      BY <2>6, <2>7, <2>8 DEF BookOK, PositionBackedByFill, Used
    <2>11. TradedSymbolsArePriced'
      BY <1>1, <2>6, <2>8 DEF BookOK, TradedSymbolsArePriced, MarketTick, Positive,
         Phase, Used
    <2>12. BookOK'
      BY <1>2, <2>5, <2>8, <2>9, <2>10, <2>11 DEF BookOK
    <2>13. QED
      BY <1>2, <2>4, <2>8, <2>12, InvSplitNext
  <1>5. QED
    BY <1>3, <1>4

\* The closing of a position at a price, whoever asks for it.
LEMMA CloseKeeps ==
    ASSUME IInv, NEW s \in Symbols, HasPosition(s), NEW exit \in Int,
           ClosePosition(s, exit)
    PROVE  /\ positions' = [positions EXCEPT ![s] = NoPosition]
           /\ cash' \in Int
           /\ risk' \in RiskRecords
  <1>1. RealizedPnl(positions[s], exit) \in Int
    BY InvSplit, HeldPosition, PnlType
  <1> DEFINE pnl == RealizedPnl(positions[s], exit)
  <1>2. /\ positions' = [positions EXCEPT ![s] = NoPosition]
        /\ cash' = cash + pnl
        /\ risk' = OnPositionClosed(risk, pnl)
    BY DEF ClosePosition
  <1>3. pnl \in Int /\ cash \in Int /\ risk \in RiskRecords
    BY <1>1, InvSplit DEF StateOK
  <1> HIDE DEF pnl
  <1>4. QED
    BY <1>2, <1>3, RiskTypes

LEMMA CloseTaskKeeps ==
    ASSUME IInv, NEW s \in Symbols, RunCloseTask(s)
    PROVE  IInv'
  <1> USE InvSplit DEF StateOK
  <1>1. closeTasks' \in [Symbols -> Nat]
    BY DEF RunCloseTask
  <1>2. UNCHANGED <<running, orders, lastPrice, closing, ticks>>
    BY DEF RunCloseTask
  <1>3. CASE HasPosition(s) /\ lastPrice[s] # 0
    <2>1. ClosePosition(s, lastPrice[s]) /\ lastPrice[s] \in Int
      BY <1>3 DEF RunCloseTask, BookOK
    <2>2. QED
      <3>1. /\ positions' = [positions EXCEPT ![s] = NoPosition]
            /\ cash' \in Int /\ risk' \in RiskRecords
        BY <1>3, <2>1, CloseKeeps
      <3>2. BookOK'
        BY <1>2, <3>1, DropPosition
      <3>3. QED
        BY <1>1, <1>2, <3>1, <3>2, InvSplitNext
  <1>4. CASE ~(HasPosition(s) /\ lastPrice[s] # 0)
    <2>1. UNCHANGED <<positions, cash, risk>>
      BY <1>4 DEF RunCloseTask
    <2>2. QED
      BY <1>1, <1>2, <2>1, SameBook, InvSplitNext
  <1>5. QED
    BY <1>3, <1>4

LEMMA EngineCloseKeeps ==
    ASSUME IInv, NEW s \in Symbols, EngineClose(s), UNCHANGED <<orders, lastPrice>>
    PROVE  BookOK' /\ cash' \in Int /\ risk' \in RiskRecords
  <1> USE InvSplit DEF StateOK
  <1>1. HasPosition(s) /\ lastPrice[s] # 0 /\ lastPrice[s] \in Int
    BY HeldPosition DEF EngineClose
  <1> DEFINE pnl == RealizedPnl(positions[s], lastPrice[s])
  <1>2. pnl \in Int
    BY <1>1, HeldPosition, PnlType
  <1>3. /\ positions' = [positions EXCEPT ![s] = NoPosition]
        /\ cash' = cash + pnl
        /\ risk' = OnPositionClosed(OnPositionClosed(risk, pnl), pnl)
    BY <1>1 DEF EngineClose
  <1> HIDE DEF pnl
  <1>4. OnPositionClosed(risk, pnl) \in RiskRecords
    BY <1>2, RiskTypes
  <1>5. risk' \in RiskRecords /\ cash' \in Int
    BY <1>2, <1>3, <1>4, RiskTypes
  <1>6. BookOK'
    BY <1>3, DropPosition
  <1>7. QED
    BY <1>5, <1>6

\* Steps that leave the book alone and change only a flag or a counter.
LEMMA SideKeeps ==
    ASSUME IInv, UNCHANGED <<orders, positions, lastPrice, cash, closeTasks, ticks>>,
           running' \in BOOLEAN, closing' \subseteq Symbols, risk' \in RiskRecords
    PROVE  IInv'
  <1>1. BookOK'
    BY InvSplit, SameBook
  <1>2. StateOK'
    BY InvSplit DEF StateOK
  <1>3. QED
    BY <1>1, <1>2, InvSplitNext

\* Steps that change one order and nothing else the invariant speaks of.
LEMMA OrderStepKeeps ==
    ASSUME IInv, NEW o \in OrderIds, NEW new \in OrderRecords, Consistent(new),
           orders' = [orders EXCEPT ![o] = new],
           Used(o) /\ orders[o].phase = "done" =>
               /\ new.phase = "done"
               /\ new.signal = orders[o].signal
               /\ new.filled = orders[o].filled
               /\ new.fillPrice = orders[o].fillPrice,
           new.phase = "filling" => lastPrice[new.signal.symbol] # 0,
           UNCHANGED <<running, positions, lastPrice, cash, closeTasks, closing, ticks>>,
           risk' \in RiskRecords
    PROVE  IInv'
  <1>1. BookOK'
    BY InvSplit, ChangeOrder
  <1>2. StateOK'
    BY InvSplit DEF StateOK
  <1>3. QED
    BY <1>1, <1>2, InvSplitNext

LEMMA ExecuteSignalKeeps ==
    ASSUME IInv, NEW o \in OrderIds, NEW sig \in SignalSet, ExecuteSignal(o, sig)
    PROVE  IInv'
  <1>1. UNCHANGED <<running, positions, lastPrice, cash, closeTasks, closing, ticks>>
    BY DEF ExecuteSignal
  <1>2. risk \in RiskRecords /\ running \in BOOLEAN /\ closing \subseteq Symbols
    BY InvSplit DEF StateOK
  <1>3. TriggerKillSwitch(risk) \in RiskRecords /\ RecordOrder(risk) \in RiskRecords
    <2>1. 0 \in Int
      OBVIOUS
    <2>2. QED
      BY <1>2, <2>1, RiskTypes
  <1>4. CASE RejectOnDailyLoss \/ RejectOnDrawdown(sig)
    <2>1. UNCHANGED orders /\ risk' = TriggerKillSwitch(risk)
      BY <1>4 DEF RejectOnDailyLoss, RejectOnDrawdown
    <2>2. QED
      BY <1>1, <1>2, <1>3, <2>1, SideKeeps
  <1>5. CASE AcceptSignal(o, sig)
    <2>1. /\ risk' = RecordOrder(risk) /\ ~Used(o)
          /\ orders' = [orders EXCEPT ![o] = NewOrder(sig)]
      BY <1>5 DEF AcceptSignal
    <2>2. sig \in Signals
      BY TradingAssumption
    <2>3. NewOrder(sig) \in OrderRecords /\ Consistent(NewOrder(sig))
      BY <2>2, NewOrderType, NewOrderConsistent
    <2>4. NewOrder(sig).phase = "sending"
      BY DEF NewOrder
    <2>5. QED
      BY <1>1, <1>3, <2>1, <2>3, <2>4, OrderStepKeeps
  <1>6. QED
    BY <1>4, <1>5 DEF ExecuteSignal

\* What the phase of an order says of its record.
LEMMA PhaseOf ==
    ASSUME IInv, NEW o \in OrderIds, Phase(o) # "unused"
    PROVE  /\ Used(o)
           /\ orders[o] \in OrderRecords
           /\ orders[o].phase = Phase(o)
           /\ Consistent(orders[o])
           /\ risk \in RiskRecords
  <1>1. Used(o)
    BY DEF Phase
  <1>2. QED
    BY <1>1, InvSplit, UsedOrder DEF BookOK, StatusMatchesFills, StateOK

LEMMA SubmitKeeps ==
    ASSUME IInv, NEW o \in OrderIds, SubmitOrder(o)
    PROVE  IInv'
  <1>1. Phase(o) = "sending"
    BY DEF SubmitOrder
  <1>2. /\ orders[o] \in OrderRecords /\ Consistent(orders[o])
        /\ orders[o].phase = "sending" /\ risk \in RiskRecords
    BY <1>1, PhaseOf
  <1>3. Accepted(orders[o]) \in OrderRecords /\ Consistent(Accepted(orders[o]))
    BY <1>2, AcceptedOrder
  <1>4. orders' = [orders EXCEPT ![o] = Accepted(orders[o])]
    BY DEF SubmitOrder
  <1>5. UNCHANGED <<running, positions, lastPrice, cash, closeTasks, closing, ticks, risk>>
    BY DEF SubmitOrder
  <1>6. Accepted(orders[o]).phase = "queued"
    BY <1>2 DEF Accepted, OrderRecords
  <1>7. QED
    BY <1>2, <1>3, <1>4, <1>5, <1>6, OrderStepKeeps

LEMMA RejectKeeps ==
    ASSUME IInv, NEW o \in OrderIds, RejectOrder(o)
    PROVE  IInv'
  <1>1. Phase(o) = "queued"
    BY DEF RejectOrder
  <1>2. /\ orders[o] \in OrderRecords /\ Consistent(orders[o])
        /\ orders[o].phase = "queued" /\ risk \in RiskRecords
    BY <1>1, PhaseOf
  <1>3. Rejected(orders[o]) \in OrderRecords /\ Consistent(Rejected(orders[o]))
    BY <1>2, RejectedOrder
  <1>4. orders' = [orders EXCEPT ![o] = Rejected(orders[o])]
    BY DEF RejectOrder
  <1>5. UNCHANGED <<running, positions, lastPrice, cash, closeTasks, closing, ticks, risk>>
    BY DEF RejectOrder
  <1>6. Rejected(orders[o]).phase = "done"
    BY <1>2 DEF Rejected, OrderRecords
  <1>7. QED
    BY <1>2, <1>3, <1>4, <1>5, <1>6, OrderStepKeeps

LEMMA StartFillKeeps ==
    ASSUME IInv, NEW o \in OrderIds, StartFill(o)
    PROVE  IInv'
  <1>1. Phase(o) = "queued"
    BY DEF StartFill
  <1>2. /\ orders[o] \in OrderRecords /\ Consistent(orders[o])
        /\ orders[o].phase = "queued" /\ risk \in RiskRecords
    BY <1>1, PhaseOf
  <1> DEFINE side == orders[o].signal.side
             price == FillPrice(side, lastPrice[orders[o].signal.symbol])
  <1>3. price \in Int
    <2>1. side \in Sides /\ orders[o].signal.symbol \in Symbols
      BY <1>2, OrderFields
    <2>2. lastPrice[orders[o].signal.symbol] \in Nat
      BY <2>1, InvSplit DEF BookOK
    <2>3. QED
      BY <2>1, <2>2, FillPriceType
  <1>4. PICK qty \in 1..orders[o].signal.quantity :
            orders' = [orders EXCEPT ![o] = Filling(orders[o], price, qty)]
    BY DEF StartFill
  <1> HIDE DEF price, side
  <1>5. /\ Filling(orders[o], price, qty) \in OrderRecords
        /\ Consistent(Filling(orders[o], price, qty))
    BY <1>2, <1>3, FillingOrder
  <1>6. UNCHANGED <<running, positions, lastPrice, cash, closeTasks, closing, ticks, risk>>
    BY DEF StartFill
  <1>7. /\ lastPrice[orders[o].signal.symbol] # 0
        /\ Filling(orders[o], price, qty).signal = orders[o].signal
    BY <1>2 DEF StartFill, Filling, OrderRecords
  <1>8. QED
    BY <1>2, <1>4, <1>5, <1>6, <1>7, OrderStepKeeps

LEMMA CancelKeeps ==
    ASSUME IInv, NEW o \in OrderIds, CancelOrder(o)
    PROVE  IInv'
  <1>1. Phase(o) \in {"queued", "filling", "done"} /\ CanCancel(orders[o])
    BY DEF CancelOrder
  <1>2. /\ orders[o] \in OrderRecords /\ Consistent(orders[o])
        /\ orders[o].phase # "sending" /\ risk \in RiskRecords
    BY <1>1, PhaseOf
  <1> DEFINE new == Cancelled(orders[o])
  <1>3. /\ new \in OrderRecords /\ Consistent(new)
        /\ new.phase = orders[o].phase /\ new.signal = orders[o].signal
        /\ new.filled = orders[o].filled /\ new.fillPrice = orders[o].fillPrice
    BY <1>1, <1>2, CancelledOrder
  <1>4. orders' = [orders EXCEPT ![o] = new]
    BY DEF CancelOrder
  <1>5. UNCHANGED <<running, positions, lastPrice, cash, closeTasks, closing, ticks, risk>>
    BY DEF CancelOrder
  <1>6. new.phase = "filling" => lastPrice[new.signal.symbol] # 0
    BY <1>2, <1>3, PhaseOf, InvSplit DEF BookOK, TradedSymbolsArePriced, CancelOrder
  <1> HIDE DEF new
  <1>7. QED
    BY <1>2, <1>3, <1>4, <1>5, <1>6, OrderStepKeeps

\* What a fill does to the orders: o has filled what its task had chosen, and
\* the orders that back positions, which have ended, stay as they are.
LEMMA FillOrders ==
    ASSUME IInv, NEW o \in OrderIds, ApplyFill(o)
    PROVE  /\ Used(o) /\ orders[o] \in OrderRecords
           /\ Consistent(orders[o]) /\ orders[o].phase = "filling"
           /\ orders' = [orders EXCEPT ![o] = AddFill(orders[o])]
           /\ orders' \in [OrderIds -> OrderRecords \cup {NoOrder}]
           /\ StatusMatchesFills'
           /\ \A s \in Symbols : HasPosition(s) =>
                 positions[s].order \in OrderIds /\ positions[s].order # o
  <1>1. /\ Used(o) /\ orders[o] \in OrderRecords
        /\ Consistent(orders[o]) /\ orders[o].phase = "filling"
    BY PhaseOf DEF ApplyFill
  <1>2. AddFill(orders[o]) \in OrderRecords /\ Consistent(AddFill(orders[o]))
    BY <1>1, FilledOrder
  <1>3. orders' = [orders EXCEPT ![o] = AddFill(orders[o])]
    BY DEF ApplyFill
  <1>4. orders' \in [OrderIds -> OrderRecords \cup {NoOrder}]
    BY <1>2, <1>3, InvSplit DEF BookOK
  <1>5. StatusMatchesFills'
    BY <1>2, <1>3, InvSplit, OrdersAssumption DEF BookOK, StatusMatchesFills, Used
  <1>6. ASSUME NEW s \in Symbols, HasPosition(s)
        PROVE  positions[s].order \in OrderIds /\ positions[s].order # o
    <2>1. positions[s].order \in OrderIds
      BY <1>6, InvSplit, HeldPosition DEF PositionRecords
    <2>2. orders[positions[s].order].phase = "done"
      BY <1>6, InvSplit DEF BookOK, PositionBackedByFill
    <2>3. QED
      BY <1>1, <2>1, <2>2
  <1>7. QED
    BY <1>1, <1>3, <1>4, <1>5, <1>6

\* A fill in progress elsewhere keeps its price.
LEMMA FillPrices ==
    ASSUME IInv, NEW o \in OrderIds, ApplyFill(o)
    PROVE  \A q \in OrderIds :
              Phase(q)' = "filling" => lastPrice'[orders'[q].signal.symbol] # 0
  <1>1. orders' = [orders EXCEPT ![o] = AddFill(orders[o])]
    BY FillOrders
  <1>2. AddFill(orders[o]).phase = "done"
    BY FillOrders, FilledOrder
  <1>3. BookOK /\ UNCHANGED lastPrice
    BY InvSplit DEF ApplyFill
  <1>4. QED
    BY <1>1, <1>2, <1>3 DEF BookOK, TradedSymbolsArePriced, Phase, Used

\* A fill that leaves the positions alone or takes one off the book.
LEMMA FillKeepsBook ==
    ASSUME IInv, NEW o \in OrderIds, ApplyFill(o), NEW s \in Symbols,
           \/ UNCHANGED positions
           \/ positions' = [positions EXCEPT ![s] = NoPosition]
    PROVE  BookOK'
  <1>1. BookOK /\ UNCHANGED lastPrice
    BY InvSplit DEF ApplyFill
  <1>2. positions' \in [Symbols -> PositionRecords \cup {NoPosition}]
    BY <1>1 DEF BookOK
  <1>3. \A t \in Symbols : HasPosition(t)' => HasPosition(t) /\ positions'[t] = positions[t]
    BY <1>1 DEF BookOK, HasPosition
  <1>4. PositionBackedByFill'
    <2> SUFFICES ASSUME NEW t \in Symbols, HasPosition(t)'
                 PROVE  LET position == positions[t]
                            order == orders'[position.order]
                        IN  /\ order # NoOrder
                            /\ order.phase = "done"
                            /\ order.signal.symbol = t
                            /\ order.signal.side = position.side
                            /\ order.filled = position.quantity
                            /\ order.fillPrice = position.entry
      BY <1>3 DEF PositionBackedByFill, Used
    <2>1. HasPosition(t)
      BY <1>3
    <2>2. orders'[positions[t].order] = orders[positions[t].order]
      BY <1>1, <2>1, FillOrders DEF BookOK
    <2>3. QED
      BY <1>1, <2>1, <2>2 DEF BookOK, PositionBackedByFill, Used
  <1>5. TradedSymbolsArePriced'
    BY <1>1, <1>3, FillPrices DEF TradedSymbolsArePriced, BookOK
  <1>6. QED
    BY <1>1, <1>2, <1>4, <1>5, FillOrders DEF BookOK

\* A fill that opens a position.
LEMMA FillOpensBook ==
    ASSUME IInv, NEW o \in OrderIds, ApplyFill(o),
           NEW s \in Symbols, s = orders[o].signal.symbol,
           lastPrice[s] # 0, ~HasPosition(s),
           positions' = [positions EXCEPT ![s] = NewPosition(o, orders[o])]
    PROVE  BookOK'
  <1> DEFINE order == orders[o]
             new == NewPosition(o, order)
  <1>1. BookOK /\ UNCHANGED lastPrice
    BY InvSplit DEF ApplyFill
  <1>2. new \in PositionRecords
    BY FillOrders, NewPositionType
  <1>3. /\ new.order = o /\ new.side = order.signal.side
        /\ new.quantity = order.fillQty /\ new.entry = order.fillPrice
    BY DEF NewPosition
  <1>4. /\ AddFill(order).phase = "done" /\ AddFill(order).filled = order.fillQty
        /\ AddFill(order).signal = order.signal
        /\ AddFill(order).fillPrice = order.fillPrice
        /\ AddFill(order) \in OrderRecords
    BY FillOrders, FilledOrder
  <1>5. orders' = [orders EXCEPT ![o] = AddFill(order)]
    BY FillOrders
  <1>6. positions' = [positions EXCEPT ![s] = new]
    OBVIOUS
  <1>7. order.signal.symbol = s
    OBVIOUS
  <1> HIDE DEF new, order
  <1>8. positions' \in [Symbols -> PositionRecords \cup {NoPosition}]
    BY <1>1, <1>2, <1>6 DEF BookOK
  <1>9. PositionBackedByFill'
    <2> SUFFICES ASSUME NEW t \in Symbols, HasPosition(t)'
                 PROVE  LET position == positions'[t]
                            backing == orders'[position.order]
                        IN  /\ backing # NoOrder
                            /\ backing.phase = "done"
                            /\ backing.signal.symbol = t
                            /\ backing.signal.side = position.side
                            /\ backing.filled = position.quantity
                            /\ backing.fillPrice = position.entry
      BY DEF PositionBackedByFill, Used
    <2>1. CASE t = s
      <3>1. positions'[t] = new /\ orders'[new.order] = AddFill(order)
        BY <1>1, <1>3, <1>5, <1>6, <2>1 DEF BookOK
      <3>2. QED
        BY <1>3, <1>4, <1>7, <2>1, <3>1, OrdersAssumption
    <2>2. CASE t # s
      <3>1. HasPosition(t) /\ positions'[t] = positions[t]
        BY <1>1, <1>6, <2>2 DEF BookOK, HasPosition
      <3>2. orders'[positions[t].order] = orders[positions[t].order]
        BY <1>1, <1>5, <3>1, FillOrders DEF BookOK
      <3>3. QED
        BY <1>1, <3>1, <3>2 DEF BookOK, PositionBackedByFill, Used
    <2>3. QED
      BY <2>1, <2>2
  <1>10. TradedSymbolsArePriced'
    BY <1>1, <1>6, FillPrices DEF BookOK, TradedSymbolsArePriced, HasPosition
  <1>11. QED
    BY <1>1, <1>8, <1>9, <1>10, FillOrders DEF BookOK

LEMMA ApplyFillKeeps ==
    ASSUME IInv, NEW o \in OrderIds, ApplyFill(o)
    PROVE  IInv'
  <1> DEFINE s == orders[o].signal.symbol
  <1>1. UNCHANGED <<running, lastPrice, closeTasks, closing, ticks>>
    BY DEF ApplyFill
  <1>2. s \in Symbols /\ orders[o].fillPrice \in Int
    BY FillOrders, OrderFields
  <1>3. cash \in Int /\ risk \in RiskRecords
    BY InvSplit DEF StateOK
  <1>4. UpdatePosition(o)
    BY DEF ApplyFill
  <1>5. BookOK' /\ cash' \in Int /\ risk' \in RiskRecords
    <2>1. CASE ~HasPosition(s)
      <3>1. /\ positions' = [positions EXCEPT ![s] = NewPosition(o, orders[o])]
            /\ risk' = OnPositionOpened(risk)
            /\ UNCHANGED cash
        BY <1>4, <2>1 DEF UpdatePosition
      <3>2. lastPrice[s] # 0
        BY InvSplit DEF BookOK, TradedSymbolsArePriced, ApplyFill
      <3>3. risk' \in RiskRecords
        BY <1>3, <3>1, RiskTypes, 0 \in Int
      <3>4. BookOK'
        BY <1>2, <2>1, <3>1, <3>2, FillOpensBook
      <3>5. QED
        BY <1>3, <3>1, <3>3, <3>4
    <2>2. CASE HasPosition(s) /\ UNCHANGED <<positions, cash, risk>>
      BY <1>2, <1>3, <2>2, FillKeepsBook
    <2>3. CASE HasPosition(s) /\ ClosePosition(s, orders[o].fillPrice)
      <3>1. /\ positions' = [positions EXCEPT ![s] = NoPosition]
            /\ cash' \in Int /\ risk' \in RiskRecords
        BY <1>2, <2>3, CloseKeeps
      <3>2. QED
        BY <1>2, <3>1, FillKeepsBook
    <2>4. QED
      BY <1>4, <2>1, <2>2, <2>3 DEF UpdatePosition
  <1>6. StateOK'
    BY <1>1, <1>5, InvSplit DEF StateOK
  <1>7. QED
    BY <1>5, <1>6, InvSplitNext

\* The two ways the API closes positions.
LEMMA ClosingKeeps ==
    ASSUME IInv, NEW s \in Symbols, ClosePositionCall(s) \/ CloseNext(s)
    PROVE  IInv'
  <1>1. /\ EngineClose(s)
        /\ UNCHANGED <<running, orders, lastPrice, closeTasks, ticks>>
        /\ closing' \subseteq closing
    BY DEF ClosePositionCall, CloseNext
  <1>2. BookOK' /\ cash' \in Int /\ risk' \in RiskRecords
    BY <1>1, EngineCloseKeeps
  <1>3. StateOK'
    BY <1>1, <1>2, InvSplit DEF StateOK
  <1>4. QED
    BY <1>2, <1>3, InvSplitNext

-----------------------------------------------------------------------------
(* The invariant is inductive. *)

LEMMA IInvInit == Init => IInv
  <1> SUFFICES ASSUME Init PROVE IInv
    OBVIOUS
  <1>1. InitialRisk \in RiskRecords
    <2> DEFINE zero == 0
    <2>1. InitialRisk = [killSwitch |-> FALSE, cooldown |-> FALSE, dailyPnl |-> zero,
                         dailyTrades |-> zero, dailyOrders |-> zero,
                         openPositions |-> zero, consecutiveLosses |-> zero]
      BY DEF InitialRisk
    <2>2. zero \in Nat /\ zero \in Int
      OBVIOUS
    <2> HIDE DEF zero
    <2>3. QED
      BY <2>1, <2>2 DEF RiskRecords
  <1>2. TypeOK
    BY <1>1, TradingAssumption DEF Init, TypeOK
  <1>3. StatusMatchesFills /\ PositionBackedByFill /\ TradedSymbolsArePriced
    BY DEF Init, StatusMatchesFills, PositionBackedByFill, TradedSymbolsArePriced,
       HasPosition, Phase, Used
  <1>4. QED
    BY <1>2, <1>3 DEF IInv

LEMMA IInvStep == IInv /\ [Next]_vars => IInv'
  <1> SUFFICES ASSUME IInv, [Next]_vars PROVE IInv'
    OBVIOUS
  <1>1. /\ risk \in RiskRecords /\ running \in BOOLEAN /\ closing \subseteq Symbols
    BY InvSplit DEF StateOK
  <1>2. ASSUME Start \/ Stop \/ CloseAllCall
        PROVE  IInv'
    BY <1>1, <1>2, SideKeeps DEF Start, Stop, CloseAllCall, OpenSymbols
  <1>3. ASSUME CooldownElapses \/ ResetKillSwitch \/ ResetDailyStats
        PROVE  IInv'
    <2>1. risk' \in RiskRecords
      BY <1>1, <1>3, RiskTypes, 0 \in Int
         DEF CooldownElapses, ResetKillSwitch, ResetDailyStats
    <2>2. UNCHANGED <<running, orders, positions, lastPrice, cash, closeTasks,
                      closing, ticks>>
      BY <1>3 DEF CooldownElapses, ResetKillSwitch, ResetDailyStats
    <2>3. QED
      BY <1>1, <2>1, <2>2, SideKeeps
  <1>4. ASSUME NEW o \in OrderIds, NEW sig \in SignalSet, ExecuteSignal(o, sig)
        PROVE  IInv'
    BY <1>4, ExecuteSignalKeeps
  <1>5. ASSUME NEW o \in OrderIds, OrderTask(o)
        PROVE  IInv'
    BY <1>5, SubmitKeeps, RejectKeeps, StartFillKeeps, ApplyFillKeeps DEF OrderTask
  <1>6. ASSUME NEW s \in Symbols, NEW price \in Prices, MarketTick(s, price)
        PROVE  IInv'
    BY <1>6, TickKeeps
  <1>7. ASSUME NEW s \in Symbols, RunCloseTask(s)
        PROVE  IInv'
    BY <1>7, CloseTaskKeeps
  <1>8. ASSUME NEW s \in Symbols, ClosePositionCall(s) \/ CloseNext(s)
        PROVE  IInv'
    BY <1>8, ClosingKeeps
  <1>9. ASSUME NEW o \in OrderIds, CancelOrder(o)
        PROVE  IInv'
    BY <1>9, CancelKeeps
  <1>10. ASSUME UNCHANGED vars
         PROVE  IInv'
    BY <1>1, <1>10, SideKeeps DEF vars
  <1>11. QED
    BY <1>2, <1>3, <1>4, <1>5, <1>6, <1>7, <1>8, <1>9, <1>10
       DEF Next, BotNext, OperatorNext

LEMMA Inductive == Spec => []IInv
  BY IInvInit, IInvStep, PTL DEF Spec

-----------------------------------------------------------------------------
(* What follows for every behaviour of the system. *)

\* Orders, positions, balance, scheduled closes and the risk state always have
\* the types the classes of execution/ and risk/ declare.
THEOREM TypeCorrect == Spec => []TypeOK
  <1>1. IInv => TypeOK
    BY DEF IInv
  <1>2. QED
    BY <1>1, Inductive, PTL

\* However cancellations, rejections and fill tasks interleave, the status of an
\* order and the quantity it has filled agree.
THEOREM StatusAgrees == Spec => []StatusMatchesFills
  <1>1. IInv => StatusMatchesFills
    BY DEF IInv
  <1>2. QED
    BY <1>1, Inductive, PTL

\* Every open position is the fill of one finished order.
THEOREM PositionsBacked == Spec => []PositionBackedByFill
  <1>1. IInv => PositionBackedByFill
    BY DEF IInv
  <1>2. QED
    BY <1>1, Inductive, PTL

\* A position can always be closed at a price.
THEOREM PositionsPriced == Spec => []TradedSymbolsArePriced
  <1>1. IInv => TradedSymbolsArePriced
    BY DEF IInv
  <1>2. QED
    BY <1>1, Inductive, PTL

\* Nothing changes the status or the filled quantity of an order that is FILLED
\* or REJECTED: only a finished fill task or can_cancel could, and neither does.
THEOREM FinalStatus == Spec => FinalStatusIsFinal
  <1> DEFINE Keeps(o) == Used(o) /\ orders[o].status \in {"FILLED", "REJECTED"} =>
                            /\ orders'[o].status = orders[o].status
                            /\ orders'[o].filled = orders[o].filled
  <1>1. ASSUME IInv, [Next]_vars, NEW o \in OrderIds
        PROVE  Keeps(o)
    <2> SUFFICES ASSUME Used(o), orders[o].status \in {"FILLED", "REJECTED"}
                 PROVE  orders'[o] = orders[o]
      OBVIOUS
    <2>1. /\ orders \in [OrderIds -> OrderRecords \cup {NoOrder}]
          /\ orders[o] \in OrderRecords /\ Consistent(orders[o])
          /\ Phase(o) = orders[o].phase
      BY <1>1, InvSplit, UsedOrder DEF BookOK, StatusMatchesFills
    <2>2. Phase(o) = "done"
      BY <2>1 DEF Consistent, OrderRecords, Phases
    <2>3. ~CanCancel(orders[o])
      BY DEF CanCancel
    <2>4. ASSUME NEW q \in OrderIds, CancelOrder(q) \/ OrderTask(q)
          PROVE  orders'[o] = orders[o]
      <3>1. q # o
        BY <2>2, <2>3, <2>4
           DEF CancelOrder, OrderTask, SubmitOrder, RejectOrder, StartFill, ApplyFill
      <3>2. \E new : orders' = [orders EXCEPT ![q] = new]
        BY <2>4 DEF CancelOrder, OrderTask, SubmitOrder, RejectOrder, StartFill, ApplyFill
      <3>3. QED
        BY <2>1, <3>1, <3>2
    <2>5. ASSUME NEW q \in OrderIds, NEW sig \in SignalSet, ExecuteSignal(q, sig)
          PROVE  orders'[o] = orders[o]
      BY <2>1, <2>5 DEF ExecuteSignal, RejectOnDailyLoss, RejectOnDrawdown, AcceptSignal
    <2>6. QED
      BY <1>1, <2>4, <2>5
         DEF Next, BotNext, OperatorNext, Start, Stop, MarketTick, RunCloseTask,
             CooldownElapses, ClosePositionCall, CloseAllCall, CloseNext,
             ResetKillSwitch, ResetDailyStats, vars
  <1>2. IInv /\ [Next]_vars => \A o \in OrderIds : Keeps(o)
    BY <1>1
  <1>3. QED
    BY <1>2, Inductive, PTL DEF Spec, FinalStatusIsFinal

-----------------------------------------------------------------------------
(* Without API calls: what the risk manager knows of the book. *)

LEMMA BotInductive == BotSpec => []IInv
  <1>1. BotNext => Next
    BY DEF Next
  <1>2. IInv /\ [BotNext]_vars => IInv'
    BY <1>1, IInvStep
  <1>3. QED
    BY <1>2, IInvInit, PTL DEF BotSpec

\* How the updates move the two counters of the risk state.
LEMMA RiskCounters ==
    ASSUME NEW r \in RiskRecords, NEW pnl \in Int
    PROVE  /\ OnPositionClosed(r, pnl).dailyPnl = r.dailyPnl + pnl
           /\ OnPositionClosed(r, pnl).openPositions
                = (IF r.openPositions > 0 THEN r.openPositions - 1 ELSE 0)
           /\ OnPositionOpened(r).dailyPnl = r.dailyPnl
           /\ OnPositionOpened(r).openPositions = r.openPositions + 1
           /\ TriggerKillSwitch(r).dailyPnl = r.dailyPnl
           /\ TriggerKillSwitch(r).openPositions = r.openPositions
           /\ RecordOrder(r).dailyPnl = r.dailyPnl
           /\ RecordOrder(r).openPositions = r.openPositions
           /\ CooldownOver(r).dailyPnl = r.dailyPnl
           /\ CooldownOver(r).openPositions = r.openPositions
  <1>1. OnPositionClosed(r, pnl).dailyPnl = r.dailyPnl + pnl
    BY DEF OnPositionClosed, RecordTrade, RiskRecords
  <1>2. OnPositionClosed(r, pnl).openPositions
          = (IF r.openPositions > 0 THEN r.openPositions - 1 ELSE 0)
    BY DEF OnPositionClosed, RecordTrade, RiskRecords
  <1>3. /\ OnPositionOpened(r).dailyPnl = r.dailyPnl
        /\ OnPositionOpened(r).openPositions = r.openPositions + 1
    BY DEF OnPositionOpened, RiskRecords
  <1>4. /\ TriggerKillSwitch(r).dailyPnl = r.dailyPnl
        /\ TriggerKillSwitch(r).openPositions = r.openPositions
    BY DEF TriggerKillSwitch, RiskRecords
  <1>5. /\ RecordOrder(r).dailyPnl = r.dailyPnl
        /\ RecordOrder(r).openPositions = r.openPositions
    BY DEF RecordOrder, RiskRecords
  <1>6. /\ CooldownOver(r).dailyPnl = r.dailyPnl
        /\ CooldownOver(r).openPositions = r.openPositions
    BY DEF CooldownOver, RiskRecords
  <1>7. QED
    BY <1>1, <1>2, <1>3, <1>4, <1>5, <1>6

\* Every step without an API call is one of four kinds as far as positions, cash
\* and the risk manager's counters go.
LEMMA BotStepKinds ==
    ASSUME IInv, [BotNext]_vars
    PROVE  \/ UNCHANGED <<cash, risk.dailyPnl, risk.openPositions, OpenSymbols>>
           \/ /\ UNCHANGED <<cash, OpenSymbols>>
              /\ risk' = OnPositionOpened(risk)
           \/ \E s \in Symbols \ OpenSymbols :
                 /\ UNCHANGED cash
                 /\ OpenSymbols' = OpenSymbols \cup {s}
                 /\ risk' = OnPositionOpened(risk)
           \/ \E s \in OpenSymbols, pnl \in Int :
                 /\ cash' = cash + pnl
                 /\ OpenSymbols' = OpenSymbols \ {s}
                 /\ risk' = OnPositionClosed(risk, pnl)
  <1> DEFINE Quiet == UNCHANGED <<cash, risk.dailyPnl, risk.openPositions, OpenSymbols>>
             Tick == UNCHANGED <<cash, OpenSymbols>> /\ risk' = OnPositionOpened(risk)
             Opens == \E s \in Symbols \ OpenSymbols :
                         /\ UNCHANGED cash
                         /\ OpenSymbols' = OpenSymbols \cup {s}
                         /\ risk' = OnPositionOpened(risk)
             Closes == \E s \in OpenSymbols, pnl \in Int :
                         /\ cash' = cash + pnl
                         /\ OpenSymbols' = OpenSymbols \ {s}
                         /\ risk' = OnPositionClosed(risk, pnl)
  <1>1. /\ risk \in RiskRecords /\ cash \in Int
        /\ positions \in [Symbols -> PositionRecords \cup {NoPosition}]
    BY InvSplit DEF StateOK, BookOK
  <1>2. ASSUME UNCHANGED <<positions, cash, risk>> PROVE Quiet
    BY <1>2 DEF OpenSymbols, HasPosition
  <1>3. ASSUME NEW s \in Symbols, HasPosition(s), NEW exit \in Int, ClosePosition(s, exit)
        PROVE  Closes
    <2> DEFINE pnl == RealizedPnl(positions[s], exit)
    <2>1. pnl \in Int
      BY <1>3, InvSplit, HeldPosition, PnlType
    <2>2. /\ positions' = [positions EXCEPT ![s] = NoPosition]
          /\ cash' = cash + pnl /\ risk' = OnPositionClosed(risk, pnl)
      BY <1>3 DEF ClosePosition
    <2>3. OpenSymbols' = OpenSymbols \ {s} /\ s \in OpenSymbols
      BY <1>1, <1>3, <2>2 DEF OpenSymbols, HasPosition
    <2> HIDE DEF pnl
    <2>4. QED
      BY <2>1, <2>2, <2>3
  <1>4. ASSUME NEW o \in OrderIds, NEW sig \in SignalSet, ExecuteSignal(o, sig)
        PROVE  Quiet
    <2>1. risk' = TriggerKillSwitch(risk) \/ risk' = RecordOrder(risk)
      BY <1>4 DEF ExecuteSignal, RejectOnDailyLoss, RejectOnDrawdown, AcceptSignal
    <2>2. UNCHANGED <<positions, cash>>
      BY <1>4 DEF ExecuteSignal
    <2>3. UNCHANGED <<risk.dailyPnl, risk.openPositions>>
      BY <1>1, <2>1, RiskCounters, 0 \in Int
    <2>4. QED
      BY <2>2, <2>3 DEF OpenSymbols, HasPosition
  <1>5. ASSUME CooldownElapses PROVE Quiet
    <2>1. UNCHANGED <<risk.dailyPnl, risk.openPositions>>
      BY <1>1, <1>5, RiskCounters, 0 \in Int DEF CooldownElapses
    <2>2. QED
      BY <1>5, <2>1 DEF CooldownElapses, OpenSymbols, HasPosition
  <1>6. ASSUME NEW s \in Symbols, NEW price \in Prices, MarketTick(s, price)
        PROVE  Quiet \/ Tick
    <2>1. CASE ~HasPosition(s)
      BY <1>2, <1>6, <2>1 DEF MarketTick
    <2>2. CASE HasPosition(s)
      <3> DEFINE moved == [positions[s] EXCEPT !.price = price]
      <3>1. positions' = [positions EXCEPT ![s] = moved]
        BY <1>6, <2>2 DEF MarketTick
      <3>2. moved \in PositionRecords
        <4>1. price \in Int
          BY TradingAssumption DEF Positive
        <4>2. QED
          BY <2>2, <4>1, InvSplit, HeldPosition DEF PositionRecords
      <3> HIDE DEF moved
      <3>3. UNCHANGED OpenSymbols
        BY <1>1, <2>2, <3>1, <3>2, OrdersAssumption DEF OpenSymbols, HasPosition
      <3>4. QED
        BY <1>6, <2>2, <3>3 DEF MarketTick
    <2>3. QED
      BY <2>1, <2>2
  <1>7. ASSUME NEW s \in Symbols, RunCloseTask(s)
        PROVE  Quiet \/ Closes
    <2>1. CASE HasPosition(s) /\ lastPrice[s] # 0
      <3>1. ClosePosition(s, lastPrice[s]) /\ lastPrice[s] \in Int
        BY <1>7, <2>1, InvSplit DEF RunCloseTask, BookOK
      <3>2. QED
        BY <1>3, <2>1, <3>1
    <2>2. CASE ~(HasPosition(s) /\ lastPrice[s] # 0)
      BY <1>2, <1>7, <2>2 DEF RunCloseTask
    <2>3. QED
      BY <2>1, <2>2
  <1>8. ASSUME NEW o \in OrderIds, ApplyFill(o)
        PROVE  Quiet \/ Opens \/ Closes
    <2> DEFINE s == orders[o].signal.symbol
    <2>1. s \in Symbols /\ orders[o].fillPrice \in Int
      BY <1>8, FillOrders, OrderFields
    <2>2. UpdatePosition(o)
      BY <1>8 DEF ApplyFill
    <2>3. CASE ~HasPosition(s)
      <3>1. /\ positions' = [positions EXCEPT ![s] = NewPosition(o, orders[o])]
            /\ risk' = OnPositionOpened(risk) /\ UNCHANGED cash
        BY <2>2, <2>3 DEF UpdatePosition
      <3>2. NewPosition(o, orders[o]) \in PositionRecords
        BY <1>8, FillOrders, NewPositionType
      <3>3. OpenSymbols' = OpenSymbols \cup {s} /\ s \notin OpenSymbols
        BY <1>1, <2>1, <2>3, <3>1, <3>2, OrdersAssumption DEF OpenSymbols, HasPosition
      <3>4. QED
        BY <2>1, <3>1, <3>3
    <2>4. CASE HasPosition(s) /\ UNCHANGED <<positions, cash, risk>>
      BY <1>2, <2>4
    <2>5. CASE HasPosition(s) /\ ClosePosition(s, orders[o].fillPrice)
      BY <1>3, <2>1, <2>5
    <2>6. QED
      BY <2>2, <2>3, <2>4, <2>5 DEF UpdatePosition
  <1>9. ASSUME UNCHANGED vars \/ Start \/ Stop PROVE Quiet
    BY <1>2, <1>9 DEF vars, Start, Stop
  <1>10. ASSUME NEW o \in OrderIds, SubmitOrder(o) \/ RejectOrder(o) \/ StartFill(o)
         PROVE  Quiet
    BY <1>2, <1>10 DEF SubmitOrder, RejectOrder, StartFill
  <1> HIDE DEF Quiet, Tick, Opens, Closes
  <1>11. Quiet \/ Tick \/ Opens \/ Closes
    BY <1>4, <1>5, <1>6, <1>7, <1>8, <1>9, <1>10 DEF BotNext, OrderTask
  <1>12. QED
    BY <1>11 DEF Quiet, Tick, Opens, Closes

\* Each close reaches the risk manager exactly once, so its figure for the day
\* and the balance move together.
THEOREM DailyPnlRealized == BotSpec => []DailyPnlIsRealized
  <1>1. Init => DailyPnlIsRealized
    BY TradingAssumption DEF Init, InitialRisk, DailyPnlIsRealized
  <1>2. IInv /\ DailyPnlIsRealized /\ [BotNext]_vars => DailyPnlIsRealized'
    <2> SUFFICES ASSUME IInv, DailyPnlIsRealized, [BotNext]_vars
                 PROVE  DailyPnlIsRealized'
      OBVIOUS
    <2>1. /\ risk \in RiskRecords /\ cash \in Int /\ risk.dailyPnl \in Int
          /\ InitialBalance \in Int /\ risk.dailyPnl = cash - InitialBalance
      BY InvSplit, TradingAssumption DEF StateOK, RiskRecords, DailyPnlIsRealized
    <2>2. \/ UNCHANGED <<cash, risk.dailyPnl>>
          \/ UNCHANGED cash /\ risk' = OnPositionOpened(risk)
          \/ \E pnl \in Int : cash' = cash + pnl /\ risk' = OnPositionClosed(risk, pnl)
      BY BotStepKinds
    <2>3. CASE UNCHANGED <<cash, risk.dailyPnl>>
      BY <2>1, <2>3 DEF DailyPnlIsRealized
    <2>4. CASE UNCHANGED cash /\ risk' = OnPositionOpened(risk)
      <3>1. risk'.dailyPnl = risk.dailyPnl
        BY <2>1, <2>4, RiskCounters, 0 \in Int
      <3>2. QED
        BY <2>1, <2>4, <3>1 DEF DailyPnlIsRealized
    <2>5. ASSUME NEW pnl \in Int, cash' = cash + pnl, risk' = OnPositionClosed(risk, pnl)
          PROVE  DailyPnlIsRealized'
      <3>1. risk'.dailyPnl = risk.dailyPnl + pnl
        BY <2>1, <2>5, RiskCounters
      <3>2. QED
        BY <2>1, <2>5, <3>1 DEF DailyPnlIsRealized
    <2>6. QED
      BY <2>2, <2>3, <2>4, <2>5
  <1>3. QED
    BY <1>1, <1>2, BotInductive, PTL DEF BotSpec

\* The count the position limit is tested against is never below the truth.
THEOREM OpenCountCovers == BotSpec => []OpenCountCoversPositions
  <1>1. IsFiniteSet(OpenSymbols) /\ Cardinality(OpenSymbols) \in Nat
    <2>1. OpenSymbols \subseteq Symbols
      BY DEF OpenSymbols
    <2>2. IsFiniteSet(OpenSymbols)
      BY <2>1, TradingAssumption, FS_Subset
    <2>3. QED
      BY <2>2, FS_CardinalityType
  <1>2. Init => OpenCountCoversPositions
    <2> SUFFICES ASSUME Init PROVE OpenCountCoversPositions
      OBVIOUS
    <2>1. OpenSymbols = {}
      BY DEF Init, OpenSymbols, HasPosition
    <2>2. risk.openPositions = 0
      BY DEF Init, InitialRisk
    <2>3. QED
      BY <2>1, <2>2, FS_EmptySet DEF OpenCountCoversPositions
  <1>3. IInv /\ OpenCountCoversPositions /\ [BotNext]_vars => OpenCountCoversPositions'
    <2> SUFFICES ASSUME IInv, OpenCountCoversPositions, [BotNext]_vars
                 PROVE  OpenCountCoversPositions'
      OBVIOUS
    <2> DEFINE open == Cardinality(OpenSymbols)
    <2>1. /\ risk \in RiskRecords /\ risk.openPositions \in Nat
          /\ open \in Nat /\ open <= risk.openPositions
      BY <1>1, InvSplit DEF StateOK, RiskRecords, OpenCountCoversPositions
    <2>2. ASSUME UNCHANGED <<risk.openPositions, OpenSymbols>>
          PROVE  OpenCountCoversPositions'
      BY <2>1, <2>2 DEF OpenCountCoversPositions
    <2>3. ASSUME risk' = OnPositionOpened(risk),
                 \/ UNCHANGED OpenSymbols
                 \/ \E s \in Symbols \ OpenSymbols : OpenSymbols' = OpenSymbols \cup {s}
          PROVE  OpenCountCoversPositions'
      <3>1. risk'.openPositions = risk.openPositions + 1
        BY <2>1, <2>3, RiskCounters, 0 \in Int
      <3>2. Cardinality(OpenSymbols') = open \/ Cardinality(OpenSymbols') = open + 1
        BY <1>1, <2>3, FS_AddElement
      <3>3. QED
        BY <2>1, <3>1, <3>2 DEF OpenCountCoversPositions
    <2>4. ASSUME NEW s \in OpenSymbols, NEW pnl \in Int, OpenSymbols' = OpenSymbols \ {s},
                 risk' = OnPositionClosed(risk, pnl)
          PROVE  OpenCountCoversPositions'
      <3>1. risk'.openPositions
              = (IF risk.openPositions > 0 THEN risk.openPositions - 1 ELSE 0)
        BY <2>1, <2>4, RiskCounters
      <3>2. Cardinality(OpenSymbols') = open - 1
        BY <1>1, <2>4, FS_RemoveElement
      <3>3. QED
        BY <2>1, <3>1, <3>2 DEF OpenCountCoversPositions
    <2>5. QED
      BY <2>2, <2>3, <2>4, BotStepKinds
  <1>4. QED
    BY <1>2, <1>3, BotInductive, PTL DEF BotSpec

-----------------------------------------------------------------------------
(* Without API calls: the kill switch. *)

LEMMA SwitchKept ==
    ASSUME NEW r \in RiskRecords, NEW pnl \in Int
    PROVE  /\ OnPositionClosed(r, pnl).killSwitch = r.killSwitch
           /\ OnPositionOpened(r).killSwitch = r.killSwitch
           /\ CooldownOver(r).killSwitch = r.killSwitch
  <1>1. OnPositionClosed(r, pnl).killSwitch = r.killSwitch
    BY DEF OnPositionClosed, RecordTrade, RiskRecords
  <1>2. QED
    BY <1>1 DEF OnPositionOpened, CooldownOver, RiskRecords

\* A step that puts no new order in flight and opens no position of its own.
LEMMA ExposedShrinks ==
    ASSUME IInv,
           \A o \in OrderIds : InFlight(o)' => InFlight(o),
           \A s \in Symbols : HasPosition(s)' =>
              \/ HasPosition(s) /\ positions'[s].order = positions[s].order
              \/ positions'[s].order \in OrderIds /\ InFlight(positions'[s].order)
    PROVE  Exposed' \subseteq Exposed
  <1> SUFFICES ASSUME NEW o \in Exposed' PROVE o \in Exposed
    OBVIOUS
  <1>1. CASE o \in OrderIds /\ InFlight(o)'
    BY <1>1 DEF Exposed
  <1>2. CASE \E s \in OpenSymbols' : o = positions'[s].order
    <2>1. PICK s \in Symbols : HasPosition(s)' /\ o = positions'[s].order
      BY <1>2 DEF OpenSymbols
    <2>2. QED
      BY <2>1 DEF Exposed, OpenSymbols
  <1>3. QED
    BY <1>1, <1>2 DEF Exposed

\* After the kill switch nothing is put at risk that was not already.
THEOREM HaltIsFinal == BotSpec => HaltRunsDown
  <1>1. ASSUME IInv, [BotNext]_vars, risk.killSwitch
        PROVE  risk'.killSwitch /\ Exposed' \subseteq Exposed
    <2> DEFINE Goal == risk'.killSwitch /\ Exposed' \subseteq Exposed
    <2>1. /\ risk \in RiskRecords
          /\ positions \in [Symbols -> PositionRecords \cup {NoPosition}]
          /\ orders \in [OrderIds -> OrderRecords \cup {NoOrder}]
          /\ \A r \in RiskRecords, pnl \in Int :
                /\ OnPositionClosed(r, pnl).killSwitch = r.killSwitch
                /\ OnPositionOpened(r).killSwitch = r.killSwitch
                /\ CooldownOver(r).killSwitch = r.killSwitch
      BY <1>1, InvSplit, SwitchKept DEF StateOK, BookOK
    <2>2. ASSUME NEW s \in Symbols, HasPosition(s), NEW exit \in Int, ClosePosition(s, exit)
          PROVE  /\ risk'.killSwitch
                 /\ \A t \in Symbols : HasPosition(t)' =>
                       HasPosition(t) /\ positions'[t].order = positions[t].order
      <3> DEFINE pnl == RealizedPnl(positions[s], exit)
      <3>1. /\ positions' = [positions EXCEPT ![s] = NoPosition]
            /\ risk' = OnPositionClosed(risk, pnl)
        BY <2>2 DEF ClosePosition
      <3>2. pnl \in Int
        BY <1>1, <2>2, InvSplit, HeldPosition, PnlType
      <3> HIDE DEF pnl
      <3>3. risk'.killSwitch
        BY <1>1, <2>1, <3>1, <3>2
      <3>4. QED
        BY <2>1, <3>1, <3>3 DEF HasPosition
    <2>3. ASSUME UNCHANGED orders
          PROVE  \A o \in OrderIds : InFlight(o)' => InFlight(o)
      BY <2>3 DEF InFlight, Phase, Used
    <2>4. ASSUME UNCHANGED positions
          PROVE  \A t \in Symbols : HasPosition(t)' =>
                    HasPosition(t) /\ positions'[t].order = positions[t].order
      BY <2>4 DEF HasPosition
    <2>5. ASSUME UNCHANGED <<positions, risk, orders>> PROVE Goal
      BY <1>1, <2>3, <2>4, <2>5, ExposedShrinks
    <2>6. ASSUME CooldownElapses PROVE Goal
      <3>1. UNCHANGED <<orders, positions>> /\ risk' = CooldownOver(risk)
        BY <2>6 DEF CooldownElapses
      <3>2. risk'.killSwitch
        BY <1>1, <2>1, <3>1, 0 \in Int
      <3>3. QED
        BY <1>1, <2>3, <2>4, <3>1, <3>2, ExposedShrinks
    <2>7. ASSUME NEW o \in OrderIds, NEW sig \in SignalSet, ExecuteSignal(o, sig)
          PROVE  FALSE
      BY <1>1, <2>7 DEF ExecuteSignal, CheckPositionOpen
    <2>8. ASSUME NEW o \in OrderIds, SubmitOrder(o) \/ RejectOrder(o) \/ StartFill(o)
          PROVE  Goal
      <3>1. InFlight(o) /\ UNCHANGED <<positions, risk>>
        BY <2>8 DEF InFlight, SubmitOrder, RejectOrder, StartFill
      <3>2. \E new : orders' = [orders EXCEPT ![o] = new]
        BY <2>8 DEF SubmitOrder, RejectOrder, StartFill
      <3>3. \A q \in OrderIds : InFlight(q)' => InFlight(q)
        BY <2>1, <3>1, <3>2 DEF InFlight, Phase, Used
      <3>4. QED
        BY <1>1, <2>4, <3>1, <3>3, ExposedShrinks
    <2>9. ASSUME NEW s \in Symbols, NEW price \in Prices, MarketTick(s, price)
          PROVE  Goal
      <3>1. UNCHANGED orders
        BY <2>9 DEF MarketTick
      <3>2. CASE ~HasPosition(s)
        BY <2>5, <2>9, <3>1, <3>2 DEF MarketTick
      <3>3. CASE HasPosition(s)
        <4> DEFINE moved == [positions[s] EXCEPT !.price = price]
        <4>1. positions' = [positions EXCEPT ![s] = moved] /\ risk' = OnPositionOpened(risk)
          BY <2>9, <3>3 DEF MarketTick
        <4>2. moved.order = positions[s].order
          BY <1>1, <3>3, InvSplit, HeldPosition DEF PositionRecords
        <4> HIDE DEF moved
        <4>3. risk'.killSwitch
          BY <1>1, <2>1, <4>1, 0 \in Int
        <4>4. \A t \in Symbols : HasPosition(t)' =>
                HasPosition(t) /\ positions'[t].order = positions[t].order
          BY <2>1, <3>3, <4>1, <4>2 DEF HasPosition
        <4>5. QED
          BY <1>1, <2>3, <3>1, <4>3, <4>4, ExposedShrinks
      <3>4. QED
        BY <3>2, <3>3
    <2>10. ASSUME NEW s \in Symbols, RunCloseTask(s)
           PROVE  Goal
      <3>1. UNCHANGED orders
        BY <2>10 DEF RunCloseTask
      <3>2. CASE HasPosition(s) /\ lastPrice[s] # 0
        <4>1. ClosePosition(s, lastPrice[s]) /\ lastPrice[s] \in Int
          BY <1>1, <2>10, <3>2, InvSplit DEF RunCloseTask, BookOK
        <4>2. QED
          BY <1>1, <2>2, <2>3, <3>1, <3>2, <4>1, ExposedShrinks
      <3>3. CASE ~(HasPosition(s) /\ lastPrice[s] # 0)
        BY <2>5, <2>10, <3>1, <3>3 DEF RunCloseTask
      <3>4. QED
        BY <3>2, <3>3
    <2>11. ASSUME NEW o \in OrderIds, ApplyFill(o)
           PROVE  Goal
      <3> DEFINE s == orders[o].signal.symbol
      <3>1. /\ s \in Symbols /\ orders[o].fillPrice \in Int
            /\ orders' = [orders EXCEPT ![o] = AddFill(orders[o])]
            /\ UpdatePosition(o) /\ InFlight(o)
        BY <1>1, <2>11, FillOrders, OrderFields DEF ApplyFill, InFlight
      <3>2. \A q \in OrderIds : InFlight(q)' => InFlight(q)
        BY <2>1, <3>1 DEF InFlight, Phase, Used
      <3>3. CASE ~HasPosition(s)
        <4>1. /\ positions' = [positions EXCEPT ![s] = NewPosition(o, orders[o])]
              /\ risk' = OnPositionOpened(risk)
          BY <3>1, <3>3 DEF UpdatePosition
        <4>2. NewPosition(o, orders[o]).order = o
          BY DEF NewPosition
        <4>3. \A t \in Symbols : HasPosition(t)' =>
                \/ HasPosition(t) /\ positions'[t].order = positions[t].order
                \/ positions'[t].order \in OrderIds /\ InFlight(positions'[t].order)
          BY <2>1, <3>1, <4>1, <4>2 DEF HasPosition
        <4>4. risk'.killSwitch
          BY <1>1, <2>1, <4>1, 0 \in Int
        <4>5. QED
          BY <1>1, <3>2, <4>3, <4>4, ExposedShrinks
      <3>4. CASE HasPosition(s) /\ UNCHANGED <<positions, cash, risk>>
        BY <1>1, <2>4, <3>2, <3>4, ExposedShrinks
      <3>5. CASE HasPosition(s) /\ ClosePosition(s, orders[o].fillPrice)
        <4>1. /\ risk'.killSwitch
              /\ \A t \in Symbols : HasPosition(t)' =>
                    HasPosition(t) /\ positions'[t].order = positions[t].order
          BY <2>2, <3>1, <3>5
        <4>2. QED
          BY <1>1, <3>2, <4>1, ExposedShrinks
      <3>6. QED
        BY <3>1, <3>3, <3>4, <3>5 DEF UpdatePosition
    <2>12. ASSUME UNCHANGED vars \/ Start \/ Stop PROVE Goal
      BY <2>5, <2>12 DEF vars, Start, Stop
    <2> HIDE DEF Goal
    <2>13. Goal
      BY <1>1, <2>6, <2>7, <2>8, <2>9, <2>10, <2>11, <2>12 DEF BotNext, OrderTask
    <2>14. QED
      BY <2>13 DEF Goal
  <1>2. IInv /\ [BotNext]_vars =>
            (risk.killSwitch => risk'.killSwitch /\ Exposed' \subseteq Exposed)
    BY <1>1
  <1>3. QED
    BY <1>2, BotInductive, PTL DEF BotSpec, HaltRunsDown
=============================================================================
