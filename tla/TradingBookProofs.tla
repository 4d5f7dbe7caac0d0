------------------------- MODULE TradingBookProofs --------------------------
(***************************************************************************)
(* TradingSystem implements TradingBook, for all values of the constants:  *)
(* its initial state is the book's, and each of its steps is a step of the *)
(* book or leaves it alone.                                                *)
(***************************************************************************)
EXTENDS TradingSystemProofs

(***************************************************************************)
(* Beside IInv, the refinement needs to know where prices come from: the   *)
(* market has quoted every last price and every price a fill has settled   *)
(* on, and every order goes back to a signal.                              *)
(***************************************************************************)
Quoted ==
    /\ \A s \in Symbols : lastPrice[s] \in Prices \cup {0}
    /\ \A o \in OrderIds : Used(o) => orders[o].signal \in SignalSet
    /\ \A o \in OrderIds : Phase(o) = "filling" =>
          \E quote \in Prices : orders[o].fillPrice = FillPrice(orders[o].signal.side, quote)

LEMMA QuotedInit == Init => Quoted
  BY DEF Init, Quoted, Used, Phase

LEMMA SameQuoted ==
    ASSUME Quoted, UNCHANGED <<orders, lastPrice>>
    PROVE  Quoted'
  BY DEF Quoted, Used, Phase

\* A step that changes one order and keeps the rest of what Quoted speaks of.
LEMMA OrderQuoted ==
    ASSUME IInv, Quoted, NEW o \in OrderIds, NEW new \in OrderRecords,
           orders' = [orders EXCEPT ![o] = new], UNCHANGED lastPrice,
           new.signal \in SignalSet,
           new.phase = "filling" =>
               \E quote \in Prices : new.fillPrice = FillPrice(new.signal.side, quote)
    PROVE  Quoted'
  <1>1. orders \in [OrderIds -> OrderRecords \cup {NoOrder}] /\ new # NoOrder
    BY InvSplit, OrdersAssumption DEF BookOK
  <1>2. \A q \in OrderIds \ {o} : orders'[q] = orders[q]
    BY <1>1
  <1>3. orders'[o] = new
    BY <1>1
  <1>4. ASSUME NEW q \in OrderIds
        PROVE  /\ Used(q)' => orders'[q].signal \in SignalSet
               /\ Phase(q)' = "filling" =>
                    \E quote \in Prices :
                        orders'[q].fillPrice = FillPrice(orders'[q].signal.side, quote)
    <2>1. CASE q = o
      BY <1>1, <1>3, <2>1 DEF Used, Phase
    <2>2. CASE q # o
      BY <1>2, <2>2 DEF Quoted, Used, Phase
    <2>3. QED
      BY <2>1, <2>2
  <1>5. QED
    BY <1>4 DEF Quoted

\* A fill that starts settles on a price the market has quoted.
LEMMA StartedFill ==
    ASSUME IInv, Quoted, NEW o \in OrderIds, StartFill(o)
    PROVE  \E new \in OrderRecords :
              /\ orders' = [orders EXCEPT ![o] = new]
              /\ new.signal = orders[o].signal
              /\ new.phase = "filling"
              /\ \E quote \in Prices : new.fillPrice = FillPrice(new.signal.side, quote)
  <1> DEFINE side == orders[o].signal.side
             s == orders[o].signal.symbol
             price == FillPrice(side, lastPrice[s])
  <1>1. Phase(o) = "queued" /\ lastPrice[s] # 0
    BY DEF StartFill
  <1>2. /\ orders[o] \in OrderRecords /\ Consistent(orders[o])
        /\ orders[o].phase = "queued"
    BY <1>1, PhaseOf
  <1>3. s \in Symbols /\ side \in Sides
    BY <1>2, OrderFields
  <1>4. lastPrice[s] \in Prices
    BY <1>1, <1>3 DEF Quoted
  <1>5. price \in Int
    BY <1>3, <1>4, FillPriceType, TradingAssumption DEF Positive
  <1>6. PICK qty \in 1..orders[o].signal.quantity :
            orders' = [orders EXCEPT ![o] = Filling(orders[o], price, qty)]
    BY DEF StartFill
  <1>7. price = FillPrice(side, lastPrice[s])
    OBVIOUS
  <1> HIDE DEF price
  <1>8. /\ Filling(orders[o], price, qty) \in OrderRecords
        /\ Filling(orders[o], price, qty).signal = orders[o].signal
        /\ Filling(orders[o], price, qty).phase = "filling"
        /\ Filling(orders[o], price, qty).fillPrice = price
    BY <1>2, <1>5, FillingOrder DEF Filling, OrderRecords
  <1>9. QED
    BY <1>4, <1>6, <1>7, <1>8

\* Cancellations, rejections and the three steps of an order's task.
LEMMA TaskQuoted ==
    ASSUME IInv, Quoted, NEW o \in OrderIds, OrderTask(o) \/ CancelOrder(o)
    PROVE  Quoted'
  <1>1. /\ Used(o) /\ orders[o] \in OrderRecords /\ orders[o].phase = Phase(o)
        /\ Consistent(orders[o]) /\ orders[o].signal \in SignalSet
    <2>1. Phase(o) # "unused"
      BY DEF OrderTask, CancelOrder, SubmitOrder, RejectOrder, StartFill, ApplyFill
    <2>2. QED
      BY <2>1, PhaseOf DEF Quoted
  <1>2. UNCHANGED lastPrice
    BY DEF OrderTask, CancelOrder, SubmitOrder, RejectOrder, StartFill, ApplyFill
  <1>3. CASE SubmitOrder(o)
    <2>1. orders' = [orders EXCEPT ![o] = Accepted(orders[o])] /\ Phase(o) = "sending"
      BY <1>3 DEF SubmitOrder
    <2>2. /\ Accepted(orders[o]) \in OrderRecords
          /\ Accepted(orders[o]).signal = orders[o].signal
          /\ Accepted(orders[o]).phase = "queued"
      BY <1>1, <2>1, AcceptedOrder DEF Accepted, OrderRecords
    <2>3. QED
      BY <1>1, <1>2, <2>1, <2>2, OrderQuoted
  <1>4. CASE RejectOrder(o)
    <2>1. orders' = [orders EXCEPT ![o] = Rejected(orders[o])] /\ Phase(o) = "queued"
      BY <1>4 DEF RejectOrder
    <2>2. /\ Rejected(orders[o]) \in OrderRecords
          /\ Rejected(orders[o]).signal = orders[o].signal
          /\ Rejected(orders[o]).phase = "done"
      BY <1>1, <2>1, RejectedOrder DEF Rejected, OrderRecords
    <2>3. QED
      BY <1>1, <1>2, <2>1, <2>2, OrderQuoted
  <1>5. CASE StartFill(o)
    <2>1. PICK new \in OrderRecords :
              /\ orders' = [orders EXCEPT ![o] = new]
              /\ new.signal = orders[o].signal
              /\ \E quote \in Prices : new.fillPrice = FillPrice(new.signal.side, quote)
      BY <1>5, StartedFill
    <2>2. QED
      BY <1>1, <1>2, <2>1, OrderQuoted
  <1>6. CASE ApplyFill(o)
    <2>1. /\ AddFill(orders[o]) \in OrderRecords
          /\ AddFill(orders[o]).signal = orders[o].signal
          /\ AddFill(orders[o]).phase = "done"
          /\ orders' = [orders EXCEPT ![o] = AddFill(orders[o])]
      BY <1>6, FillOrders, FilledOrder
    <2>2. QED
      BY <1>1, <1>2, <2>1, OrderQuoted
  <1>7. CASE CancelOrder(o)
    <2>1. /\ orders' = [orders EXCEPT ![o] = Cancelled(orders[o])]
          /\ CanCancel(orders[o]) /\ Phase(o) # "sending"
      BY <1>7 DEF CancelOrder
    <2>2. /\ Cancelled(orders[o]) \in OrderRecords
          /\ Cancelled(orders[o]).signal = orders[o].signal
          /\ Cancelled(orders[o]).phase = orders[o].phase
          /\ Cancelled(orders[o]).fillPrice = orders[o].fillPrice
      BY <1>1, <2>1, CancelledOrder
    <2>3. orders[o].phase = "filling" =>
              \E quote \in Prices :
                  orders[o].fillPrice = FillPrice(orders[o].signal.side, quote)
      BY <1>1 DEF Quoted
    <2>4. QED
      BY <1>1, <1>2, <2>1, <2>2, <2>3, OrderQuoted
  <1>8. QED
    BY <1>3, <1>4, <1>5, <1>6, <1>7 DEF OrderTask

LEMMA QuotedStep == IInv /\ Quoted /\ [Next]_vars => Quoted'
  <1> SUFFICES ASSUME IInv, Quoted, [Next]_vars PROVE Quoted'
    OBVIOUS
  <1>1. ASSUME NEW o \in OrderIds, NEW sig \in SignalSet, ExecuteSignal(o, sig)
        PROVE  Quoted'
    <2>1. UNCHANGED lastPrice
      BY <1>1 DEF ExecuteSignal
    <2>2. CASE AcceptSignal(o, sig)
      <3>1. NewOrder(sig) \in OrderRecords
        BY NewOrderType, TradingAssumption
      <3>2. NewOrder(sig).signal = sig /\ NewOrder(sig).phase = "sending"
        BY DEF NewOrder
      <3>3. QED
        BY <2>1, <2>2, <3>1, <3>2, OrderQuoted DEF AcceptSignal
    <2>3. CASE UNCHANGED orders
      BY <2>1, <2>3, SameQuoted
    <2>4. QED
      BY <1>1, <2>2, <2>3 DEF ExecuteSignal, RejectOnDailyLoss, RejectOnDrawdown
  <1>2. ASSUME NEW o \in OrderIds, OrderTask(o) \/ CancelOrder(o) PROVE Quoted'
    BY <1>2, TaskQuoted
  <1>3. ASSUME NEW s \in Symbols, NEW price \in Prices, MarketTick(s, price)
        PROVE  Quoted'
    BY <1>3, InvSplit DEF MarketTick, BookOK, Quoted, Used, Phase
  <1>4. CASE UNCHANGED <<orders, lastPrice>>
    BY <1>4, SameQuoted
  <1>5. QED
    BY <1>1, <1>2, <1>3, <1>4
       DEF Next, BotNext, OperatorNext, Start, Stop, RunCloseTask, CooldownElapses,
           ClosePositionCall, CloseAllCall, CloseNext, ResetKillSwitch,
           ResetDailyStats, vars

LEMMA QuotedAlways == Spec => [](IInv /\ Quoted)
  <1>1. Init => IInv /\ Quoted
    BY IInvInit, QuotedInit
  <1>2. IInv /\ Quoted /\ [Next]_vars => (IInv /\ Quoted)'
    BY IInvStep, QuotedStep
  <1>3. QED
    BY <1>1, <1>2, PTL DEF Spec

-----------------------------------------------------------------------------
(* What the steps of an order and of a position are to the book. *)

LEMMA BookTypes ==
    ASSUME IInv
    PROVE  /\ orders \in [OrderIds -> OrderRecords \cup {NoOrder}]
           /\ positions \in [Symbols -> PositionRecords \cup {NoPosition}]
           /\ NoOrder \notin OrderRecords /\ NoPosition \notin PositionRecords
  BY InvSplit, OrdersAssumption DEF BookOK

\* A step of an admitted order: what it asked for stays, and it is settled
\* from then on exactly if its task has ended.
LEMMA OrderOnBook ==
    ASSUME IInv, NEW o \in OrderIds, Used(o), NEW new \in OrderRecords,
           new.signal = orders[o].signal,
           orders' = [orders EXCEPT ![o] = new]
    PROVE  /\ UNCHANGED Asked
           /\ new.phase = orders[o].phase => UNCHANGED Settled
           /\ orders[o].phase # "done" /\ new.phase # "done" => UNCHANGED Settled
           /\ new.phase = "done" => Settled' = Settled \cup {o}
  <1>1. /\ \A q \in OrderIds \ {o} : orders'[q] = orders[q]
        /\ orders'[o] = new /\ new # NoOrder
    BY BookTypes
  <1>2. \A q \in OrderIds :
            IF q = o THEN Used(q)' /\ Phase(q)' = new.phase
            ELSE (Used(q)' <=> Used(q)) /\ Phase(q)' = Phase(q)
    BY <1>1 DEF Used, Phase
  <1>3. Phase(o) = orders[o].phase
    BY DEF Phase
  <1>4. UNCHANGED Asked
    BY <1>1, <1>2 DEF Asked
  <1>5. QED
    BY <1>2, <1>3, <1>4 DEF Settled

LEMMA SameOrders ==
    ASSUME UNCHANGED orders
    PROVE  UNCHANGED <<Asked, Settled>>
  BY DEF Asked, Settled, Used, Phase

LEMMA SameHoldings ==
    ASSUME UNCHANGED positions
    PROVE  UNCHANGED Holdings
  BY DEF Holdings, HasPosition

LEMMA HoldingsDomain ==
    /\ Holdings = [s \in Symbols |-> Holdings[s]]
    /\ Holdings' = [s \in Symbols |-> Holdings'[s]]
  BY DEF Holdings

LEMMA HeldHolding ==
    ASSUME IInv, NEW s \in Symbols, HasPosition(s)
    PROVE  /\ Holdings[s] = Holding(positions[s])
           /\ Holdings[s] # EmptyHolding
           /\ Holdings[s].order = positions[s].order
           /\ Holdings[s].quantity = positions[s].quantity
           /\ Holdings[s].entry = positions[s].entry
           /\ positions[s].order \in OrderIds
           /\ Asked[positions[s].order] = orders[positions[s].order].signal
           /\ Asked[positions[s].order].side = positions[s].side
           /\ positions[s] \in PositionRecords
  <1>1. positions[s] \in PositionRecords
    BY InvSplit, HeldPosition
  <1>2. positions[s].quantity \in Nat \ {0} /\ positions[s].order \in OrderIds
    BY <1>1 DEF PositionRecords, Positive
  <1>3. Holdings[s] = Holding(positions[s])
    BY DEF Holdings
  <1>4. /\ Holdings[s].order = positions[s].order
        /\ Holdings[s].quantity = positions[s].quantity
        /\ Holdings[s].entry = positions[s].entry
    BY <1>3 DEF Holding
  <1>5. Holdings[s] # EmptyHolding
    BY <1>2, <1>4 DEF EmptyHolding
  <1>6. /\ Used(positions[s].order)
        /\ orders[positions[s].order].signal.side = positions[s].side
    BY InvSplit DEF BookOK, PositionBackedByFill
  <1>7. Asked[positions[s].order] = orders[positions[s].order].signal
    BY <1>2, <1>6 DEF Asked
  <1>8. QED
    BY <1>1, <1>2, <1>3, <1>4, <1>5, <1>6, <1>7

\* A position that is dropped for its profit is a holding that leaves.
LEMMA DropOnBook ==
    ASSUME IInv, NEW s \in Symbols, HasPosition(s), NEW exit \in Int,
           positions' = [positions EXCEPT ![s] = NoPosition],
           cash' = cash + RealizedPnl(positions[s], exit)
    PROVE  Book!Leave(s, exit)
  <1>1. Holdings[s] # EmptyHolding
    BY HeldHolding
  <1>2. Holdings' = [Holdings EXCEPT ![s] = EmptyHolding]
    <2>1. \A t \in Symbols : positions'[t] = IF t = s THEN NoPosition ELSE positions[t]
      BY BookTypes
    <2>2. \A t \in Symbols \ {s} : HasPosition(t)' <=> HasPosition(t)
      BY <2>1 DEF HasPosition
    <2>3. ~HasPosition(s)'
      BY <2>1 DEF HasPosition
    <2>4. ASSUME NEW t \in Symbols
          PROVE  Holdings'[t] = IF t = s THEN EmptyHolding ELSE Holdings[t]
      <3>1. CASE t = s
        BY <2>3, <3>1 DEF Holdings, EmptyHolding
      <3>2. CASE t # s
        BY <2>1, <2>2, <3>2 DEF Holdings, Holding, EmptyHolding
      <3>3. QED
        BY <3>1, <3>2
    <2>5. QED
      BY <2>4, HoldingsDomain
  <1>3. RealizedPnl(positions[s], exit) = Book!Profit(Holdings[s], exit)
    BY HeldHolding DEF RealizedPnl, Gain, Book!Profit
  <1>4. QED
    BY <1>1, <1>2, <1>3 DEF Book!Leave

LEMMA AdmittedOrder ==
    ASSUME IInv, NEW o \in OrderIds, Used(o)
    PROVE  o \in Book!Admitted /\ Asked[o] = orders[o].signal
  <1>1. Asked[o] = orders[o].signal
    BY DEF Asked
  <1>2. orders[o].signal.side \in Sides
    BY BookTypes, OrderFields DEF Used
  <1>3. orders[o].signal # NotAsked
    BY <1>2 DEF NotAsked, Sides
  <1>4. QED
    BY <1>1, <1>3 DEF Book!Admitted

\* A signal that passes the gates.
LEMMA AcceptOnBook ==
    ASSUME IInv, NEW o \in OrderIds, NEW sig \in SignalSet, ~Used(o),
           orders' = [orders EXCEPT ![o] = NewOrder(sig)], UNCHANGED <<positions, cash>>
    PROVE  Book!Admit(o, sig)
  <1>1. /\ NewOrder(sig) \in OrderRecords /\ NewOrder(sig) # NoOrder
        /\ NewOrder(sig).signal = sig /\ NewOrder(sig).phase = "sending"
    BY NewOrderType, TradingAssumption, BookTypes DEF NewOrder
  <1>2. /\ \A q \in OrderIds \ {o} : orders'[q] = orders[q]
        /\ orders'[o] = NewOrder(sig)
    BY BookTypes
  <1>3. Asked[o] = NotAsked
    BY DEF Asked
  <1>4. Asked' = [Asked EXCEPT ![o] = sig]
    <2>1. ASSUME NEW q \in OrderIds
          PROVE  Asked'[q] = IF q = o THEN sig ELSE Asked[q]
      BY <1>1, <1>2 DEF Asked, Used, NotAsked
    <2>2. /\ Asked = [q \in OrderIds |-> Asked[q]]
          /\ Asked' = [q \in OrderIds |-> Asked'[q]]
      BY DEF Asked
    <2>3. QED
      BY <2>1, <2>2
  <1>5. UNCHANGED Settled
    BY <1>1, <1>2 DEF Settled, Phase, Used
  <1>6. UNCHANGED <<Holdings, cash>>
    BY SameHoldings
  <1>7. QED
    BY <1>3, <1>4, <1>5, <1>6 DEF Book!Admit

\* A position that leaves at the last price, whoever asked for it.
LEMMA CloseOnBook ==
    ASSUME IInv, Quoted, NEW s \in Symbols, HasPosition(s),
           positions' = [positions EXCEPT ![s] = NoPosition],
           cash' = cash + RealizedPnl(positions[s], lastPrice[s]),
           UNCHANGED orders
    PROVE  Book!CloseAtQuote(s)
  <1>1. lastPrice[s] \in Prices /\ lastPrice[s] \in Int
    BY InvSplit, HeldPosition DEF Quoted
  <1>2. Book!Leave(s, lastPrice[s])
    BY <1>1, DropOnBook
  <1>3. QED
    BY <1>1, <1>2, SameOrders DEF Book!CloseAtQuote

\* A tick moves the price of a position and nothing of its holding.
LEMMA TickOnBook ==
    ASSUME IInv, NEW s \in Symbols, NEW price \in Prices, MarketTick(s, price)
    PROVE  UNCHANGED <<Asked, Settled, Holdings, cash>>
  <1>1. UNCHANGED <<orders, cash>>
    BY DEF MarketTick
  <1>2. UNCHANGED Holdings
    <2>1. CASE ~HasPosition(s)
      BY <2>1, SameHoldings DEF MarketTick
    <2>2. CASE HasPosition(s)
      <3> DEFINE moved == [positions[s] EXCEPT !.price = price]
      <3>1. positions[s] \in PositionRecords /\ price \in Int
        BY <2>2, InvSplit, HeldPosition, TradingAssumption DEF Positive
      <3>2. /\ moved \in PositionRecords
            /\ moved.order = positions[s].order
            /\ moved.quantity = positions[s].quantity
            /\ moved.entry = positions[s].entry
        BY <3>1 DEF PositionRecords
      <3>3. positions' = [positions EXCEPT ![s] = moved]
        BY <2>2 DEF MarketTick
      <3> HIDE DEF moved
      <3>4. ASSUME NEW t \in Symbols
            PROVE  Holdings'[t] = Holdings[t]
        <4>1. CASE t = s
          BY <2>2, <3>2, <3>3, <4>1, BookTypes DEF Holdings, HasPosition, Holding
        <4>2. CASE t # s
          <5>1. positions'[t] = positions[t]
            BY <3>3, <4>2, BookTypes
          <5>2. QED
            BY <5>1 DEF Holdings, HasPosition
        <4>3. QED
          BY <4>1, <4>2
      <3>5. QED
        BY <3>4, HoldingsDomain
    <2>3. QED
      BY <2>1, <2>2
  <1>3. QED
    BY <1>1, <1>2, SameOrders

\* The end of a fill: an order that settles, with or without an effect.
LEMMA FillOnBook ==
    ASSUME IInv, Quoted, NEW o \in OrderIds, ApplyFill(o)
    PROVE  Book!Settle(o) /\ o \in Book!Admitted
  <1> DEFINE order == orders[o]
             s == order.signal.symbol
  <1>1. /\ Used(o) /\ order \in OrderRecords /\ Consistent(order)
        /\ order.phase = "filling"
        /\ orders' = [orders EXCEPT ![o] = AddFill(order)]
    BY FillOrders
  <1>2. /\ AddFill(order) \in OrderRecords /\ AddFill(order).phase = "done"
        /\ AddFill(order).signal = order.signal
    BY <1>1, FilledOrder
  <1>3. UNCHANGED Asked /\ Settled' = Settled \cup {o}
    BY <1>1, <1>2, OrderOnBook
  <1>4. o \notin Settled
    BY <1>1 DEF Settled, Phase
  <1>5. o \in Book!Admitted /\ Asked[o] = order.signal
    BY <1>1, AdmittedOrder
  <1>6. PICK quote \in Prices : order.fillPrice = FillPrice(order.signal.side, quote)
    BY <1>1 DEF Quoted, Phase
  <1>7. /\ s \in Symbols /\ order.fillPrice \in Int
        /\ order.fillQty \in 1..order.signal.quantity
        /\ order.signal.quantity \in Nat /\ order.fillQty \in Nat
    BY <1>1, OrderFields DEF Consistent
  <1>8. UpdatePosition(o)
    BY DEF ApplyFill
  <1>9. CASE UNCHANGED <<positions, cash>>
    <2>1. UNCHANGED <<Holdings, cash>>
      BY <1>9, SameHoldings
    <2>2. QED
      BY <1>3, <1>4, <1>5, <2>1 DEF Book!Settle
  <1>10. CASE /\ ~HasPosition(s) /\ UNCHANGED cash
              /\ positions' = [positions EXCEPT ![s] = NewPosition(o, order)]
    <2> DEFINE new == NewPosition(o, order)
               holding == [order |-> o, quantity |-> order.fillQty,
                           entry |-> FillPrice(order.signal.side, quote)]
    <2>1. new \in PositionRecords
      BY <1>1, NewPositionType
    <2>2. Holding(new) = holding
      BY <1>6 DEF Holding, NewPosition
    <2>3. positions' = [positions EXCEPT ![s] = new]
      BY <1>10
    <2> HIDE DEF new, holding
    <2>4. Holdings[s] = EmptyHolding
      BY <1>7, <1>10 DEF Holdings
    <2>5. ASSUME NEW t \in Symbols
          PROVE  Holdings'[t] = IF t = s THEN holding ELSE Holdings[t]
      <3>1. CASE t = s
        <4>1. positions'[t] = new /\ new # NoPosition
          BY <2>1, <2>3, <3>1, BookTypes
        <4>2. Holdings'[t] = Holding(new)
          BY <4>1 DEF Holdings, HasPosition
        <4>3. QED
          BY <2>2, <3>1, <4>2
      <3>2. CASE t # s
        <4>1. positions'[t] = positions[t]
          BY <2>3, <3>2, BookTypes
        <4>2. QED
          BY <3>2, <4>1 DEF Holdings, HasPosition
      <3>3. QED
        BY <3>1, <3>2
    <2>6. Holdings' = [Holdings EXCEPT ![s] = holding]
      BY <2>5, HoldingsDomain
    <2>7. Book!Open(o, order.fillQty, quote)
      BY <1>5, <1>10, <2>4, <2>6 DEF Book!Open, holding
    <2>8. QED
      BY <1>3, <1>4, <1>5, <1>6, <1>7, <2>7 DEF Book!Settle
  <1>11. CASE /\ HasPosition(s) /\ Opposite(positions[s], order.signal.side)
              /\ order.fillQty >= positions[s].quantity
              /\ ClosePosition(s, order.fillPrice)
    <2>1. Book!Leave(s, order.fillPrice)
      BY <1>7, <1>11, DropOnBook DEF ClosePosition
    <2>2. /\ Holdings[s].order = positions[s].order
          /\ Holdings[s].quantity = positions[s].quantity
          /\ Asked[positions[s].order].side = positions[s].side
          /\ positions[s].quantity \in Nat
      BY <1>7, <1>11, HeldHolding DEF PositionRecords, Positive
    <2>3. order.signal.side # Asked[Holdings[s].order].side
      BY <1>11, <2>2 DEF Opposite
    <2>4. order.signal.quantity >= Holdings[s].quantity
      BY <1>7, <1>11, <2>2
    <2>5. Book!CloseAgainst(o, quote)
      BY <1>5, <1>6, <2>1, <2>3, <2>4 DEF Book!CloseAgainst
    <2>6. QED
      BY <1>3, <1>4, <1>5, <1>6, <2>5 DEF Book!Settle
  <1>12. QED
    BY <1>8, <1>9, <1>10, <1>11 DEF UpdatePosition

-----------------------------------------------------------------------------
(* The refinement. *)

LEMMA BookInit == Init => Book!Init
  BY DEF Init, Book!Init, Asked, Settled, Holdings, Used, Phase, HasPosition

LEMMA BookStep ==
    ASSUME IInv, Quoted, [Next]_vars
    PROVE  [Book!Next]_(Book!bookVars)
  <1> DEFINE Quiet == UNCHANGED <<Asked, Settled, Holdings, cash>>
  <1>1. ASSUME Quiet PROVE [Book!Next]_(Book!bookVars)
    BY <1>1 DEF Book!bookVars
  <1>2. ASSUME UNCHANGED <<orders, positions, cash>> PROVE Quiet
    BY <1>2, SameOrders, SameHoldings
  <1>3. ASSUME NEW o \in OrderIds, NEW sig \in SignalSet, ExecuteSignal(o, sig)
        PROVE  Book!Next \/ Quiet
    <2>1. UNCHANGED <<positions, cash>>
      BY <1>3 DEF ExecuteSignal
    <2>2. CASE AcceptSignal(o, sig)
      BY <2>1, <2>2, AcceptOnBook DEF AcceptSignal, Book!Next
    <2>3. CASE UNCHANGED orders
      BY <1>2, <2>1, <2>3
    <2>4. QED
      BY <1>3, <2>2, <2>3 DEF ExecuteSignal, RejectOnDailyLoss, RejectOnDrawdown
  <1>4. ASSUME NEW o \in OrderIds, OrderTask(o) \/ CancelOrder(o)
        PROVE  Book!Next \/ Quiet
    <2>1. Used(o) /\ orders[o] \in OrderRecords /\ Consistent(orders[o])
          /\ orders[o].phase = Phase(o)
      <3>1. Phase(o) # "unused"
        BY <1>4 DEF OrderTask, CancelOrder, SubmitOrder, RejectOrder, StartFill, ApplyFill
      <3>2. QED
        BY <3>1, PhaseOf
    <2>2. ASSUME UNCHANGED <<positions, cash>>, UNCHANGED <<Asked, Settled>> PROVE Quiet
      BY <2>2, SameHoldings
    <2>3. CASE SubmitOrder(o)
      <3>1. /\ orders' = [orders EXCEPT ![o] = Accepted(orders[o])]
            /\ Phase(o) = "sending" /\ UNCHANGED <<positions, cash>>
        BY <2>3 DEF SubmitOrder
      <3>2. /\ Accepted(orders[o]) \in OrderRecords
            /\ Accepted(orders[o]).signal = orders[o].signal
            /\ Accepted(orders[o]).phase = "queued"
        BY <2>1, <3>1, AcceptedOrder DEF Accepted, OrderRecords
      <3>3. UNCHANGED <<Asked, Settled>>
        BY <2>1, <3>1, <3>2, OrderOnBook
      <3>4. QED
        BY <2>2, <3>1, <3>3
    <2>4. CASE StartFill(o)
      <3>1. Phase(o) = "queued" /\ UNCHANGED <<positions, cash>>
        BY <2>4 DEF StartFill
      <3>2. PICK new \in OrderRecords :
                /\ orders' = [orders EXCEPT ![o] = new]
                /\ new.signal = orders[o].signal
                /\ new.phase = "filling"
        BY <2>4, StartedFill
      <3>3. UNCHANGED <<Asked, Settled>>
        BY <2>1, <3>1, <3>2, OrderOnBook
      <3>4. QED
        BY <2>2, <3>1, <3>3
    <2>5. CASE RejectOrder(o)
      <3>1. /\ orders' = [orders EXCEPT ![o] = Rejected(orders[o])]
            /\ Phase(o) = "queued" /\ UNCHANGED <<positions, cash>>
        BY <2>5 DEF RejectOrder
      <3>2. /\ Rejected(orders[o]) \in OrderRecords
            /\ Rejected(orders[o]).signal = orders[o].signal
            /\ Rejected(orders[o]).phase = "done"
        BY <2>1, <3>1, RejectedOrder DEF Rejected, OrderRecords
      <3>3. UNCHANGED Asked /\ Settled' = Settled \cup {o} /\ o \notin Settled
        BY <2>1, <3>1, <3>2, OrderOnBook DEF Settled
      <3>4. UNCHANGED <<Holdings, cash>>
        BY <3>1, SameHoldings
      <3>5. Book!Settle(o)
        BY <3>3, <3>4 DEF Book!Settle
      <3>6. QED
        BY <2>1, <3>5, AdmittedOrder DEF Book!Next
    <2>6. CASE ApplyFill(o)
      BY <2>6, FillOnBook DEF Book!Next
    <2>7. CASE CancelOrder(o)
      <3>1. /\ orders' = [orders EXCEPT ![o] = Cancelled(orders[o])]
            /\ CanCancel(orders[o]) /\ Phase(o) # "sending" /\ UNCHANGED <<positions, cash>>
        BY <2>7 DEF CancelOrder
      <3>2. /\ Cancelled(orders[o]) \in OrderRecords
            /\ Cancelled(orders[o]).signal = orders[o].signal
            /\ Cancelled(orders[o]).phase = orders[o].phase
        BY <2>1, <3>1, CancelledOrder
      <3>3. QED
        BY <2>1, <2>2, <3>1, <3>2, OrderOnBook
    <2>8. QED
      BY <1>4, <2>3, <2>4, <2>5, <2>6, <2>7 DEF OrderTask
  <1>5. ASSUME NEW s \in Symbols, NEW price \in Prices, MarketTick(s, price)
        PROVE  Quiet
    BY <1>5, TickOnBook
  <1>6. ASSUME NEW s \in Symbols, RunCloseTask(s)
        PROVE  Book!Next \/ Quiet
    <2>1. UNCHANGED orders
      BY <1>6 DEF RunCloseTask
    <2>2. CASE HasPosition(s) /\ ClosePosition(s, lastPrice[s])
      BY <2>1, <2>2, CloseOnBook DEF ClosePosition, Book!Next
    <2>3. CASE UNCHANGED <<positions, cash>>
      BY <1>2, <2>1, <2>3
    <2>4. QED
      BY <1>6, <2>2, <2>3 DEF RunCloseTask
  <1>7. ASSUME NEW s \in Symbols, ClosePositionCall(s) \/ CloseNext(s)
        PROVE  Book!Next
    <2>1. EngineClose(s) /\ UNCHANGED orders
      BY <1>7 DEF ClosePositionCall, CloseNext
    <2>2. HasPosition(s) /\ lastPrice[s] # 0
      BY <2>1, InvSplit, HeldPosition DEF EngineClose
    <2>3. Book!CloseAtQuote(s)
      BY <2>1, <2>2, CloseOnBook DEF EngineClose
    <2>4. QED
      BY <2>3 DEF Book!Next
  <1>8. ASSUME UNCHANGED vars \/ Start \/ Stop \/ CooldownElapses \/ CloseAllCall
                 \/ ResetKillSwitch \/ ResetDailyStats
        PROVE  Quiet
    BY <1>2, <1>8 DEF vars, Start, Stop, CooldownElapses, CloseAllCall,
       ResetKillSwitch, ResetDailyStats
  <1> HIDE DEF Quiet
  <1>9. QED
    BY <1>1, <1>3, <1>4, <1>5, <1>6, <1>7, <1>8 DEF Next, BotNext, OperatorNext

\* Whatever the gates, the delays, the stops and the operator do, the trading
\* system keeps the promises of the TradingBook.
THEOREM ImplementsBook == Spec => BookSpec
  <1>1. IInv /\ Quoted /\ [Next]_vars => [Book!Next]_(Book!bookVars)
    BY BookStep
  <1>2. QED
    BY <1>1, BookInit, QuotedAlways, PTL DEF Spec, BookSpec, Book!BookSpec
=============================================================================
