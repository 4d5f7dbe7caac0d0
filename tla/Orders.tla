------------------------------- MODULE Orders -------------------------------
(***************************************************************************)
(* Orders and positions as values: what the methods of                     *)
(* execution/models/order.py and execution/models/position.py compute.     *)
(* Money is an integer number of ticks; the sentinels NoOrder and          *)
(* NoPosition stand for "no such object yet".                              *)
(***************************************************************************)
EXTENDS Integers

CONSTANTS Symbols,       \* trading symbols
          OrderIds,      \* identities of the orders of a behaviour
          Commission,    \* commission_per_contract
          NoOrder,       \* an order id not used yet
          NoPosition     \* no entry in PaperBroker._positions

Sides == {"buy", "sell"}

Statuses == {"PENDING", "SUBMITTED", "ACCEPTED", "PARTIALLY_FILLED",
             "FILLED", "CANCELLED", "REJECTED"}

(***************************************************************************)
(* Where the coroutines that carry an order stand: submit_order sleeps     *)
(* ("sending"); the fill task exists but has not run ("queued"); it sleeps *)
(* with its price and quantity chosen ("filling"); it has ended ("done").  *)
(***************************************************************************)
Phases == {"sending", "queued", "filling", "done"}

Positive == Nat \ {0}

Signals == [symbol : Symbols, side : Sides, quantity : Positive,
            price : Positive, stop : Positive]

OrderRecords == [signal : Signals, status : Statuses, filled : Nat,
                 phase : Phases, fillPrice : Int, fillQty : Nat]

PositionRecords == [order : OrderIds, side : Sides, quantity : Positive,
                    entry : Int, stop : Positive, price : Int]

ASSUME OrdersAssumption ==
    /\ Commission \in Nat
    /\ NoOrder \notin OrderRecords
    /\ NoPosition \notin PositionRecords

-----------------------------------------------------------------------------
(* Order *)

NewOrder(sig) ==
    [signal |-> sig, status |-> "PENDING", filled |-> 0,
     phase |-> "sending", fillPrice |-> 0, fillQty |-> 0]

\* Mutant of CanCancel: a FILLED order may be cancelled too.
CanCancelFilled(order) == order.status # "REJECTED"

CanCancel(order) ==
    order.status \in {"PENDING", "SUBMITTED", "ACCEPTED", "PARTIALLY_FILLED"}

\* update_status to SUBMITTED and then ACCEPTED, in one go.
Accepted(order) == [order EXCEPT !.status = "ACCEPTED", !.phase = "queued"]

Rejected(order) == [order EXCEPT !.status = "REJECTED", !.phase = "done"]

Cancelled(order) == [order EXCEPT !.status = "CANCELLED"]

\* The fill task has chosen what it will fill after its sleep.
Filling(order, price, qty) ==
    [order EXCEPT !.phase = "filling", !.fillPrice = price, !.fillQty = qty]

\* Mutant of AddFill: > where the code has >=.
AddFillPast(order) ==
    LET total == order.filled + order.fillQty IN
    [order EXCEPT !.phase = "done",
                  !.filled = total,
                  !.status = IF total > order.signal.quantity
                             THEN "FILLED" ELSE "PARTIALLY_FILLED"]

\* add_fill looks at the quantities only, never at the status it overwrites.
AddFill(order) ==
    LET total == order.filled + order.fillQty IN
    [order EXCEPT !.phase = "done",
                  !.filled = total,
                  !.status = IF total >= order.signal.quantity
                             THEN "FILLED" ELSE "PARTIALLY_FILLED"]

-----------------------------------------------------------------------------
(* Position *)

\* Mutant of NewPosition: what was ordered instead of what was filled.
NewPositionAsOrdered(id, order) ==
    [order |-> id, side |-> order.signal.side, quantity |-> order.signal.quantity,
     entry |-> order.fillPrice, stop |-> order.signal.stop,
     price |-> order.fillPrice]

NewPosition(id, order) ==
    [order |-> id, side |-> order.signal.side, quantity |-> order.fillQty,
     entry |-> order.fillPrice, stop |-> order.signal.stop,
     price |-> order.fillPrice]

Opposite(position, side) == position.side # side

\* The gain of a position held from its entry to the given price, before costs.
Gain(position, price) ==
    IF position.side = "buy"
    THEN (price - position.entry) * position.quantity
    ELSE (position.entry - price) * position.quantity

RealizedPnl(position, exit) ==
    Gain(position, exit) - Commission * position.quantity

PositionValue(position) == position.price * position.quantity

UnrealizedPnl(position) == Gain(position, position.price)

ShouldTriggerStop(position) ==
    \/ position.side = "buy"  /\ position.price <= position.stop
    \/ position.side = "sell" /\ position.price >= position.stop
=============================================================================
