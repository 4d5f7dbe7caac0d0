---------------------------- MODULE TradingBook -----------------------------
(***************************************************************************)
(* What a trader may rely on, whatever gates, delays, stops and calls of   *)
(* an operator carry it out: an order is settled at most once and until    *)
(* then does nothing to the book; a symbol has at most one holding, opened *)
(* by an order for it, of no more than was asked for, at a price the       *)
(* market has quoted; a holding stays as it is until all of it leaves, at  *)
(* a quote or against an opposite order that covers it; and the balance    *)
(* moves by the profit of what leaves and by nothing else.                 *)
(***************************************************************************)
EXTENDS Integers

CONSTANTS Symbols, OrderIds,
          Requests,        \* what orders ask for: symbol, side and quantity among others
          Quotes,          \* the prices the market quotes
          Deal(_, _),      \* Deal(side, quote): the price of an order at a quote
          Commission,      \* for each contract that leaves
          OpeningBalance,
          NoRequest, NoHolding

VARIABLES asked,    \* what each order asked for
          settled,  \* the orders that are through
          book,     \* the holding of each symbol
          balance

bookVars == <<asked, settled, book, balance>>

Admitted == {o \in OrderIds : asked[o] # NoRequest}

Init ==
    /\ asked = [o \in OrderIds |-> NoRequest]
    /\ settled = {}
    /\ book = [s \in Symbols |-> NoHolding]
    /\ balance = OpeningBalance

Profit(holding, exit) ==
    LET gain == IF asked[holding.order].side = "buy"
                THEN exit - holding.entry ELSE holding.entry - exit
    IN  gain * holding.quantity - Commission * holding.quantity

Admit(o, request) ==
    /\ asked[o] = NoRequest
    /\ asked' = [asked EXCEPT ![o] = request]
    /\ UNCHANGED <<settled, book, balance>>

\* A holding leaves, whoever sees to it.
Leave(s, exit) ==
    /\ book[s] # NoHolding
    /\ book' = [book EXCEPT ![s] = NoHolding]
    /\ balance' = balance + Profit(book[s], exit)

Open(o, quantity, quote) ==
    LET s == asked[o].symbol IN
    /\ book[s] = NoHolding
    /\ book' = [book EXCEPT ![s] = [order |-> o, quantity |-> quantity,
                                    entry |-> Deal(asked[o].side, quote)]]
    /\ UNCHANGED balance

CloseAgainst(o, quote) ==
    LET s == asked[o].symbol IN
    /\ Leave(s, Deal(asked[o].side, quote))
    /\ asked[o].side # asked[book[s].order].side
    /\ asked[o].quantity >= book[s].quantity

\* An order is through: it was rejected, was added to a holding or was too small
\* to close one, all to no effect; or it opened a holding, or closed one.
Settle(o) ==
    /\ o \notin settled
    /\ settled' = settled \cup {o}
    /\ UNCHANGED asked
    /\ \/ UNCHANGED <<book, balance>>
       \/ \E quote \in Quotes :
             \/ \E quantity \in 1..asked[o].quantity : Open(o, quantity, quote)
             \/ CloseAgainst(o, quote)

CloseAtQuote(s) ==
    /\ UNCHANGED <<asked, settled>>
    /\ \E quote \in Quotes : Leave(s, quote)

Next ==
    \/ \E o \in OrderIds, request \in Requests : Admit(o, request)
    \/ \E o \in Admitted : Settle(o)
    \/ \E s \in Symbols : CloseAtQuote(s)

BookSpec == Init /\ [][Next]_bookVars
=============================================================================
