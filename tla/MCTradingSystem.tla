-------------------------- MODULE MCTradingSystem --------------------------
(* Small instances of TradingSystem for TLC.  A buy of s1 with its stop at  *)
(* the lower price, a sell of s1 with its stop at the higher one, and a buy *)
(* of s2: together they open, add to, reduce and close positions.           *)
EXTENDS TradingSystem, TLC

CONSTANTS s1, s2

BuyOne  == [symbol |-> s1, side |-> "buy", quantity |-> 1, price |-> 200, stop |-> 100]
BuyTwo  == [BuyOne EXCEPT !.quantity = 2]
SellOne == [symbol |-> s1, side |-> "sell", quantity |-> 1, price |-> 100, stop |-> 200]
BuyElse == [BuyOne EXCEPT !.symbol = s2]

OneSymbolSignals == {BuyTwo, SellOne}
TwoSymbolSignals == {BuyTwo, SellOne, BuyElse}

LowAndHigh == {100, 200}

OrderSymmetry == Permutations(OrderIds)
=============================================================================
