------------------------------- MODULE MCPrices -------------------------------
(* Prices with two coins of one symbol, both listed at first, and two      *)
(* sales: one from before the ids of the coins were stored, one in the     *)
(* first coin.                                                             *)
EXTENDS Prices

CoinSymbol == [i \in 1..2 |-> "X"]

Sale(symbolId, coin) == [symbol |-> "X", symbolId |-> symbolId, rate |-> [id |-> coin, quote |-> 1]]

OnSaleBefore == <<Sale(NoId, 2), Sale(1, 1)>>
=============================================================================
