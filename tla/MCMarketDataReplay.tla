------------------------- MODULE MCMarketDataReplay -------------------------
(***************************************************************************)
(* Three recordings: a modify and a trade behind another order, a level    *)
(* that loses its first order, and a cleared book.                         *)
(***************************************************************************)
EXTENDS MarketDataReplay

CONSTANT i1

Add(n, id, side, price, quantity) ==
  [seq |-> n, type |-> "AddOrder", instrument |-> i1, order_id |-> id,
   side |-> side, price |-> price, quantity |-> quantity]

Modify(n, id, price, quantity) ==
  [seq |-> n, type |-> "ModifyOrder", instrument |-> i1, order_id |-> id,
   price |-> price, quantity |-> quantity]

Cancel(n, id) ==
  [seq |-> n, type |-> "CancelOrder", instrument |-> i1, order_id |-> id]

Trade(n, price, quantity) ==
  [seq |-> n, type |-> "Trade", instrument |-> i1, price |-> price,
   quantity |-> quantity]

Clear(n) == [seq |-> n, type |-> "ClearBook", instrument |-> i1]

MCFeeds ==
  {<<Add(1, 1, "Buy", 1, 2), Add(2, 2, "Buy", 1, 1), Modify(3, 1, 1, 1), Trade(4, 1, 1)>>,
   <<Add(1, 1, "Sell", 2, 1), Add(2, 2, "Sell", 2, 2), Cancel(3, 1), Modify(4, 2, 1, 2)>>,
   <<Add(1, 1, "Buy", 1, 1), Clear(2), Add(3, 2, "Sell", 1, 2), Cancel(4, 2)>>}
=============================================================================
