-------------------------- MODULE OrderManagement --------------------------
(***************************************************************************)
(* The trader's side of order entry as operators: the state machine        *)
(* OrderManagementSystem keeps per client order id, the positions and the  *)
(* profit a fill leads to, and the pre-trade check.  One account and one   *)
(* instrument; every operator is the body of one critical section.         *)
(***************************************************************************)
EXTENDS Integers, Sequences, Sums

CONSTANTS
  MaxOrderQuantity, \* TraderRiskLimits::max_order_quantity
  QuantityModulus   \* 2^64 in the code: Quantity is unsigned

ASSUME TraderAssumption ==
  MaxOrderQuantity \in Nat /\ QuantityModulus \in Nat \ {0}

OrderStates ==
  {"PendingNew", "Live", "PartiallyFilled", "Filled", "Rejected", "Cancelled",
   "Replaced"}

PendingActions == {"None", "Cancel", "Replace"}

\* Mutant of IsTerminal: an order is over unless it is known to work.
IsTerminalUnlessLive(state) == state \notin {"Live", "PartiallyFilled"}

IsTerminal(state) == state \in {"Filled", "Rejected", "Cancelled", "Replaced"}

IsLive(state) == state \in {"Live", "PartiallyFilled"}

ClientOrder(side, price, quantity, tif) ==
  [side |-> side, price |-> price, quantity |-> quantity, remaining |-> quantity,
   time_in_force |-> tif, state |-> "PendingNew", pending |-> "None"]

Put(orders, id, order) ==
  [x \in DOMAIN orders \cup {id} |-> IF x = id THEN order ELSE orders[x]]

Drop(orders, id) == [x \in DOMAIN orders \ {id} |-> orders[x]]

\* cancel_order and replace_order do nothing unless this holds.
MayChange(orders, id) ==
  id \in DOMAIN orders /\ IsLive(orders[id].state) /\ orders[id].pending = "None"

\* The part of replace_order under the lock: the replacement is registered.
RegisterReplace(orders, id, new, price, quantity) ==
  Put([orders EXCEPT ![id].pending = "Replace"], new,
      ClientOrder(orders[id].side, price, quantity, orders[id].time_in_force))

\* What a request that could not be sent leaves behind.
SendFailed(orders, m) ==
  CASE m.type = "NewOrder" -> [orders EXCEPT ![m.id].state = "Rejected"]
    [] m.type = "CancelOrder" -> [orders EXCEPT ![m.id].pending = "None"]
    [] m.type = "ReplaceOrder" ->
         [Drop(orders, m.new_id) EXCEPT ![m.id].pending = "None"]

\* Mutant of OnRejected: only the rejection of a new order changes anything.
OnRejectedIfNew(order) ==
  [order EXCEPT !.state = IF @ = "PendingNew" THEN "Rejected" ELSE @]

\* A rejection of anything but a new order answers a cancel or a replace.
OnRejected(order) ==
  [order EXCEPT !.state = IF @ = "PendingNew" THEN "Rejected" ELSE @,
                !.pending = "None"]

OnAccepted(order, m) ==
  [order EXCEPT !.state = "Live", !.quantity = m.quantity, !.remaining = m.quantity]

OnCancelled(order) == [order EXCEPT !.state = "Cancelled", !.pending = "None"]

\* Mutant of OnReplaced: the original stays as it was.
OnReplacedNewOnly(orders, m) ==
  [id \in DOMAIN orders |->
     IF id = m.new_id
     THEN [orders[id] EXCEPT !.state = "Live", !.price = m.price,
                             !.quantity = m.quantity, !.remaining = m.quantity]
     ELSE orders[id]]

OnReplaced(orders, m) ==
  [id \in DOMAIN orders |->
     IF id = m.id THEN [orders[id] EXCEPT !.state = "Replaced", !.pending = "None"]
     ELSE IF id = m.new_id
     THEN [orders[id] EXCEPT !.state = "Live", !.price = m.price,
                             !.quantity = m.quantity, !.remaining = m.quantity]
     ELSE orders[id]]

OnTradeReport(order, m) ==
  [order EXCEPT !.remaining = m.remaining,
                !.state = IF m.remaining = 0 THEN "Filled" ELSE "PartiallyFilled"]

\* handle_message.  A message about an id that is not tracked is ignored.
HandleMessage(orders, m) ==
  IF m.type = "Replaced" THEN OnReplaced(orders, m)
  ELSE IF m.id \notin DOMAIN orders THEN orders
  ELSE [orders EXCEPT ![m.id] =
          CASE m.type = "Accepted" -> OnAccepted(@, m)
            [] m.type = "Rejected" -> OnRejected(@)
            [] m.type = "Cancelled" -> OnCancelled(@)
            [] m.type = "TradeReport" -> OnTradeReport(@, m)]

\* Mutant of FillsOf: the fill is booked at the order's own price.
FillsOfAtLimit(orders, m) ==
  IF m.type = "TradeReport" /\ m.id \in DOMAIN orders
  THEN <<[side |-> orders[m.id].side, price |-> orders[m.id].price,
          quantity |-> m.quantity]>>
  ELSE << >>

\* The Fill handed to the fill sink: the report with the order's own side.
FillsOf(orders, m) ==
  IF m.type = "TradeReport" /\ m.id \in DOMAIN orders
  THEN <<[side |-> orders[m.id].side, price |-> m.price, quantity |-> m.quantity]>>
  ELSE << >>
-----------------------------------------------------------------------------
(***************************************************************************)
(* PositionTracker and TraderRiskEngine.                                   *)
(***************************************************************************)
ApplyFill(account, fill) ==
  LET notional == fill.quantity * fill.price
  IN  IF fill.side = "Buy"
      THEN [cash |-> account.cash - notional,
            holdings |-> (account.holdings + fill.quantity) % QuantityModulus]
      ELSE [cash |-> account.cash + notional,
            holdings |-> (account.holdings - fill.quantity) % QuantityModulus]

TraderRiskAccepts(account, side, price, quantity) ==
  /\ quantity <= MaxOrderQuantity
  /\ IF side = "Buy" THEN account.cash >= quantity * price
                     ELSE account.holdings >= quantity
-----------------------------------------------------------------------------
(***************************************************************************)
(* PnlTracker.                                                             *)
(***************************************************************************)
NoPnl == [position |-> 0, open_notional |-> 0, realized |-> 0]

Magnitude(n) == IF n < 0 THEN -n ELSE n

\* C++ division, which rounds towards zero; d is positive.
Quotient(n, d) == IF n < 0 THEN -((-n) \div d) ELSE n \div d

\* Mutant of ApplyPnl: what is left of a fill past flat opens nothing.
ApplyPnlWithoutFlip(pnl, fill) ==
  LET delta  == IF fill.side = "Buy" THEN fill.quantity ELSE -fill.quantity
      sign   == IF pnl.position < 0 THEN -1 ELSE 1
      closed == Min({Magnitude(pnl.position), fill.quantity})
      basis  == Quotient(pnl.open_notional * closed, Magnitude(pnl.position))
  IN  IF pnl.position = 0 \/ (pnl.position > 0) = (delta > 0)
      THEN [pnl EXCEPT !.position = @ + delta, !.open_notional = @ + delta * fill.price]
      ELSE [position      |-> pnl.position - sign * closed,
            open_notional |-> pnl.open_notional - basis,
            realized      |-> pnl.realized + sign * closed * fill.price - basis]

\* A fill adds to the position, or closes a proportional slice of it and opens
\* the other way with what is left.
ApplyPnl(pnl, fill) ==
  LET delta    == IF fill.side = "Buy" THEN fill.quantity ELSE -fill.quantity
      sign     == IF pnl.position < 0 THEN -1 ELSE 1
      closed   == Min({Magnitude(pnl.position), fill.quantity})
      basis    == Quotient(pnl.open_notional * closed, Magnitude(pnl.position))
      flipped  == delta + sign * closed
      position == pnl.position - sign * closed + flipped
  IN  IF pnl.position = 0 \/ (pnl.position > 0) = (delta > 0)
      THEN [pnl EXCEPT !.position = @ + delta, !.open_notional = @ + delta * fill.price]
      ELSE [position      |-> position,
            open_notional |-> IF position = 0 THEN 0
                              ELSE pnl.open_notional - basis + flipped * fill.price,
            realized      |-> pnl.realized + sign * closed * fill.price - basis]
=============================================================================
