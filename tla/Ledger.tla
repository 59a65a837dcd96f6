------------------------------- MODULE Ledger -------------------------------
(***************************************************************************)
(* Cash and position balances per account, and the hold that locks them    *)
(* behind every live GTC order.  The ledger changes only by applying the   *)
(* engine's account events; Book* events and rejections are no-ops.  Each  *)
(* event handler is an operator from ledger to ledger, because one trade   *)
(* settles two legs one after the other on what may be one account.        *)
(***************************************************************************)
EXTENDS ExchangeTypes

CONSTANTS SeedCash, SeedPosition \* what deposit_cash, deposit_position seed

ASSUME SeedAssumption == SeedCash \in Nat /\ SeedPosition \in Nat

VARIABLE ledger

Positions == Accounts \X Instruments

Hold == [instrument : Instruments, side : Sides, limit_price : Prices,
         remaining : Nat \ {0}]

LedgerInit ==
  ledger = [cash_total        |-> [a \in Accounts |-> SeedCash],
            cash_reserved     |-> [a \in Accounts |-> 0],
            position_total    |-> [x \in Positions |-> SeedPosition],
            position_reserved |-> [x \in Positions |-> 0],
            holds             |-> << >>,
            hold_count        |-> 0]

AvailableCash(a) == ledger.cash_total[a] - ledger.cash_reserved[a]

AvailablePosition(a, i) ==
  ledger.position_total[<<a, i>>] - ledger.position_reserved[<<a, i>>]
-----------------------------------------------------------------------------
\* What a quantity locks: cash at the limit price, or units.  Negative
\* quantities release.
Reserve(l, a, i, side, limit, quantity) ==
  IF side = "Buy"
  THEN [l EXCEPT !.cash_reserved[a] = @ + quantity * limit]
  ELSE [l EXCEPT !.position_reserved[<<a, i>>] = @ + quantity]

OpenHold(l, key, i, side, limit, quantity) ==
  IF quantity = 0
  THEN l
  ELSE [Reserve(l, key[1], i, side, limit, quantity) EXCEPT
          !.holds = InsertOrAssign(@, key,
             [instrument |-> i, side |-> side, limit_price |-> limit,
              remaining |-> quantity]),
          !.hold_count = IF key \in DOMAIN l.holds THEN @ ELSE @ + 1]

EraseHold(l, key) ==
  [l EXCEPT !.holds = Erase(@, key), !.hold_count = @ - 1]

ReleaseHoldFully(l, key) ==
  LET hold == l.holds[key]
  IN  Reserve(l, key[1], hold.instrument, hold.side, hold.limit_price,
              - hold.remaining)

\* Releases the filled slice at the order's own limit, and shrinks the hold
\* to what the engine reports as remaining.
ReleaseSlice(l, leg, side, i, quantity) ==
  IF leg.key \notin DOMAIN l.holds
  THEN l
  ELSE LET released == Reserve(l, leg.key[1], i, side,
                               l.holds[leg.key].limit_price, - quantity)
       IN  IF leg.remaining = 0
           THEN EraseHold(released, leg.key)
           ELSE [released EXCEPT !.holds[leg.key].remaining = leg.remaining]

\* Mutant of Settle: the seller's units are not taken.
SettleBuyersUnits(l, a, side, i, price, quantity) ==
  LET bought == IF side = "Buy" THEN quantity ELSE - quantity
  IN  [l EXCEPT !.cash_total[a] = @ - bought * price,
                !.position_total[<<a, i>>] = @ + quantity]

\* Moves the totals, at the trade price, hold or no hold.
Settle(l, a, side, i, price, quantity) ==
  LET bought == IF side = "Buy" THEN quantity ELSE - quantity
  IN  [l EXCEPT !.cash_total[a] = @ - bought * price,
                !.position_total[<<a, i>>] = @ + bought]

\* Mutant of SettleLeg: a buyer's cash is released at the trade price.
SettleLegAtTradePrice(l, leg, side, i, price, quantity) ==
  LET settled == Settle(ReleaseSlice(l, leg, side, i, quantity),
                        leg.key[1], side, i, price, quantity)
  IN  IF side = "Buy" /\ leg.key \in DOMAIN l.holds
      THEN [settled EXCEPT !.cash_reserved[leg.key[1]] =
              l.cash_reserved[leg.key[1]] - quantity * price]
      ELSE settled

SettleLeg(l, leg, side, i, price, quantity) ==
  Settle(ReleaseSlice(l, leg, side, i, quantity),
         leg.key[1], side, i, price, quantity)
-----------------------------------------------------------------------------
(***************************************************************************)
(* Ledger::apply, by event.                                                *)
(***************************************************************************)
OnOrderAccepted(l, cmd) ==
  IF cmd.time_in_force # "GTC"
  THEN l
  ELSE OpenHold(l, cmd.key, cmd.instrument, cmd.side, cmd.price, cmd.quantity)

\* Mutant of OnOrderReplaced: the new hold keeps the old limit price.
OnOrderReplacedAtOldPrice(l, cmd) ==
  IF cmd.key \notin DOMAIN l.holds
  THEN l
  ELSE OpenHold(EraseHold(ReleaseHoldFully(l, cmd.key), cmd.key),
                NewKey(cmd), cmd.instrument, l.holds[cmd.key].side,
                l.holds[cmd.key].limit_price, cmd.quantity)

OnOrderReplaced(l, cmd) ==
  IF cmd.key \notin DOMAIN l.holds
  THEN l
  ELSE OpenHold(EraseHold(ReleaseHoldFully(l, cmd.key), cmd.key),
                NewKey(cmd), cmd.instrument, l.holds[cmd.key].side,
                cmd.price, cmd.quantity)

OnOrderCancelled(l, key) ==
  IF key \notin DOMAIN l.holds
  THEN l
  ELSE EraseHold(ReleaseHoldFully(l, key), key)

OnTradeExecuted(l, trade) ==
  SettleLeg(
    SettleLeg(l, trade.buyer, "Buy", trade.instrument, trade.price,
              trade.quantity),
    trade.seller, "Sell", trade.instrument, trade.price, trade.quantity)
=============================================================================
