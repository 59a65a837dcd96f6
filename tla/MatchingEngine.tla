--------------------------- MODULE MatchingEngine ---------------------------
(***************************************************************************)
(* The authoritative matching engine: one book per instrument, the         *)
(* directory of live orders, and the three commands.                       *)
(*                                                                         *)
(* The engine runs on one thread.  A command that is accepted becomes the  *)
(* `incoming' order; each iteration of the matching loop is one MatchAt,   *)
(* and the command ends with RestRemainder or DiscardRemainder.  While an  *)
(* order is incoming no other command is taken, exactly as process() does  *)
(* not return before its loop is over; the steps are separate because the  *)
(* event sink (ledger, market data, execution reports) runs inside them.   *)
(* RiskGatedEngine puts the actions together with the risk check and the   *)
(* ledger: that is the engine the gateway runs.                            *)
(*                                                                         *)
(* A book is its slab of orders and, for each side and price, the queue of *)
(* slab handles.  A handle is modelled by the exchange order id of the     *)
(* order in it.  next_exchange_order_id_ and next_priority_ start at 1 and *)
(* are incremented at the same two places, so one counter stands for both  *)
(* and an order's id is also its time priority.  The event sequence stamp  *)
(* is left out: every event takes the next one.                            *)
(***************************************************************************)
EXTENDS ExchangeTypes, Sums

CONSTANTS
  MaxOrderId,      \* bound: highest exchange order id assigned
  FreshReplaceIds  \* clients never replace onto an id that is still live

ASSUME BoundAssumption == MaxOrderId \in Nat /\ FreshReplaceIds \in BOOLEAN

VARIABLES
  slab,          \* handle -> resting BookOrder (every MatchingBook's slab)
  levels,        \* <<instrument, side, price>> -> queue of handles
  orders,        \* live key -> OrderRef (orders_)
  restingOrders, \* resting_orders_, the counter other threads read
  nextOrderId,   \* next_exchange_order_id_, next_priority_
  incoming       \* <<>>, or <<the order process() is matching>>

engineVars == <<slab, levels, orders, restingOrders, nextOrderId, incoming>>

OrderIds == 1..MaxOrderId

BookKeys == Instruments \X Sides \X Prices

BookOrder ==
  [key : LiveKeys, instrument : Instruments, side : Sides, price : Prices,
   remaining : Nat \ {0}, time_in_force : TimeInForce]

OrderRef ==
  [original : Quantities, handle : OrderIds, instrument : Instruments]

EngineInit ==
  /\ slab = << >>
  /\ levels = [b \in BookKeys |-> << >>]
  /\ orders = << >>
  /\ restingOrders = 0
  /\ nextOrderId = 1
  /\ incoming = << >>

Idle == incoming = << >>

KnowsInstrument(i) == i \in Instruments
-----------------------------------------------------------------------------
(***************************************************************************)
(* MatchingBook, to the engine's eye.                                      *)
(***************************************************************************)
LevelOf(order) == <<order.instrument, order.side, order.price>>

IsBestPrice(i, side, p) ==
  /\ levels[<<i, side, p>>] # << >>
  /\ \A q \in Prices :
       levels[<<i, side, q>>] # << >> => AtLeastAsGood(side, p, q)

FrontOf(i, side, p) == Head(levels[<<i, side, p>>])

\* Mutant of Unlink: the last order of the level takes the place of the hole.
UnlinkBySwap(queue, h) ==
  LET k == CHOOSE j \in DOMAIN queue : queue[j] = h
  IN  [j \in 1..(Len(queue) - 1) |-> IF j = k THEN queue[Len(queue)] ELSE queue[j]]

\* MatchingBook::unlink: every other order keeps its place in the queue.
Unlink(queue, h) ==
  LET k == CHOOSE j \in DOMAIN queue : queue[j] = h
  IN  [j \in 1..(Len(queue) - 1) |-> IF j < k THEN queue[j] ELSE queue[j + 1]]

BookAdd(h, order) ==
  /\ slab' = InsertOrAssign(slab, h, order)
  /\ levels' = [levels EXCEPT ![LevelOf(order)] = Append(@, h)]

BookRemoveAt(h) ==
  /\ slab' = Erase(slab, h)
  /\ levels' = [levels EXCEPT ![LevelOf(slab[h])] = Unlink(@, h)]

\* Mutant of CrossableQuantity: counts prices beyond the limit too.
ContraQuantity(i, side, limit) ==
  SumOver([h \in DOMAIN slab |-> slab[h].remaining],
          {h \in DOMAIN slab : /\ slab[h].instrument = i
                               /\ slab[h].side = Contra(side)})

\* An incoming order limited at `limit' may trade with the resting order h.
CanTradeWith(h, i, side, limit) ==
  /\ slab[h].instrument = i
  /\ slab[h].side = Contra(side)
  /\ Crosses(side, limit, slab[h].price)

\* The quantity resting on the contra side at the limit or better.
CrossableQuantity(i, side, limit) ==
  SumOver([h \in DOMAIN slab |-> slab[h].remaining],
          {h \in DOMAIN slab : CanTradeWith(h, i, side, limit)})
-----------------------------------------------------------------------------
(***************************************************************************)
(* process_new_order.  The early returns, in the code's order, are the     *)
(* conjuncts; a command that fails one only emits OrderRejected.           *)
(***************************************************************************)
AcceptsNewOrder(cmd) ==
  /\ KnowsInstrument(cmd.instrument)
  /\ cmd.price > 0
  /\ cmd.quantity # 0
  /\ cmd.key \notin DOMAIN orders
  /\ cmd.time_in_force = "FOK" =>
       CrossableQuantity(cmd.instrument, cmd.side, cmd.price) >= cmd.quantity

\* The order under construction, with the id and priority it was assigned.
IncomingOrder(key, instrument, side, price, quantity, tif) ==
  [id |-> nextOrderId, key |-> key, instrument |-> instrument, side |-> side,
   price |-> price, original |-> quantity, remaining |-> quantity,
   time_in_force |-> tif]

ProcessNewOrder(cmd) ==
  /\ Idle
  /\ AcceptsNewOrder(cmd)
  /\ nextOrderId <= MaxOrderId
  /\ nextOrderId' = nextOrderId + 1
  /\ incoming' = <<IncomingOrder(cmd.key, cmd.instrument, cmd.side, cmd.price,
                                 cmd.quantity, cmd.time_in_force)>>
  /\ UNCHANGED <<slab, levels, orders, restingOrders>>
-----------------------------------------------------------------------------
(***************************************************************************)
(* match_and_rest: one iteration of the loop, against the front order of   *)
(* the best contra level, at the resting order's price.                    *)
(***************************************************************************)
MatchesAt(p) ==
  /\ ~Idle
  /\ incoming[1].remaining > 0
  /\ IsBestPrice(incoming[1].instrument, Contra(incoming[1].side), p)
  /\ Crosses(incoming[1].side, incoming[1].price, p)

FrontHandle(p) ==
  FrontOf(incoming[1].instrument, Contra(incoming[1].side), p)

TradeQuantity(p) == Lesser(incoming[1].remaining, slab[FrontHandle(p)].remaining)

\* The TradeExecuted event: both legs with what is left of their orders.
TradeExecuted(p) ==
  LET order    == incoming[1]
      resting  == slab[FrontHandle(p)]
      aggressor == [key |-> order.key,
                    remaining |-> order.remaining - TradeQuantity(p)]
      passive   == [key |-> resting.key,
                    remaining |-> resting.remaining - TradeQuantity(p)]
  IN  [instrument |-> order.instrument, price |-> p,
       quantity |-> TradeQuantity(p),
       buyer  |-> IF order.side = "Buy" THEN aggressor ELSE passive,
       seller |-> IF order.side = "Buy" THEN passive ELSE aggressor]

\* remove_front, the directory erase and the counter, for a full fill.
FillFront(p) ==
  LET h == FrontHandle(p)
  IN  /\ slab' = Erase(slab, h)
      /\ levels' = [levels EXCEPT ![LevelOf(slab[h])] = Tail(@)]
      /\ orders' = Erase(orders, slab[h].key)
      /\ restingOrders' = restingOrders - 1

\* reduce_front, for a partial fill.
ReduceFront(p) ==
  /\ slab' = [slab EXCEPT ![FrontHandle(p)].remaining = @ - TradeQuantity(p)]
  /\ UNCHANGED <<levels, orders, restingOrders>>

MatchAt(p) ==
  /\ MatchesAt(p)
  /\ incoming' = [incoming EXCEPT ![1].remaining = @ - TradeQuantity(p)]
  /\ \/ /\ TradeQuantity(p) = slab[FrontHandle(p)].remaining
        /\ FillFront(p)
     \/ /\ TradeQuantity(p) < slab[FrontHandle(p)].remaining
        /\ ReduceFront(p)
  /\ UNCHANGED nextOrderId
-----------------------------------------------------------------------------
(***************************************************************************)
(* rest_remainder_if_applicable, once the loop is over.  Only a GTC        *)
(* remainder rests; an IOC or FOK remainder is discarded without an event. *)
(***************************************************************************)
MatchingDone == ~Idle /\ \A p \in Prices : ~MatchesAt(p)

Rests(order) == order.time_in_force = "GTC" /\ order.remaining > 0

RestingForm(order) ==
  [key |-> order.key, instrument |-> order.instrument, side |-> order.side,
   price |-> order.price, remaining |-> order.remaining,
   time_in_force |-> order.time_in_force]

RestRemainder ==
  LET order == incoming[1]
  IN  /\ MatchingDone
      /\ Rests(order)
      /\ BookAdd(order.id, RestingForm(order))
      /\ orders' = InsertOrAssign(orders, order.key,
                     [original |-> order.original, handle |-> order.id,
                      instrument |-> order.instrument])
      /\ restingOrders' = restingOrders + 1
      /\ incoming' = << >>
      /\ UNCHANGED nextOrderId

DiscardRemainder ==
  /\ MatchingDone
  /\ ~Rests(incoming[1])
  /\ incoming' = << >>
  /\ UNCHANGED <<slab, levels, orders, restingOrders, nextOrderId>>
-----------------------------------------------------------------------------
(***************************************************************************)
(* process_cancel and process_replace.                                     *)
(***************************************************************************)
FindsOrder(key, instrument) ==
  /\ KnowsInstrument(instrument)
  /\ key \in DOMAIN orders
  /\ orders[key].instrument = instrument

ProcessCancel(cmd) ==
  /\ Idle
  /\ FindsOrder(cmd.key, cmd.instrument)
  /\ BookRemoveAt(orders[cmd.key].handle)
  /\ orders' = Erase(orders, cmd.key)
  /\ restingOrders' = restingOrders - 1
  /\ UNCHANGED <<nextOrderId, incoming>>

AcceptsReplace(cmd) ==
  /\ KnowsInstrument(cmd.instrument)
  /\ cmd.price > 0
  /\ cmd.quantity # 0
  /\ FindsOrder(cmd.key, cmd.instrument)

Replaced(cmd) == slab[orders[cmd.key].handle]

PreservesPriority(cmd) ==
  /\ cmd.price = Replaced(cmd).price
  /\ cmd.quantity <= Replaced(cmd).remaining

\* Mutant of ProcessReplaceInPlace: the book keeps the old client order id.
ReplaceInPlaceKeepsId(cmd) ==
  /\ Idle
  /\ AcceptsReplace(cmd)
  /\ PreservesPriority(cmd)
  /\ slab' = [slab EXCEPT ![orders[cmd.key].handle].remaining = cmd.quantity]
  /\ orders' = InsertOrAssign(Erase(orders, cmd.key), NewKey(cmd), orders[cmd.key])
  /\ UNCHANGED <<levels, restingOrders, nextOrderId, incoming>>

\* Same price and no more quantity: edited in place and re-keyed.
ProcessReplaceInPlace(cmd) ==
  /\ Idle
  /\ AcceptsReplace(cmd)
  /\ PreservesPriority(cmd)
  /\ slab' = [slab EXCEPT ![orders[cmd.key].handle].remaining = cmd.quantity,
                          ![orders[cmd.key].handle].key = NewKey(cmd)]
  /\ orders' = InsertOrAssign(Erase(orders, cmd.key), NewKey(cmd), orders[cmd.key])
  /\ UNCHANGED <<levels, restingOrders, nextOrderId, incoming>>

\* Anything else is cancel-plus-new: the replacement enters the matching loop.
ProcessReplaceAsNew(cmd) ==
  /\ Idle
  /\ AcceptsReplace(cmd)
  /\ ~PreservesPriority(cmd)
  /\ nextOrderId <= MaxOrderId
  /\ BookRemoveAt(orders[cmd.key].handle)
  /\ orders' = Erase(orders, cmd.key)
  /\ restingOrders' = restingOrders - 1
  /\ nextOrderId' = nextOrderId + 1
  /\ incoming' = <<IncomingOrder(NewKey(cmd), cmd.instrument,
                     Replaced(cmd).side, cmd.price, cmd.quantity,
                     Replaced(cmd).time_in_force)>>
-----------------------------------------------------------------------------
(***************************************************************************)
(* The trader's order management system draws every id from a counter, so  *)
(* a replacement never names another order that is still live.             *)
(***************************************************************************)
ReplaceIdAllowed(cmd) ==
  FreshReplaceIds => NewKey(cmd) \notin DOMAIN orders \ {cmd.key}
-----------------------------------------------------------------------------
(***************************************************************************)
(* Properties.                                                             *)
(***************************************************************************)
IncomingForm ==
  [id : OrderIds, key : LiveKeys, instrument : Instruments, side : Sides,
   price : Prices, original : Quantities, remaining : Nat,
   time_in_force : TimeInForce]

\* The state has the shape MatchingEngine and MatchingBook declare.
EngineTypeOK ==
  /\ DOMAIN slab \subseteq OrderIds
  /\ \A h \in DOMAIN slab : slab[h] \in BookOrder
  /\ slab = [h \in DOMAIN slab |-> slab[h]]
  /\ levels \in [BookKeys -> Seq(OrderIds)]
  /\ DOMAIN orders \subseteq LiveKeys
  /\ \A k \in DOMAIN orders : orders[k] \in OrderRef
  /\ restingOrders \in Int
  /\ nextOrderId \in 1..(MaxOrderId + 1)
  /\ incoming = << >> \/ incoming \in [{1} -> IncomingForm]

\* The level queues link exactly the orders in the slab, each at its own
\* instrument, side and price: no order is lost to, or freed under, a queue.
QueuesLinkTheSlab ==
  /\ \A h \in DOMAIN slab :
       \E j \in DOMAIN levels[LevelOf(slab[h])] : levels[LevelOf(slab[h])][j] = h
  /\ \A b \in BookKeys : \A j \in DOMAIN levels[b] :
       /\ levels[b][j] \in DOMAIN slab
       /\ LevelOf(slab[levels[b][j]]) = b

\* compose(): "Every order on a book has an entry here: the two are written
\* and erased together at every mutation point in this engine", and an entry
\* leads back to the one resting order that carries its key; the level queues
\* hold those orders, and resting_order_count() is their number.
DirectoryMatchesBook ==
  /\ \A h \in DOMAIN slab : /\ slab[h].key \in DOMAIN orders
                            /\ orders[slab[h].key].handle = h
  /\ \A k \in DOMAIN orders : /\ orders[k].handle \in DOMAIN slab
                              /\ slab[orders[k].handle].key = k
                              /\ slab[orders[k].handle].instrument
                                   = orders[k].instrument
  /\ QueuesLinkTheSlab
  /\ restingOrders = Cardinality(DOMAIN orders)

\* Within a level orders queue in the order they were accepted, whatever
\* mix of fills, cancels and replaces went before (strictly, so that no order
\* is queued twice).
TimePriority ==
  \A b \in BookKeys : \A j, k \in DOMAIN levels[b] :
    j < k => levels[b][j] < levels[b][k]

\* A resting bid never meets a resting offer: whatever could trade has traded
\* before a remainder rests, also when a replace re-enters at a new price.
BookNeverCrossed ==
  \A i \in Instruments : \A p, q \in Prices :
    levels[<<i, "Buy", p>>] # << >> /\ levels[<<i, "Sell", q>>] # << >> => p < q

\* FOK: the pre-check counts exactly what the loop then trades, so a fill or
\* kill order that was accepted never ends with a remainder.
FokFillsCompletely ==
  MatchingDone /\ incoming[1].time_in_force = "FOK" => incoming[1].remaining = 0
=============================================================================
