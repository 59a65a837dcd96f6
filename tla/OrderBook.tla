----------------------------- MODULE OrderBook -----------------------------
(***************************************************************************)
(* The book a market data consumer rebuilds, and BookManager, its map from *)
(* instruments to books and trade statistics.  Every operation is a        *)
(* function from book to book; one that the code refuses with a BookError  *)
(* returns the book as it was, and Refuses says so beforehand.             *)
(*                                                                         *)
(* A book has, for each side and price, the level's queue of orders, and   *)
(* the index from order ids to levels.  The aggregate a level caches is    *)
(* the sum over its queue.                                                 *)
(***************************************************************************)
EXTENDS Integers, Sequences, FiniteSets, SequencesExt, Maps

CONSTANTS
  Instruments, \* instrument ids on the feed
  OrderIds,    \* exchange order ids on the feed
  Prices,      \* the positive prices that occur
  Quantities   \* the positive quantities that occur

ASSUME BookAssumption ==
  /\ OrderIds \subseteq Nat \ {0}
  /\ Prices \subseteq Nat \ {0}
  /\ Quantities \subseteq Nat \ {0}

Sides == {"Buy", "Sell"}

Level == Sides \X Prices

EmptyBook == [levels |-> [l \in Level |-> << >>], index |-> << >>]

Book ==
  [levels : [Level -> Seq([id : OrderIds, quantity : Quantities])],
   index  : UNION {[S -> Level] : S \in SUBSET OrderIds}]

\* InstrumentStats: trades never touch the depth of the book.
NoTrades == [trade_count |-> 0, traded_quantity |-> 0, last_trade_price |-> 0]

NoBooks == [i \in Instruments |-> [book |-> EmptyBook, trades |-> NoTrades]]
-----------------------------------------------------------------------------
\* PriceLevel::add puts the order at the back of its level.
InsertOrder(book, side, id, price, quantity) ==
  [levels |-> [book.levels EXCEPT ![<<side, price>>] =
                 Append(@, [id |-> id, quantity |-> quantity])],
   index  |-> InsertOrAssign(book.index, id, <<side, price>>)]

\* Where the order with this id stands in its level; the code keeps it.
Position(queue, id) == CHOOSE k \in DOMAIN queue : queue[k].id = id

EraseOrder(book, id) ==
  [levels |-> [book.levels EXCEPT ![book.index[id]] =
                 RemoveAt(@, Position(@, id))],
   index  |-> Erase(book.index, id)]

\* The early returns of add_order, cancel_order and modify_order.
Refuses(book, e) ==
  CASE e.type = "AddOrder" ->
         e.price <= 0 \/ e.quantity = 0 \/ e.order_id \in DOMAIN book.index
    [] e.type = "CancelOrder" -> e.order_id \notin DOMAIN book.index
    [] e.type = "ModifyOrder" ->
         e.price <= 0 \/ e.quantity = 0 \/ e.order_id \notin DOMAIN book.index
    [] OTHER -> FALSE

AddOrder(book, e) == InsertOrder(book, e.side, e.order_id, e.price, e.quantity)

CancelOrder(book, e) == EraseOrder(book, e.order_id)

\* A modify always goes to the back of its level, a mere decrease as well.
ModifyOrder(book, e) ==
  InsertOrder(EraseOrder(book, e.order_id), book.index[e.order_id][1],
           e.order_id, e.price, e.quantity)

RecordTrade(stats, e) ==
  [trade_count      |-> stats.trade_count + 1,
   traded_quantity  |-> stats.traded_quantity + e.quantity,
   last_trade_price |-> e.price]
-----------------------------------------------------------------------------
(***************************************************************************)
(* What readers of a book see.                                             *)
(***************************************************************************)
\* std::map<Price, PriceLevel> of one side, levels that are empty erased.
PricesOn(book, side) == {p \in Prices : book.levels[<<side, p>>] # << >>}

\* all_bids and all_asks as a snapshot file holds them: AddOrder entries,
\* best level first, each level in its queue's order.
AllOrders(book, side) ==
  LET order == SetToSortSeq(PricesOn(book, side),
                 LAMBDA p, q : IF side = "Buy" THEN p > q ELSE p < q)
      entries(p) == [k \in DOMAIN book.levels[<<side, p>>] |->
                       [type     |-> "AddOrder",
                        order_id |-> book.levels[<<side, p>>][k].id,
                        side     |-> side, price |-> p,
                        quantity |-> book.levels[<<side, p>>][k].quantity]]
  IN  FlattenSeq([n \in DOMAIN order |-> entries(order[n])])

\* The orders in a book, whatever their queue positions.
RestingOrders(book) ==
  UNION {{[order_id |-> book.levels[l][k].id, side |-> l[1], price |-> l[2],
           quantity |-> book.levels[l][k].quantity] :
             k \in DOMAIN book.levels[l]} : l \in Level}

\* order_index_ and the levels name the same orders, each exactly once.
IndexMatchesLevels(book) ==
  /\ \A l \in Level : \A k \in DOMAIN book.levels[l] :
       /\ book.levels[l][k].id \in DOMAIN book.index
       /\ book.index[book.levels[l][k].id] = l
       /\ \A j \in DOMAIN book.levels[l] :
            book.levels[l][j].id = book.levels[l][k].id => j = k
  /\ \A id \in DOMAIN book.index :
       \E k \in DOMAIN book.levels[book.index[id]] :
         book.levels[book.index[id]][k].id = id
=============================================================================
