--------------------------- MODULE MCFrameStreams ---------------------------
EXTENDS FrameStreams

\* One message of every type: each field has a value of its own, prices are
\* negative and ids use their leading byte.  Only a book has an opinion about
\* prices.
Value(field, format) ==
  CASE field \in {"side", "aggressor_side"} -> 1
    [] field = "order_type" -> 0
    [] field = "time_in_force" -> 2
    [] field = "reason" -> 12
    [] field = "instrument_id" -> 3
    [] Signed(field) -> -5
    [] field \in {"original_client_order_id", "order_id"} -> Base^W64 - 1
    [] field = "new_client_order_id" -> Base^(W64 - 1)
    [] field = "exchange_order_id" -> 7
    [] field \in {"quantity", "new_quantity"} -> 9
    [] field = "remaining_quantity" -> 0
    [] OTHER -> 11

Sample(format, t) ==
  [field \in {"type"} \cup Range(EncoderFields[format][t]) \cup Range(Hoisted[format]) |->
     IF field = "type" THEN t ELSE Value(field, format)]

Samples(format) == {Sample(format, t) : t \in MessageTypes(format)}

\* An order that rests: two ids of one instrument, one of them in two books.
Order == [Sample("market_data", "AddOrder") EXCEPT !.price = 5]

MCMessages(m) ==
  CASE m = "session" -> Samples("order_entry")
    [] m = "journal" -> {Sample("command", t) : t \in {"NewOrder", "CancelOrder", "ReplaceOrder"}}
    [] m = "snapshot" -> {Order, [Order EXCEPT !.order_id = 1], [Order EXCEPT !.instrument_id = 4]}
    [] OTHER -> Samples("market_data")

\* A side out of range; a payload of a size that is not the type's; snapshot
\* entries no book takes.
MCForeign(m) ==
  CASE m = "session" ->
         {[Sample("order_entry", "NewOrder") EXCEPT !.side = 7],
          [type |-> "Foreign", bytes |-> <<1, 0, 2, 1, 1>>],
          [type |-> "Foreign", bytes |-> <<14, 0, 0>>]}
    [] m = "datagram" -> {[Sample("market_data", "AddOrder") EXCEPT !.side = 7]}
    [] m = "snapshot" ->
         {[Order EXCEPT !.price = 0], [Order EXCEPT !.quantity = 0],
          Sample("market_data", "CancelOrder")}
    [] OTHER -> {}

MCRegistered == <<3, 4>>
=============================================================================
