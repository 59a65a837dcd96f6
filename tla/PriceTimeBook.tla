--------------------------- MODULE PriceTimeBook ---------------------------
(***************************************************************************)
(* What MatchingBook promises the matching engine: per side and price one  *)
(* FIFO queue of orders, the best price first.                             *)
(***************************************************************************)
EXTENDS Integers, Sequences, FiniteSetsExt

CONSTANT Prices

VARIABLE queues   \* <<side, price>> -> sequence of [id, quantity]

Keys == {"Buy", "Sell"} \X Prices

QueuesInit == queues = [k \in Keys |-> << >>]

Occupied(side) == {p \in Prices : queues[<<side, p>>] # << >>}

Best(side) == <<side, IF side = "Buy" THEN Max(Occupied(side)) ELSE Min(Occupied(side))>>

Join(k, id, q) ==
  queues' = [queues EXCEPT ![k] = Append(@, [id |-> id, quantity |-> q])]

\* The order leaves, from anywhere, and the others keep their order.
Leave(id) ==
  queues' = [k \in Keys |-> SelectSeq(queues[k], LAMBDA o : o.id # id)]

\* The order is renamed or reduced, and keeps its place.
Edit(id, o) ==
  queues' = [k \in Keys |->
               [j \in DOMAIN queues[k] |->
                  IF queues[k][j].id = id THEN o ELSE queues[k][j]]]

LeaveFront(side) == queues' = [queues EXCEPT ![Best(side)] = Tail(@)]

ReduceFirst(side, q) == queues' = [queues EXCEPT ![Best(side)][1].quantity = q]
=============================================================================
