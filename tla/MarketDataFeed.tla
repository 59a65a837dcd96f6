--------------------------- MODULE MarketDataFeed ---------------------------
(***************************************************************************)
(* The live feed, end to end: the matching thread publishes a public event *)
(* through MarketDataRouter, the routing thread sends batches of them as   *)
(* datagrams, the network loses, repeats and reorders those, and a         *)
(* FeedSubscriber rebuilds the books.                                      *)
(*                                                                         *)
(* The events are those the matching engine may emit: adds that do not     *)
(* cross, reductions, removals and trades of resting orders.  Private      *)
(* events consume no feed number and are left out.  The router's queue is  *)
(* the bounded FIFO that SpscQueue is shown to implement.                  *)
(***************************************************************************)
EXTENDS ReplayEngine

CONSTANTS
  QueueCapacity, \* MarketDataRouterOptions::queue_capacity
  MaxBatch,      \* MarketDataRouterOptions::max_batch
  MaxEvents,     \* bound: public events
  MaxArrivals    \* bound: datagrams that reach the subscriber

ASSUME FeedAssumption ==
  /\ QueueCapacity \in Nat \ {0} /\ MaxBatch \in Nat \ {0}
  /\ MaxEvents \in Nat /\ MaxArrivals \in Nat

VARIABLES
  published,     \* history: the public events, in the order they happened
  next_sequence, \* MarketDataPublisher::next_sequence_
  queue,         \* queue_
  dropped,       \* queue_'s dropped_count_
  batch,         \* batch_
  rpc,           \* where routing_loop is
  stopRequested, \* stop_source_
  sent,          \* the datagrams handed to the network so far
  arrivals,      \* packets_received_
  inbox,         \* frames of the datagram being applied, still to be applied
  out,           \* the subscriber's outcome_ and validator
  first          \* history: number of the first event it applied, or 0

publisherVars == <<published, next_sequence, dropped>>
routerVars == <<batch, rpc, sent>>
subscriberVars == <<arrivals, inbox, out, first>>
vars == <<publisherVars, queue, routerVars, stopRequested, subscriberVars>>

Init ==
  /\ published = << >> /\ next_sequence = 1
  /\ queue = << >> /\ dropped = 0
  /\ batch = << >> /\ rpc = "drain" /\ sent = << >>
  /\ stopRequested = FALSE
  /\ arrivals = 0 /\ inbox = << >> /\ out = NewOutcome /\ first = 0
-----------------------------------------------------------------------------
(***************************************************************************)
(* What the matching engine may announce next.                             *)
(***************************************************************************)
Resting(i) == OrdersAfter(published, Len(published), i)

NextOrderId ==
  1 + Cardinality({n \in DOMAIN published : published[n].type = "AddOrder"})

Crossed(side, price, orders) ==
  \E o \in orders :
    /\ o.side # side
    /\ IF side = "Buy" THEN price >= o.price ELSE price <= o.price

BookOrderAdded(i) ==
  {[type |-> "AddOrder", instrument |-> i, order_id |-> NextOrderId,
    side |-> side, price |-> price, quantity |-> quantity] :
      side \in Sides, price \in Prices, quantity \in Quantities}

BookOrderReduced(i) ==
  {[type |-> "ModifyOrder", instrument |-> i, order_id |-> o.order_id,
    price |-> o.price, quantity |-> quantity] :
      o \in Resting(i), quantity \in Quantities}

BookOrderRemoved(i) ==
  {[type |-> "CancelOrder", instrument |-> i, order_id |-> o.order_id] :
      o \in Resting(i)}

TradeExecuted(i) ==
  {[type |-> "Trade", instrument |-> i, price |-> o.price,
    quantity |-> o.quantity] : o \in Resting(i)}

PublicEvents(i) ==
  {e \in BookOrderAdded(i) : /\ e.order_id \in OrderIds
                             /\ ~Crossed(e.side, e.price, Resting(i))}
  \cup {e \in BookOrderReduced(i) :
          \E o \in Resting(i) : o.order_id = e.order_id /\ e.quantity < o.quantity}
  \cup BookOrderRemoved(i) \cup TradeExecuted(i)
-----------------------------------------------------------------------------
(***************************************************************************)
(* publish(), on the matching thread.  The event takes its number before   *)
(* the push.  Nobody holds wake_mutex_ here, so the notification reaches   *)
(* the routing thread only if it already sleeps.                           *)
(***************************************************************************)
\* The event as it goes on the wire.
Numbered(e, seq) ==
  [field \in DOMAIN e \cup {"seq"} |-> IF field = "seq" THEN seq ELSE e[field]]

Notified == IF rpc = "asleep" THEN "drain" ELSE rpc

\* Mutant of Publish: an event that found no room takes no number.
PublishThenNumber(e) ==
  /\ published' = Append(published, e)
  /\ IF Len(queue) < QueueCapacity
     THEN /\ queue' = Append(queue, Numbered(e, next_sequence))
          /\ next_sequence' = next_sequence + 1
          /\ rpc' = Notified /\ UNCHANGED dropped
     ELSE dropped' = dropped + 1 /\ UNCHANGED <<queue, rpc, next_sequence>>
  /\ UNCHANGED <<batch, sent, stopRequested, subscriberVars>>

Publish(e) ==
  /\ published' = Append(published, e)
  /\ next_sequence' = next_sequence + 1
  /\ IF Len(queue) < QueueCapacity
     THEN /\ queue' = Append(queue, Numbered(e, next_sequence))
          /\ rpc' = Notified /\ UNCHANGED dropped
     ELSE dropped' = dropped + 1 /\ UNCHANGED <<queue, rpc>>
  /\ UNCHANGED <<batch, sent, stopRequested, subscriberVars>>

PublishEvent ==
  /\ Len(published) < MaxEvents
  /\ \E i \in Instruments : \E e \in PublicEvents(i) : Publish(e)
-----------------------------------------------------------------------------
(***************************************************************************)
(* routing_loop.                                                           *)
(***************************************************************************)
RouterUnchanged ==
  UNCHANGED <<publisherVars, stopRequested, subscriberVars>>

PopEvent ==
  /\ rpc = "drain" /\ queue # << >> /\ Len(batch) < MaxBatch
  /\ batch' = Append(batch, Head(queue))
  /\ queue' = Tail(queue)
  /\ UNCHANGED <<rpc, sent>> /\ RouterUnchanged

\* The batch is full or the next pop came back empty: one datagram.
SendBatch ==
  /\ rpc = "drain" /\ batch # << >>
  /\ Len(batch) = MaxBatch \/ queue = << >>
  /\ sent' = Append(sent, batch)
  /\ batch' = << >>
  /\ UNCHANGED <<queue, rpc>> /\ RouterUnchanged

FindNothing ==
  /\ rpc = "drain" /\ queue = << >> /\ batch = << >>
  /\ rpc' = "check"
  /\ UNCHANGED <<queue, batch, sent>> /\ RouterUnchanged

CheckStop ==
  /\ rpc = "check"
  /\ rpc' = IF stopRequested THEN "exited" ELSE "predicate"
  /\ UNCHANGED <<queue, batch, sent>> /\ RouterUnchanged

\* wait_for evaluates its predicate, and then goes to sleep.
EvaluatePredicate ==
  /\ rpc = "predicate"
  /\ rpc' = IF stopRequested \/ queue # << >> THEN "drain" ELSE "falling"
  /\ UNCHANGED <<queue, batch, sent>> /\ RouterUnchanged

FallAsleep ==
  /\ rpc = "falling" /\ rpc' = "asleep"
  /\ UNCHANGED <<queue, batch, sent>> /\ RouterUnchanged

\* Mutant of WaitTimesOut: wait() in place of wait_for().
WaitForNotification ==
  /\ rpc = "asleep" /\ stopRequested /\ rpc' = "drain"
  /\ UNCHANGED <<queue, batch, sent>> /\ RouterUnchanged

\* idle_timeout_ is over, or the wake-up was spurious.
WaitTimesOut ==
  /\ rpc = "asleep" /\ rpc' = "drain"
  /\ UNCHANGED <<queue, batch, sent>> /\ RouterUnchanged

RoutingThread ==
  \/ PopEvent \/ SendBatch \/ FindNothing \/ CheckStop
  \/ EvaluatePredicate \/ FallAsleep \/ WaitTimesOut

\* stop(), on the owner's thread; notify_all without the mutex.
RequestStop ==
  /\ ~stopRequested /\ stopRequested' = TRUE
  /\ rpc' = Notified
  /\ UNCHANGED <<publisherVars, queue, batch, sent, subscriberVars>>
-----------------------------------------------------------------------------
(***************************************************************************)
(* receive_loop of the FeedSubscriber.  The network delivers any datagram  *)
(* sent so far, any number of times, in any order, or never.  A frame is   *)
(* one step: on_event shows the strategies the book after each.            *)
(***************************************************************************)
LiveOptions ==
  [stop_on_sequence_error |-> FALSE, stop_on_decode_error |-> FALSE,
   snapshot |-> NoSnapshot]

Receive(datagram) ==
  /\ arrivals' = arrivals + 1
  /\ inbox' = datagram
  /\ UNCHANGED <<publisherVars, queue, routerVars, stopRequested, out, first>>

\* unpack_frames refuses the datagram: counted, and skipped as a whole.
ReceiveDamaged ==
  /\ arrivals' = arrivals + 1
  /\ UNCHANGED <<publisherVars, queue, routerVars, stopRequested, inbox, out,
                 first>>

ReceiveDatagram ==
  /\ arrivals < MaxArrivals /\ inbox = << >>
  /\ sent # << >>
  /\ ReceiveDamaged \/ \E d \in DOMAIN sent : Receive(sent[d])

ApplyNextFrame ==
  /\ inbox # << >>
  /\ inbox' = Tail(inbox)
  /\ out' = ApplyFrame(out, Head(inbox), LiveOptions)
  /\ first' = IF first = 0 THEN out'.last_seen ELSE first
  /\ UNCHANGED <<publisherVars, queue, routerVars, stopRequested, arrivals>>

\* The routing thread has left; what it sent may still arrive.
Finished ==
  /\ rpc = "exited" /\ Len(published) = MaxEvents
  /\ UNCHANGED vars

Next ==
  \/ PublishEvent \/ RoutingThread \/ RequestStop
  \/ ReceiveDatagram \/ ApplyNextFrame \/ Finished

Spec == Init /\ [][Next]_vars

\* The routing thread keeps running; nobody has to publish or to receive.
FairSpec == Spec /\ WF_vars(RoutingThread)
-----------------------------------------------------------------------------
(***************************************************************************)
(* Properties.                                                             *)
(***************************************************************************)
FeedTypeOK ==
  /\ next_sequence \in 1..(MaxEvents + 1)
  /\ Len(queue) <= QueueCapacity /\ Len(batch) <= MaxBatch
  /\ dropped \in 0..MaxEvents /\ arrivals \in 0..MaxArrivals
  /\ rpc \in {"drain", "check", "predicate", "falling", "asleep", "exited"}
  /\ stopRequested \in BOOLEAN
  /\ out \in Outcome /\ first \in 0..MaxEvents

\* "The next delivered event therefore exposes a detectable sequence gap":
\* while the subscriber has counted no failure, it has applied every event
\* from its first one on, whatever was dropped, lost, repeated or reordered.
HolesAreCounted ==
  out.sequence_failures = 0 =>
    out.messages_processed = (IF first = 0 THEN 0 ELSE out.last_seen - first + 1)

\* A subscriber that was there from the first event and has counted no failure
\* holds exactly the exchange's resting orders as of the last event applied.
QuietMeansMirrored ==
  out.sequence_failures = 0 /\ first = 1 =>
    /\ out.book_errors = 0
    /\ \A i \in Instruments :
         /\ RestingOrders(out.books[i].book) =
              OrdersAfter(published, out.last_seen, i)
         /\ IndexMatchesLevels(out.books[i].book)

Numbers(events) == {events[n].seq : n \in DOMAIN events}

\* Every event that got into the queue is sent, although the notification may
\* come between the predicate and the sleep; unless stop() is called.
QueuedIsSent ==
  \A n \in 1..MaxEvents :
    n \in Numbers(queue) ~> (stopRequested \/ n \in Numbers(FlattenSeq(sent)))
=============================================================================
