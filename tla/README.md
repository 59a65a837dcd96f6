# A TLA+ verification project for the market data handler and exchange

The repository is a small trading venue in C++: an exchange (matching engine,
ledger, pre-trade risk, order-entry gateway, market data), the traders that
connect to it (order management, order books, strategies), the feed that joins
them, the files they keep and the lock-free queues between their threads.  This
directory models them in TLA+, checks the models with TLC on small instances and
proves with TLAPS, for every instance, what the exchange core promises (the
matching engine, the ledger, both lock-free queues, the pipeline, the gateway's
routing and writing), what a trader's session with it promises (quotes, order
states, positions and profit), and what a subscriber to the feed may conclude from
a feed without failures.

## The system

```
 trader                                exchange
 ------                                --------
 strategy thread                       gateway I/O thread --submit()--> MpscQueue
   RestingQuote, OMS --TCP-->            sessions, owners                  |
 OMS reader thread   <--TCP-- batches <-- dirty list, SPSC queues <--+  matching thread
   positions, P&L                                                    |    sequencer
 feed thread                                            route_event -+    RiskGatedEngine
   FeedSubscriber  <--UDP-- routing thread <- DroppingQueue <--------+      RiskEngine, Ledger
   books                    MarketDataRouter                                MatchingEngine
                                                                              MatchingBook
 market_data_replay: capture file or datagrams -> books -> snapshot file
 command journal: commands -> file -> replay
```

| component | state it keeps | operations | shared with | what makes it correct |
|---|---|---|---|---|
| MatchingEngine | directory of live orders, counters | new, cancel, replace | matching thread; the resting count is read by others | directory and book agree, time priority, book never crossed, FOK all or nothing |
| MatchingBook | slab, free list, price ladder with bitmap, overflow map | add, remove, edit, best, walk | matching thread | behaves like one FIFO per price, forgets no level, leaks no slot |
| Ledger | cash and position totals, reservations, one hold per live GTC order | apply(event) | matching thread | holds mirror orders, reservations are the sum of holds, funds conserved |
| RiskEngine, RiskGatedEngine | limits | check, process | matching thread | nobody commits more than it owns |
| MpscQueue, SpscQueue | head, tail, slots | try_push, try_pop | producers and one consumer | bounded FIFO, no slot shared |
| MatchingPipeline, CommandSequencer | stop token, counters, next sequence | submit, loop, stop | producers, matching thread, owner | gapless sequence in admission order, nothing admitted is lost |
| OrderEntryGateway | sessions, order owners, outbound queues, dirty list | read, write, close, route | I/O thread and matching thread | an event reaches its session, every queued report is written |
| MarketDataPublisher, MarketDataRouter | feed sequence, dropping queue, batch | publish, route | matching thread, routing thread | a drop shows as a gap, nothing queued is left lying |
| FeedSubscriber, UdpListener, order book, replay | last sequence seen, books, snapshot file | apply frame, recover | receiving and applying threads, the network | the book is the exchange's or the consumer knows it is not |
| OrderManagementSystem, strategies | client order states, pending requests, quotes | submit, cancel, replace, reports | strategy thread and reader thread | the client's view converges to the exchange's, no quote is doubled |
| positions, P&L, trader risk | cash, holdings, cost of the open position | settle a fill, check | reader thread, strategy thread | they agree with the ledger and with each other |
| codecs, packets, journal, capture files | bytes | encode, decode, frame | the network, the file system | what was written whole is read back, and nothing else |

The hard parts are the hand-overs between threads without a common lock (queues,
dirty list, ownership tables, a condition variable that is notified outside its
mutex), stopping, unusual sequences of legal commands (replaces above all),
settlement in several steps, the races between a strategy and the reports it
waits for, and what is left of a feed or a file that was cut.  `PROJECT.json`
lists each hazard at its line.

## Modules

| module | models | notes |
|---|---|---|
| `ExchangeTypes` | ids, commands, sides, map operations | shared vocabulary of the exchange |
| `MatchingEngine` | `matching_engine.cpp`, and the book as the engine sees it | one action per command, one per iteration of the matching loop |
| `Ledger` | `ledger.cpp` | event handlers as operators from ledger to ledger |
| `RiskGatedEngine` | `risk_engine.cpp`, `risk_gated_engine.cpp` | composes the two above; the specification of the exchange |
| `PriceTimeBook` | what `matching_book.hpp` promises | abstract book: one queue per side and price |
| `MatchingBook` | `matching_book.cpp` as it is built | runs in step with `PriceTimeBook` |
| `MpscQueue` | `mpsc_queue.hpp` | one action per atomic access |
| `SpscQueue` | `spsc_queue.hpp` | one action per atomic access |
| `BoundedFifo` | what a bounded queue promises | abstract specification of both queues |
| `MatchingPipeline` | `matching_pipeline.cpp`, `command_sequencer.cpp` | on top of `MpscQueue` |
| `ReportWriter` | the gateway's dirty list, I/O loop and writing | extends `SpscQueue`: the dirty list is one |
| `SessionRouting` | the gateway's sessions, order ownership, routing and retention | one action per critical section |
| `OrderBook` | `order_book.cpp`, `book_manager.cpp` | the trader's book, as operators |
| `ReplayEngine` | `sequence_validator.cpp`, `replay_engine.cpp`, `snapshot.cpp` | how a frame is applied, as operators |
| `MarketDataFeed` | publisher, router, network, `feed_subscriber.cpp` | composes the live feed |
| `MarketDataReplay` | `udp_listener.cpp`, `run_replay`, the feed programs | composes the recorded feed |
| `OrderManagement` | `order_management_system.cpp`, `client_order.hpp`, trackers, trader risk | one operator per critical section |
| `TradingSession` | strategies, `order_entry_client.cpp`, the exchange as one account sees it | composes a trader and the exchange |
| `WireFormats` | the three encoders and decoders, `byte_io.hpp` | as operators on bytes |
| `FrameStreams` | TCP reassembly, journal, capture, packets, snapshot files | composes them with media that cut and chunk |
| `Maps`, `Sums` | map operations, sums over finite sets | shared, and provable about |
| `CommonLemmas` | slot arithmetic; sums that follow one change | TLAPS |
| `MatchingPipelineProofs` | theorems about `MpscQueue` and `MatchingPipeline` | TLAPS |
| `SpscQueueProofs` | theorems about `SpscQueue` | TLAPS |
| `RiskGatedEngineProofs` | theorems about the exchange core: `MatchingEngine`, `Ledger`, `RiskGatedEngine` | TLAPS |
| `SessionRoutingProofs` | theorems about `SessionRouting` | TLAPS |
| `ReportWriterProofs` | theorems about `ReportWriter` | TLAPS |
| `TradingSessionProofs` | theorems about `TradingSession` | TLAPS |
| `MarketDataFeedProofs` | theorems about `MarketDataFeed`, with `OrderBook` and `ReplayEngine` under it | TLAPS |
| `MC...` | symmetry sets, sample messages and recordings, a search bound for TLC | |

Every module with a state declares a type invariant (`EngineTypeOK`,
`LedgerTypeOK`, `PipelineTypeOK`, `TypeOK`, `WriterTypeOK`, `RoutingTypeOK`,
`FeedTypeOK`, `ReplayTypeOK` ...).  They document the variables; the runs spend
their properties on behaviour.

### MatchingEngine

`slab` is the content of every book's slab, `levels` the queue of slab handles
for each instrument, side and price, `orders` the directory `orders_`,
`restingOrders` the counter other threads read.  A handle is named by the
exchange order id of the order in it; ids and priorities come from two counters
the code always increments together, so one stands for both.  A command that is
accepted becomes `incoming`; `GatedMatch` is one iteration of `match_and_rest`,
and `RestRemainder` or `DiscardRemainder` ends the command.  No other command
starts before that, because the engine is single-threaded; the steps are apart
because the event sink (ledger, routing) runs inside them.  Rejections change
nothing but the event sequence number, which is not modelled.

`FreshReplaceIds` is a promise about clients, not a check in the code: the
repository's own order management system draws every id from a counter, so it
never replaces an order onto the id of another live one.  The engine does not
check it, and the run `risk_gated` makes the promise: its `DirectoryMatchesBook`,
`HoldsMirrorOrders`, `ReservedIsHeld`, `NeverOverdrawn` and `FundsConserved` say
nothing of a client that re-uses a live id.  Disagreements says what happens then.

### Ledger and RiskGatedEngine

`ledger` is one record: totals, reservations, holds, and the hold counter.
Every event handler is an operator, because a trade applies `SettleLeg` twice,
possibly to the same account.  `RiskGatedEngine` runs, for each command, the
instrument check, the risk check, the engine's action and the ledger's handler
for the event it emits, in that order and in one step: they share the matching
thread.  Events the ledger ignores are left out.  Deposits only happen before
the server starts and are the initial state.

### PriceTimeBook and MatchingBook

`PriceTimeBook` is one variable, `queues`, and what each operation of the header
does to it.  `MatchingBook` has the book's own members: `slab` with its `next` and
`prev` links, `freeHead`, and per side the ladder, the three levels of the bitmap
(as sets of set bits, in words of `WordBits`), the base of the band and the
overflow map.  `Next` takes each operation of the code and the promised one in the
same step, so that the invariants relate the two.  A ladder entry exists only while
its tick is occupied, and a freed slot holds no order: reading either is an error
TLC reports, because the code would read what nobody initialised.  The engine's
model uses the promise; this module is why it may.

### MpscQueue

Each producer has a program counter through `try_push` (load head, load tail,
CAS, construct, publish, load tail again, raise the mark), the consumer one
through `try_pop` (check the ticket, move out, clear, advance).  `log` and
`received` are history variables.  Differences of two tickets are taken modulo
`SizeModulus`, for the code subtracts `size_t`s and they do wrap.  Accesses are
sequentially consistent.  This is an abstraction: the code uses acquire and
release on `published` and `tail_`, which order the storage accesses that
matter, and relaxed loads elsewhere; an effect that only a weaker memory order
allows is not in the model.

### MatchingPipeline

`submit()` is the producer's side of the queue; the matching thread polls,
pops, sequences and processes, and reads the stop token only after an empty
poll.  Processing a command is one step here.  The ring
under it is the detailed one, so this instance checks the ring too.

### SpscQueue

As `MpscQueue`, without the CAS.  That one thread pushes is the caller's promise,
so the set of producers is a parameter and `SingleProducer` says when the promise
is kept; `ReportWriter` instantiates the same actions with the two threads that
push to the gateway's dirty list.

### ReportWriter

How a queued report reaches its socket: `notify_writer` on the pushing thread (set
the connection's `dirty` flag, on 0 -> 1 push the connection on the dirty list,
wake the poller) and the I/O thread's loop (wait, read, drain the
dirty list, write in batches, ask for writability when the socket is full).  The
reports of one connection are counted, for nothing here depends on their content;
a trade of an account with itself queues two for one connection and wakes it once.
When the dirty list is full the code sets an overflow flag and the I/O thread
walks all connections; the model does the same.  A connection in `Failing` may
have its socket fail at any read or write.  `workload`, fixed in each behaviour,
says which threads push: the matching thread when it routes events, the I/O
thread when it hands over retained reports or answers a request for the wrong
account.  The code allows both.  What is safe is that no two calls of
`dirty_.try_push` overlap, as `ReportWriterProofs` shows; nothing in the code sees
to that once both threads push.

### SessionRouting

Which connection a report goes to.  The steps of the I/O thread are what the code
does between two acquisitions of `sessions_mutex_`: binding, claiming an order,
submitting, setting the closed flag, unbinding.  `route_event` holds the mutex for
all the reports of an event, but the closed flag is set without it, so routing has
its own steps: `ChooseTarget` for a report, `DeliverReport` for the choice, and
`UpdateOwnership` after the last one (`turn` and `target` say how far it is, and
`MutexFree` that it is not under way).  Choosing loads up to one flag per session
and is one step still: a flag that is set stays set, so the choice is the one a
single look at the last load would make.  `holds` is what the engine tells the gateway about live orders;
the rest of the engine is reduced to the private events a command may cause, in
any combination it could.  `FreshIds` is again the promise that clients draw ids
from a counter.  `origin` is a history variable: the session that sent the order.
The wake-up of the I/O thread is `ReportWriter`'s subject; here a queued message
can be written at any time.

### OrderBook, ReplayEngine

The trader's book keeps levels and an index from order id to its level; a message
about an unknown or a known id is refused and counted.  `ApplyFrame` is
`apply_frame_result`: an undecodable frame, a sequence number that is in order, a
duplicate, late, or past a gap, the policy for each, and recovery from a snapshot.
`OrdersAfter` is the reference: what rests after the first n events, computed from
the feed without a book.

### MarketDataFeed

`PublishEvent` lets the matching engine announce anything it could (adds that do
not cross, reductions, removals, trades).  The number is taken before the push, and
a full queue drops the event.  The routing thread pops up to `MaxBatch` events,
sends them as one datagram, and otherwise reads the stop token, evaluates the
predicate of its wait and falls asleep: three steps, because `publish()` and
`stop()` notify without taking the mutex.  The network delivers any datagram sent so
far, any number of times, in any order, or damaged.  `inbox` is what is left of the
datagram being applied: `ApplyNextFrame` takes one frame at a time, because the
strategies are shown the book after each of them.  The router's queue is the bounded
FIFO that `SpscQueue` implements.

### MarketDataReplay

Sessions of `market_data_replay` about one recording, which is anything
`feed_generator` could have written (`GeneratedFeed` is an assumption TLC evaluates
on each recording).  A file session reads frames, and the file may be damaged at any
frame.  A listening session has a producer that receives datagrams of `udp_sender`
and pushes their frames, and a consumer that applies them; one stop source is
shared.  `file` is the snapshot, which survives the process; the process may die
while it writes it.  `trusted` is a history variable: the book's line back to event
1 has no hole, counting a recovery whose snapshot ends right before the event that
revealed the gap.  A recovery from another snapshot is what the code accepts too; it
is in the model, and no longer trusted.

### OrderManagement, TradingSession

`orders` is the OMS's map with each order's state and pending action, `quote` the
order id each `RestingQuote` remembers, `account` and `pnl` the two trackers.
Three threads: the strategy updates one quote per step (registering under the lock,
sending afterwards), the reader handles a report and hands its fill to the position
tracker and to the P&L tracker in two later steps, the exchange takes requests one
by one.  Between those two steps (`observing`) the trackers disagree, and a strategy
may look at either.  `TradingSession` reduces the exchange
to what one account sees of it: its working orders, its totals, the risk check and
the matching loop, with other participants that may offer anything.  The
connection may drop; some of what was under way still arrives.

Abstractions: one account and one instrument; one ladder level a side; the requote
threshold is 1, so a quote is close enough if its price is equal; the momentum signal
and its cooldown are any side at any time.  The strategy looks at its order and calls
the OMS in one step: if a report comes between the two, the OMS's own check refuses
the call.  Holdings are unsigned and wrap at `QuantityModulus`, 2^64 in the code;
`WidthAssumption` says that a session's ids, at one quote each, do not buy that many.

### WireFormats, FrameStreams

A byte is a number below `Base`, and the field widths are constants.  Encoder,
decoder and `payload_size_for` are three tables for each format, transcribed from
three places in the code, so that a disagreement between them would show.
`FrameStreams` puts frames on five media: a TCP session read in chunks of any size, a
journal and a capture cut after any byte, a datagram and a snapshot that lost their
end.  A foreign frame is well framed and refused by the decoder, or as a snapshot's
entry by the reader.  A snapshot's entries are also added to the books they build
(`BookAccepts`): one that lists an order of an instrument twice, or an order without
a price or a quantity, is refused as a whole.

## Runs

| run | instance | asks |
|---|---|---|
| `risk_gated` | 2 accounts x 2 ids, 1 instrument and an unknown one, 2 prices, quantities 1-3, limit 2, 4 cash and 2 units each, 4 exchange ids | directory, time priority, uncrossed book, FOK; holds, reservations, solvency, conservation |
| `matching_book` | 3 ids, prices 2, 3 and 5, bands of 0, 4 and 8 ticks, words of 2 bits | the built book is the promised book |
| `pipeline` | 2 producers x 2 submits, 2 slots, stop at any moment, fairness | slot exclusion, refinement of `BoundedFifo`, when a submit is refused, sequencing, admitted commands run |
| `spsc` | 1 producer x 5 pushes, 2 slots | exclusion, refinement of `BoundedFifo`, full means full |
| `report_writer` | 2 connections, dirty list of 2, one socket may fail, one pushing thread | no report is left behind |
| `report_progress` | 2 connections, dirty list of 1 (overflows), one pushing thread, fairness | queued reports are written |
| `dirty_two_producers` | as `report_writer`, both threads push | violation |
| `session_routing` | 2 connections, 2 accounts, 2 ids, 3 requests, 1 disconnection | privacy, order of retained reports, no duplicates, nothing queued once unbound, reports come home |
| `feed` | 2 orders, 3 events, queue of 1, batches of 2, 2 arrivals, fairness | holes are counted, a quiet subscriber mirrors the exchange, queued events are sent |
| `replay` | 3 recordings of 4 events, datagrams of 2, queue of 2, 3 arrivals, 2 sessions, fairness | trusted books are exact, sessions end |
| `trading_session` | 3 strategies, 2 reference prices, 2-3 order ids, disconnects | one order per quote, views converge, trackers agree between fills, nothing pends for ever |
| `frames` | every message type of every format, 2 frames per medium (snapshots: 2 ids, 2 instruments, 3 refused entries), chunks of 1-4 bytes, cuts anywhere | reassembly, prefixes, all or nothing |

Bounds.  Four exchange order ids let a level hold three orders and lose the one in
the middle, let an order be replaced as a new one and overtaken, and let an
aggressor sweep two levels.  Two prices give a better and a worse level on each side;
a quantity above the limit of two makes the risk check refuse.  Three prices that
are two and three ticks apart fall into one bitmap word, into two, on both sides of
the summary's boundary, and out of the band of four; with no band everything is in
the map.  Two slots with four or five pushes use each slot at least twice, so
indices of two generations meet in one slot.  Two connections are what it takes for
one dirty entry to hide another, and a dirty list of one slot overflows on the
second.  Three requests allow a new order, a replace and a cancel of one id; a
retention bound of one makes the oldest report give way; the search stops where
every connection has closed (`SomebodyStays`, a constraint of the run and not of the
specification), since nobody is left then to read or to take reports over.  Three
events over a queue
of one lose the first, the middle or the last; two arrivals repeat or swap
datagrams.  The recordings contain a modify behind another order, a level that loses
its first order, and a cleared book; a second session recovers from the first one's
snapshot.  Three order ids let a quote be placed, replaced while it fills, and the
other side be quoted.  Field widths of 2 and 3 bytes and a base of 16 keep ids that
use their leading byte and negative prices; sizes still take two bytes.  Accounts,
ids and connections are interchangeable and are symmetry sets where no liveness is
checked.

Deadlock is checked except in `trading_session` and `frames`, where a session that
used its ids and a medium that was read to its end really are finished.

Fairness.  `FairPipelineSpec` assumes that a producer past its reservation is not
suspended for ever and that the matching thread keeps running; nobody has to submit
or to call `stop()`.  `FairWriterSpec` assumes that both threads keep running and
that clients read what they are sent, without which a socket stays full.  In
`MarketDataFeed` the routing thread keeps running, its `wait_for` included, which
ends by itself after `idle_timeout`; nobody has to publish, to receive or to stop.
In `MarketDataReplay` both threads keep running, and a line without traffic times
out; no datagram has to arrive, which is why `SessionsEnd` starts with the first one
(the code waits for it without a limit).

## Disagreements

One has a run:

* `dirty_two_producers`: the dirty list is an SPSC queue with two producers, the
  matching thread and, for retained reports and mismatched accounts, the I/O
  thread.  Both can use the same slot; the connection whose entry is lost keeps
  its flag and is never drained again.

The others are stated as definitions of the models, and TLC refutes each when it is
given as a property (of the run named, with the change named):

* `PositionsCovered` (`risk_gated`, `FreshReplaceIds = FALSE`, 3 exchange ids):
  `process_replace` does not look whether the new client order id is taken.
  Replacing onto a live id overwrites its hold, leaves its order resting without a
  directory entry, and lets reserved exceed total, which the comment at
  `ledger.cpp:31` excludes.
* `StopDrainsTheQueue` (`pipeline`): a command admitted between the empty poll and
  the reading of the stop token is left in the queue, although
  `matching_pipeline.hpp:126` promises to process everything already queued.  The
  router's loop has the same order of reads, and the same comment
  (`market_data_router.cpp:151`, "queue was observed empty after stop").
* `EventsHaveAnOwner` (`session_routing`, one account): two pipelined commands on one
  id, the first of them rejected: the second one's event finds no owner and goes to
  the account's first session, although `order_entry_gateway.hpp:97` says that an
  event cannot arrive for an unknown owner.
* `ConsumerDrainsTheQueue` (`replay`): a frame pushed between the consumer's empty
  pop and its reading of the stop token stays in the queue, as do the frames behind
  an error; `udp_listener.hpp:56` says the consumer always drains.
* `LiveMeansWorking` (`trading_session`): `client_order.hpp:20` divides client orders
  into terminal and working at the exchange.  The remainder of an IOC order is
  discarded without a report, so its order stays live for ever; and a rejected
  replace leaves the id it would have had in `PendingNew`
  (`order_management_system.cpp:159`).  `QuietMeansAgreed` is what does hold.
* `NothingQueuedAfterClose` (`session_routing`): `order_entry_gateway.hpp:348` says
  that between the store of `closed` and the unbinding the flag "is what stops a
  report being pushed onto a queue whose socket is on its way out".  The store
  (`order_entry_gateway.cpp:320`) is made without `sessions_mutex_`, so it may fall
  between `route_event`'s load and its push: that report is queued on the closing
  connection and lost, and neither goes to another session of the account nor is
  retained.  The comment's second half, that after unbinding nothing can route there,
  holds (`NothingQueuedAfterUnbinding`).
* `NeverTradesWithItself` (`trading_session`): both market makers order their two
  updates so as not to cross themselves (`ladder_market_maker.cpp:34`,
  `market_maker_strategy.cpp:33`), and do all the same when the first of the two
  requests is refused or its quote is not settled yet.

One is with the repository's README, and needs no run: `README.md:875` says
that "Replace always loses time priority", while the engine keeps the priority of a
replace that only lowers the quantity, as its comments say
(`matching_engine.cpp:530`).  The models follow the code.  On the feed such a replace
is a modify, and the trader's book does move the order to the back.

Met while modelling, and contradicting nothing the repository says:

* with two producers `try_push` of the MPSC ring may refuse on an empty ring,
  because a stale `head` minus a newer `tail` wraps, and its high-water mark may
  wrap for the same reason (the deployed gateway has one producing thread);
* `order_owner_` keeps a record for an order whose remainder was discarded and
  for a command the full queue refused, so it is not bounded by the live orders;
* a live subscriber applies duplicates and late datagrams, and only counts them;
* `udp_sender` does not advance its packet number when a send fails;
* the command journal is not connected to the gateway (`docs/exchange_flow.md:970`),
  and its writer truncates a file it opens;
* a reader of order entry that meets an unknown type byte waits for ever, since it
  cannot know where the frame ends; a capture read without `stop_on_decode_error`
  goes on at a wrong offset after a damaged header;
* `RestingQuote::withdraw` forgets an order that is still `PendingNew`, which may
  come to rest later; the momentum strategy's cap counts settled fills only;
* `next_price` computes the last price of the band in `int64`, which overflows for a
  band anchored near the largest price.

## Proofs

Every theorem holds for every value of the constants that satisfies the named
ASSUMEs of its modules, which TLC evaluates on the runs.  Capacities, bounds, sets
of accounts, instruments, prices, connections, producers and ids are arbitrary;
accounts must be finite, and prices and quantities positive.  Where a theorem needs
a promise about the environment it says so:

| promise | who keeps it | needed by |
|---|---|---|
| `FreshReplaceIds` | clients that draw ids from a counter | directory, holds, reservations, solvency, conservation |
| `FreshIds` | the same, at the gateway | `ReportsComeHome` |
| `SingleProducer` | the callers of an SPSC queue | `SpscQueueProofs` |
| `WidthAssumption` | sessions far shorter than 2^64 units | `TradingSessionProofs` |
| `LonePusher` (pushes do not overlap) | nobody: see Disagreements | `ReportWriterProofs` |

**The MPSC ring and the pipeline** (`MatchingPipelineProofs`).  `TypeCorrect`,
`SlotExclusion`, `RefusalJustified`, `ImplementsBoundedFifo` for the ring.  None is
inductive alone; `RingInv` is: the histories agree with the counters; a producer
about to CAS can only win with a ticket that fits; a producer between CAS and
publish owns its ticket's slot, which is unpublished; a published slot belongs to a
pending ticket and holds its item until it is moved out; a live object is published
or about to be; and what the consumer has done to its slot.  The refinement maps the
winning CAS to a push and the move-out to a pop.  `PipelineRunsTheRing` shows that
every step of the pipeline is a step of the ring or leaves it alone, so all this
holds inside the pipeline, and with `LoopInv` (where the matching thread is, against
the ring's tail) that commands are sequenced in admission order without a gap.

**The SPSC ring** (`SpscQueueProofs`).  `RingInv` says that what the producer
loaded is current enough (its `head` is exact, its `tail` no newer than the real
one), that a pending slot holds its item, that a live object is pending or about to
be, and that the mark is raised before the occupancy.  The steps are proved under
`LonePusher`, which is weaker than one producer and is what the writer's proof needs.

**The exchange core** (`RiskGatedEngineProofs`).
`EngineInv` is inductive whatever clients do: each level queue is the ascending
sequence of the handles of its level (`Linked`); no resting bid meets a resting ask,
also in the middle of a command (`NotCrossed`); the order being matched is younger
than all that rest (`IdsFresh`); what the fill-or-kill pre-check counted still covers
the remainder (`FokCovered`).  It gives `TimePriority`, `BookNeverCrossed` and
`FokFillsCompletely`.  `DirectoryInv` (directory and slab are inverse to each other)
needs `FreshReplaceIds`, in one place: the key a replaced order moves to.
`LedgerInv` says that the hold table mirrors the live GTC orders and the one being
matched, that reserved balances are sums over that table, that nothing free is
negative, and that an IOC or FOK order, which is never held for, is covered by what
is free (`IncomingCovered`).  Without the last part `NeverOverdrawn` is not
inductive, since the risk check is made once, before a loop of trades.  The sums need
induction over finite sets; `CommonLemmas` does it as "a smallest set for which this
fails does not exist", from the library's theorem that strict inclusion is
well-founded on finite sets.

**The gateway's routing** (`SessionRoutingProofs`).  `RoutingInv` looks at all the
places a report can be (what a session received, its backlog, its queue, what is
retained for an account) and says that each holds only its account's reports, in the
order of the events, and that no report is in two places or twice in one.  It holds
for clients that do anything, and gives privacy, order and no duplicates.
`UnboundQueuesAreLeftAlone` is an action property: a session that route_event has
chosen is open, or is being closed and cannot be unbound before the mutex is free
(`TargetBound`).  `OwnershipInv` follows an id
from its introduction to its last event: an id a waiting request introduces is known
to nobody (`FreshInv`), a new order is its sender's from the claim on
(`ClaimsInv`), what the next update of the table forgets is no longer matched
(`ForgetInv`), and so a live order's owner is the session it came from, if that is
still connected (`HomeInv`).

**The writer** (`ReportWriterProofs`).  `WriterInv` follows one connection with
something to write: whoever queued the report has still to look at the dirty flag,
or write interest is on and not about to be turned off, or the flag is set
(`ReportOK`); a set flag is on record with the thread that set it, in `dirty_`, with
the I/O thread, or under the overflow flag or its scan (`DirtyOK`); and while
`dirty_` or the overflow flag holds anything the I/O thread is before the place where
it looks, or a wake-up is on its way (`RousedOK`).  `StrandedOnlyByOverlap` is the
converse of the finding: a report can be stranded only by two threads inside
`dirty_.try_push` at once.  Nothing is proved of a gateway with one notifying thread,
for there is none; the runs `report_writer` and `report_progress` check what each
thread would do alone.

**The trading session** (`TradingSessionProofs`).  `Session` is inductive for every
strategy, spread, quote size, deposit and number of ids, with a connection that may
drop at any step.  None of the five properties of the run is inductive alone, and
they need each other:

* `Known`: an id named by a request, a message or an order at the exchange is one the
  OMS knows, with the same side, price and time in force; what a request introduces
  was never heard of before; requests reach the exchange in the order of their ids.
* `PendingIsUnderWay` itself, once ids are known.
* `Sided` and `Quoted`: there is one order a side, in one of the places it can be,
  and the quote follows it until a message that ends it has been read.  This gives
  `OneOrderPerQuote`.
* `Agreement`: the last message under way that speaks of an order says what the
  exchange has of it, and where there is none the OMS knows already.  Quiet sessions
  have no messages, hence `QuietMeansAgreed`.
* `Money`: what is open for sale is covered by the ledger (`Solvent`), what is held
  and being bought stays within one quote per id that was let in (`Budget`), and the
  trade reports under way lead, fill by fill, from the trader's books to the ledger's,
  every balance on the way between zero and what the ids may buy (`Statement`).  The
  last part is why the unsigned holdings of `PositionTracker` book every fill exactly.
  In a trade of the account with itself the buyer's report goes out first, so the
  balance between the two is above the ledger's; it stays within bounds because what
  was being bought is counted by `Budget`.  `PnlExplainsCash` follows from what holds
  at every moment (`Explained`): the P&L as it will be once the fill at hand has
  reached it explains the position tracker's cash.

**The feed** (`MarketDataFeedProofs`).  `FeedInv` holds for any instruments, prices,
queue, batch and number of events, and for a network that does what it likes with
whole datagrams.  Neither `HolesAreCounted` nor `QuietMeansMirrored` is inductive:
nothing in them says what a frame is.  Four parts do:

* `Announced`: each event could be announced to the orders resting before it, an
  addition under an id nobody has, a reduction or removal of an order that rests; ids
  are below the next one.
* `UnderWay`: the queue, the batch, every datagram sent and what is left of the one
  being applied hold nothing but events that happened, each under its own number.
* `Consistent`, for each of the subscriber's books: index and levels name the same
  orders, each once.  It needs no promise about the feed (`BookFollows`), so that
  `TraderBooksStayConsistent` holds after any loss or duplication.  Told an event that
  could be announced to what it holds, a book refuses nothing and holds afterwards
  what the exchange does.
* `HolesAreCounted` and `Mirrored` (`QuietMeansMirrored`, said of the subscriber that
  has received nothing as well).  A frame in order is the next event or the first one
  received; the validator accepts any number as the first.

What rests after n events is a recursive function of n.  Its equations are not taken
for granted: `OrdersAfterNext` and `OrdersAfterSame` prove them from a smallest number
at which they could fail.  The type theorem `FeedTyped` includes that a book the
subscriber builds is a book, whatever it was sent.

Three things the proofs brought to light.  The trader's books follow the ledger only
as long as holdings do not wrap, which rests on the exchange's risk check and not on
the trader's (`WidthAssumption`, `Solvent`).  Several definitions chose between
overlapping guards with CASE, of which TLC takes the first and a proof may take
none for granted; they are written with IF now, in the code's order.  And the
single-producer requirement on the dirty list is stronger than what is needed:
serialising the pushes, by a lock or by handing them to one thread, is enough.

Model-checked only:

* liveness (`AdmittedIsProcessed`, `ReportsAreWritten`, `QueuedIsSent`,
  `SessionsEnd`), which this proof system cannot do;
* `FrameStreams` and `MatchingBook`: what a decoder or a walk over linked slots and
  bitmap words returns is a recursion over its input, and such an induction, feasible
  for sums over sets, has not been attempted here;
* `MarketDataReplay`: what a session reads back from a snapshot is a fold over the
  sorted levels of the book that was written, again a recursion over its input.  What
  its steps share with the live feed (the book, the validator, one frame applied) is
  proved above for the feed.

## Plan

1. `MarketDataReplay`: `TrustedBookIsExact`, from `BookFollows` and a lemma that a
   snapshot read back rests the orders that were written.
2. The gateway's accepting and pausing; the cross-venue arbitrage strategy.

## Not modelled

* 64-bit wrapping of money: totals and notionals are unbounded integers.  The risk
  check does multiply without a guard (`risk_engine.cpp:13`).
* Weak memory orders in the queues, as said under MpscQueue.
* Accepting connections and pausing the listener; system calls beyond what their
  users see of them.
* `CrossVenueArbitrageStrategy` and the strategy runtime, which trade on two venues
  at once and would need two exchanges.
* The UI gateway (a read-only view), the latency tracer and the benchmarks
  (measurement), the servers', the simulator's and the demos' wiring.
* The packet sequence tracker and other statistics that nothing reads to decide.
