---------------------------- MODULE ReplayEngine ----------------------------
(***************************************************************************)
(* How a consumer applies the frames of a feed, wherever they come from:   *)
(* SequenceValidator, apply_frame_result and the recovery from a snapshot. *)
(* FeedSubscriber, the UDP listener and file replay all go through this.   *)
(*                                                                         *)
(* A frame is a wire event or Undecodable.  An outcome is ReplayOutcome    *)
(* together with the validator that accompanies it; 0 stands for an empty  *)
(* optional<Sequence>, since feed numbers start at 1.  The per-type        *)
(* message counters and the texts of stop reasons are left out.            *)
(***************************************************************************)
EXTENDS OrderBook

CONSTANTS
  Undecodable,     \* a frame whose content does not decode
  NoSnapshot,      \* recovery_snapshot_path is not set
  DamagedSnapshot  \* a file there that read_snapshot refuses

Outcome ==
  [books : [Instruments -> [book : Book, trades : [trade_count : Nat,
              traded_quantity : Nat, last_trade_price : Nat]]],
   last_seen : Nat, last_sequence_number : Nat, messages_processed : Nat,
   sequence_failures : Nat, decode_failures : Nat, book_errors : Nat,
   recoveries : Nat, stopped_early : BOOLEAN]

NewOutcome ==
  [books |-> NoBooks, last_seen |-> 0, last_sequence_number |-> 0,
   messages_processed |-> 0, sequence_failures |-> 0, decode_failures |-> 0,
   book_errors |-> 0, recoveries |-> 0, stopped_early |-> FALSE]
-----------------------------------------------------------------------------
(***************************************************************************)
(* SequenceValidator::check.                                               *)
(***************************************************************************)
\* Mutant of Classify: everything that moves forward is in order.
ClassifyForward(last, seq) ==
  IF last = 0 \/ seq > last THEN "InOrder"
  ELSE IF seq = last THEN "Duplicate"
  ELSE "OutOfOrder"

Classify(last, seq) ==
  IF last = 0 \/ seq = last + 1 THEN "InOrder"
  ELSE IF seq = last THEN "Duplicate"
  ELSE IF seq < last THEN "OutOfOrder"
  ELSE "Missing"

\* last_seen_ after the check: a gap advances it, the past does not move it.
Observe(last, seq) ==
  IF Classify(last, seq) \in {"InOrder", "Missing"} THEN seq ELSE last
-----------------------------------------------------------------------------
(***************************************************************************)
(* apply_event, snapshots and apply_frame_result.                          *)
(***************************************************************************)
\* What a book operation leaves behind when it is not refused.
ChangedBook(book, e) ==
  CASE e.type = "AddOrder"    -> AddOrder(book, e)
    [] e.type = "CancelOrder" -> CancelOrder(book, e)
    [] e.type = "ModifyOrder" -> ModifyOrder(book, e)
    [] e.type = "ClearBook"   -> EmptyBook
    [] OTHER                  -> book

ApplyToBooks(books, e) ==
  [books EXCEPT
     ![e.instrument].book = IF Refuses(@, e) THEN @ ELSE ChangedBook(@, e),
     ![e.instrument].trades =
        IF e.type = "Trade" THEN RecordTrade(@, e) ELSE @]

\* write_snapshot: the orders, tagged with a sequence number; no trades.
SnapshotOf(books, seq) ==
  [sequence_number |-> seq,
   entries |-> [i \in Instruments |-> AllOrders(books[i].book, "Buy")
                                        \o AllOrders(books[i].book, "Sell")]]

\* read_snapshot of a file that can be read: add_order for every entry.
LoadSnapshot(snapshot) ==
  [i \in Instruments |->
     [book   |-> FoldLeft(LAMBDA b, e : AddOrder(b, e), EmptyBook,
                          snapshot.entries[i]),
      trades |-> NoTrades]]

\* The tail of apply_frame_result: the event is counted and applied.
ApplyEvent(out, e) ==
  [out EXCEPT !.messages_processed = @ + 1,
              !.last_sequence_number = e.seq,
              !.book_errors =
                 @ + (IF Refuses(out.books[e.instrument].book, e) THEN 1 ELSE 0),
              !.books = ApplyToBooks(@, e)]

\* A gap with a snapshot configured: re-baseline from it, or give up.
Recover(out, e, snapshot) ==
  IF snapshot = DamagedSnapshot
  THEN [out EXCEPT !.stopped_early = TRUE]
  ELSE ApplyEvent([out EXCEPT !.books = LoadSnapshot(snapshot),
                              !.recoveries = @ + 1,
                              !.last_seen = e.seq], e)

\* Mutant of ApplyDecoded: the gap is noticed after the event went in.
ApplyThenCheck(out, e, options) ==
  LET class == Classify(out.last_seen, e.seq)
      seen  == ApplyEvent([out EXCEPT !.last_seen = Observe(@, e.seq)], e)
  IN  IF class = "InOrder" THEN seen
      ELSE [seen EXCEPT !.sequence_failures = @ + 1,
                        !.stopped_early = options.stop_on_sequence_error]

ApplyDecoded(out, e, options) ==
  LET class == Classify(out.last_seen, e.seq)
      seen  == [out EXCEPT !.last_seen = Observe(@, e.seq),
                           !.sequence_failures =
                              @ + (IF class = "InOrder" THEN 0 ELSE 1)]
  IN  IF class = "Missing" /\ options.snapshot # NoSnapshot
      THEN Recover(seen, e, options.snapshot)
      ELSE IF class # "InOrder" /\ options.stop_on_sequence_error
      THEN [seen EXCEPT !.stopped_early = TRUE]
      ELSE ApplyEvent(seen, e)

\* apply_frame_result.  It returns true exactly when it sets stopped_early.
ApplyFrame(out, frame, options) ==
  IF frame = Undecodable
  THEN [out EXCEPT !.decode_failures = @ + 1,
                   !.stopped_early = @ \/ options.stop_on_decode_error]
  ELSE ApplyDecoded(out, frame, options)
-----------------------------------------------------------------------------
(***************************************************************************)
(* The sender's own view: the orders resting after the first n events of a *)
(* feed, computed without a book.                                          *)
(***************************************************************************)
AfterEvent(orders, e) ==
  LET others == {o \in orders : o.order_id # e.order_id}
  IN  CASE e.type = "AddOrder" ->
             orders \cup {[order_id |-> e.order_id, side |-> e.side,
                           price |-> e.price, quantity |-> e.quantity]}
        [] e.type = "CancelOrder" -> others
        [] e.type = "ModifyOrder" ->
             others \cup {[o EXCEPT !.price = e.price, !.quantity = e.quantity] :
                            o \in orders \ others}
        [] e.type = "ClearBook" -> {}
        [] OTHER -> orders

OrdersAfter(feed, n, i) ==
  LET after[k \in 0..n] ==
        IF k = 0 THEN {}
        ELSE IF feed[k].instrument = i THEN AfterEvent(after[k - 1], feed[k])
        ELSE after[k - 1]
  IN  after[n]
=============================================================================
