-------------------------- MODULE MarketDataReplay --------------------------
(***************************************************************************)
(* The market_data_replay program: sessions that rebuild the books from a  *)
(* recorded feed, read from its file or received from udp_sender, and that *)
(* leave a snapshot from which a later session may recover.                *)
(*                                                                         *)
(* A listening session has two threads: the producer receives datagrams    *)
(* and pushes their frames on a DroppingQueue, the consumer pops and       *)
(* applies them; one stop_source is shared.  The network may lose, repeat  *)
(* and reorder datagrams.  The snapshot file survives the process, and     *)
(* the process may die while it writes it.                                 *)
(***************************************************************************)
EXTENDS ReplayEngine

CONSTANTS
  Feeds,         \* recordings, each as feed_generator may write it
  BatchSize,     \* udp_sender --batch-size
  QueueCapacity, \* market_data_replay --queue-capacity
  MaxArrivals,   \* bound: datagrams received in one session
  MaxSessions    \* bound: runs of the program

(***************************************************************************)
(* feed_generator: sequence numbers and order ids count up from 1, and it  *)
(* only cancels and modifies orders that are open.                         *)
(***************************************************************************)
GeneratedFeed(f) ==
  \A n \in DOMAIN f :
    LET adds == SelectSeq(SubSeq(f, 1, n), LAMBDA e : e.type = "AddOrder")
    IN  /\ f[n].seq = n
        /\ f[n].type = "AddOrder" => f[n].order_id = Len(adds)
        /\ f[n].type \in {"CancelOrder", "ModifyOrder"} =>
             \E o \in OrdersAfter(f, n - 1, f[n].instrument) :
               o.order_id = f[n].order_id

ASSUME ReplayAssumption ==
  /\ \A f \in Feeds : GeneratedFeed(f)
  /\ QueueCapacity \in Nat \ {0} /\ BatchSize \in Nat \ {0}

VARIABLES
  feed,          \* the recording all sessions are about
  session,       \* 0, or the number of the running session
  options,       \* its ReplayOptions
  mode,          \* "file", "listen", or "over" when its input has ended
  cursor,        \* frames read from the file
  arrivals,      \* packets_received
  inbox,         \* frames of the datagram the producer is pushing
  queue,         \* the DroppingQueue
  producing,     \* the producer thread runs
  cpc,           \* where the consumer thread is
  stopRequested, \* stop_source
  out,           \* result.outcome and the validator
  file,          \* the snapshot file, or NoSnapshot
  trusted,       \* history: the book has an unbroken line back to event 1
  fileTrusted    \* history: so had the one in the snapshot file

listenVars == <<arrivals, inbox, queue, producing, cpc, stopRequested>>
sessionVars == <<session, options, feed>>
fileVars == <<file, fileTrusted>>
vars == <<sessionVars, mode, cursor, listenVars, out, fileVars, trusted>>

Options ==
  [stop_on_sequence_error |-> TRUE, stop_on_decode_error |-> TRUE,
   snapshot |-> NoSnapshot]

Init ==
  /\ feed \in Feeds
  /\ session = 0 /\ options = Options /\ mode = "over" /\ cursor = 0
  /\ arrivals = 0 /\ inbox = << >> /\ queue = << >>
  /\ producing = FALSE /\ cpc = "exited" /\ stopRequested = FALSE
  /\ out = NewOutcome /\ trusted = FALSE
  /\ file = NoSnapshot /\ fileTrusted = FALSE

\* main(): one of --input and --listen, and --snapshot-in or not.
StartSession ==
  /\ mode = "over" /\ session < MaxSessions
  /\ session' = session + 1
  /\ mode' \in {"file", "listen"}
  /\ options' \in {Options, [Options EXCEPT !.snapshot = file]}
  /\ cursor' = 0 /\ arrivals' = 0 /\ inbox' = << >> /\ queue' = << >>
  /\ producing' = (mode' = "listen")
  /\ cpc' = IF mode' = "listen" THEN "pop" ELSE "exited"
  /\ stopRequested' = FALSE
  /\ out' = NewOutcome /\ trusted' = TRUE
  /\ UNCHANGED <<feed, fileVars>>

\* What the line back to event 1 is after the frame has been applied.
StaysTrusted(frame, o) ==
  IF frame = Undecodable \/ o.stopped_early THEN trusted
  ELSE IF o.recoveries > out.recoveries
       THEN fileTrusted /\ options.snapshot.sequence_number + 1 = frame.seq
  ELSE IF out.last_seen = 0 THEN frame.seq = 1
  ELSE trusted

Apply(frame) ==
  /\ out' = ApplyFrame(out, frame, options)
  /\ trusted' = StaysTrusted(frame, out')
-----------------------------------------------------------------------------
(***************************************************************************)
(* run_replay.  The file may have been cut at any point.                   *)
(***************************************************************************)
ReplayNext ==
  /\ mode = "file" /\ cursor < Len(feed)
  /\ cursor' = cursor + 1
  /\ \E frame \in {feed[cursor + 1], Undecodable} : Apply(frame)
  /\ mode' = IF out'.stopped_early THEN "over" ELSE mode
  /\ UNCHANGED <<sessionVars, listenVars, fileVars>>

ReplayEnds ==
  /\ mode = "file" /\ cursor = Len(feed)
  /\ mode' = "over"
  /\ UNCHANGED <<sessionVars, cursor, listenVars, out, fileVars, trusted>>
-----------------------------------------------------------------------------
(***************************************************************************)
(* The producer thread of run_udp_listen.  udp_sender packs the recording  *)
(* into datagrams of BatchSize frames; any of them may arrive now, or one  *)
(* that unpack_frames refuses whole.                                       *)
(***************************************************************************)
Datagrams ==
  {SubSeq(feed, BatchSize * k + 1,
          IF BatchSize * (k + 1) < Len(feed) THEN BatchSize * (k + 1) ELSE Len(feed)) :
     k \in 0..((Len(feed) - 1) \div BatchSize)}

ReceiveDatagram ==
  /\ producing /\ inbox = << >> /\ ~stopRequested
  /\ arrivals < MaxArrivals
  /\ arrivals' = arrivals + 1
  /\ inbox' \in Datagrams \cup {<< >>}
  /\ UNCHANGED <<sessionVars, mode, cursor, queue, producing, cpc, stopRequested,
                 out, fileVars, trusted>>

\* DroppingQueue::push of one frame: the newest is dropped when it is full.
PushFrame ==
  /\ inbox # << >>
  /\ inbox' = Tail(inbox)
  /\ queue' = IF Len(queue) < QueueCapacity THEN Append(queue, Head(inbox))
                                            ELSE queue
  /\ UNCHANGED <<sessionVars, mode, cursor, arrivals, producing, cpc,
                 stopRequested, out, fileVars, trusted>>

\* No traffic for idle_timeout after the first datagram.
ProducerIdles ==
  /\ producing /\ inbox = << >> /\ ~stopRequested /\ arrivals > 0
  /\ stopRequested' = TRUE /\ producing' = FALSE
  /\ UNCHANGED <<sessionVars, mode, cursor, arrivals, inbox, queue, cpc, out,
                 fileVars, trusted>>

ProducerStops ==
  /\ producing /\ inbox = << >> /\ stopRequested
  /\ producing' = FALSE
  /\ UNCHANGED <<sessionVars, mode, cursor, arrivals, inbox, queue, cpc,
                 stopRequested, out, fileVars, trusted>>

Producer == PushFrame \/ ProducerIdles \/ ProducerStops
-----------------------------------------------------------------------------
(***************************************************************************)
(* The consumer thread.                                                    *)
(***************************************************************************)
ConsumeFrame ==
  /\ cpc = "pop" /\ queue # << >>
  /\ queue' = Tail(queue)
  /\ Apply(Head(queue))
  /\ cpc' = IF out'.stopped_early THEN "exited" ELSE "pop"
  /\ stopRequested' = (stopRequested \/ out'.stopped_early)
  /\ UNCHANGED <<sessionVars, mode, cursor, arrivals, inbox, producing, fileVars>>

ConsumerFindsNothing ==
  /\ cpc = "pop" /\ queue = << >>
  /\ cpc' = "check"
  /\ UNCHANGED <<sessionVars, mode, cursor, arrivals, inbox, queue, producing,
                 stopRequested, out, fileVars, trusted>>

\* Mutant of ConsumerChecksStop: only an error ends the consumer.
ConsumerWaitsForFrames ==
  /\ cpc = "check"
  /\ cpc' = "pop"
  /\ UNCHANGED <<sessionVars, mode, cursor, arrivals, inbox, queue, producing,
                 stopRequested, out, fileVars, trusted>>

ConsumerChecksStop ==
  /\ cpc = "check"
  /\ cpc' = IF stopRequested THEN "exited" ELSE "pop"
  /\ UNCHANGED <<sessionVars, mode, cursor, arrivals, inbox, queue, producing,
                 stopRequested, out, fileVars, trusted>>

Consumer == ConsumeFrame \/ ConsumerFindsNothing \/ ConsumerChecksStop

ThreadsJoined == ~producing /\ cpc = "exited"

ListenEnds ==
  /\ mode = "listen" /\ ThreadsJoined
  /\ mode' = "over"
  /\ UNCHANGED <<sessionVars, cursor, listenVars, out, fileVars, trusted>>
-----------------------------------------------------------------------------
(***************************************************************************)
(* --snapshot-out, however the session ended.  The file is truncated and   *)
(* written in place: a process that dies in between leaves a damaged one.  *)
(***************************************************************************)
WriteSnapshot ==
  /\ mode = "over" /\ session > 0
  /\ file' = SnapshotOf(out.books, out.last_sequence_number)
  /\ fileTrusted' = trusted
  /\ UNCHANGED <<sessionVars, mode, cursor, listenVars, out, trusted>>

DieWritingSnapshot ==
  /\ mode = "over" /\ session > 0
  /\ file' = DamagedSnapshot /\ fileTrusted' = FALSE
  /\ UNCHANGED <<sessionVars, mode, cursor, listenVars, out, trusted>>

Next ==
  \/ StartSession \/ ReplayNext \/ ReplayEnds
  \/ ReceiveDatagram \/ Producer \/ Consumer \/ ListenEnds
  \/ WriteSnapshot \/ DieWritingSnapshot

Spec == Init /\ [][Next]_vars

\* Both threads keep running, and a quiet line times out.
FairSpec == Spec /\ WF_vars(Producer) /\ WF_vars(Consumer) /\ WF_vars(ListenEnds)
-----------------------------------------------------------------------------
(***************************************************************************)
(* Properties.                                                             *)
(***************************************************************************)
ReplayTypeOK ==
  /\ session \in 0..MaxSessions /\ mode \in {"file", "listen", "over"}
  /\ cursor \in 0..Len(feed) /\ arrivals \in 0..MaxArrivals
  /\ Len(inbox) <= BatchSize /\ Len(queue) <= QueueCapacity
  /\ producing \in BOOLEAN /\ cpc \in {"pop", "check", "exited"}
  /\ stopRequested \in BOOLEAN
  /\ out \in Outcome /\ trusted \in BOOLEAN /\ fileTrusted \in BOOLEAN

\* The number of the event that last put the order at the back of its level.
LastMoved(n, id) ==
  CHOOSE m \in 1..n :
    /\ feed[m].type \in {"AddOrder", "ModifyOrder"} /\ feed[m].order_id = id
    /\ \A k \in (m + 1)..n :
         feed[k].type \in {"AddOrder", "ModifyOrder"} => feed[k].order_id # id

\* Replay stops before it applies anything past a hole, and a recovery whose
\* snapshot ends right before the event that revealed the gap closes the hole:
\* a book whose line back to event 1 is unbroken holds exactly the orders the
\* recording has after the last event applied, each level in queue order.
TrustedBookIsExact ==
  trusted =>
    \A i \in Instruments :
      LET book == out.books[i].book
          n    == out.last_sequence_number
      IN  /\ RestingOrders(book) = OrdersAfter(feed, n, i)
          /\ \A l \in Level : \A j, k \in DOMAIN book.levels[l] :
               j < k => LastMoved(n, book.levels[l][j].id)
                          < LastMoved(n, book.levels[l][k].id)

\* "the consumer always drains whatever is still sitting in the queue before
\* it exits".  Not so: see README.md, Disagreements.
ConsumerDrainsTheQueue == mode = "listen" /\ ThreadsJoined => queue = << >>

\* A session that has received anything ends: the threads never wait for
\* each other, whichever of them asks for the stop.
SessionsEnd == (mode = "listen" /\ arrivals > 0) ~> mode = "over"
=============================================================================
