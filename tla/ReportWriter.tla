---------------------------- MODULE ReportWriter ----------------------------
(***************************************************************************)
(* How a report queued for a connection gets to its socket.  The matching  *)
(* thread pushes the report, marks the connection dirty, pushes it on the  *)
(* gateway's dirty_ ring and wakes the poller.  The I/O thread, woken,     *)
(* drains dirty_, turns write interest on, and when the poller says the    *)
(* socket is writable pops reports, writes them in batches and turns write *)
(* interest off again once it finds nothing to write.                      *)
(*                                                                         *)
(* dirty_ is the detailed SpscQueue.  Its items are connections and its    *)
(* Producers the threads that call mark_dirty: "matching", and "io" when   *)
(* the I/O thread binds a session or answers a request itself.  A workload *)
(* says which of these happen: in {"matching"} all clients are bound and   *)
(* name their own account, in {"io"} nothing trades.                       *)
(*                                                                         *)
(* Reports are counted: SessionRouting tells which report goes where.      *)
(***************************************************************************)
EXTENDS SpscQueue

CONSTANTS
  OutboundCapacity, \* slots of a connection's outbound queue
  WriterBatch,      \* writer_batch
  Failing,          \* connections whose peer or poller registration may fail
  MaxEvents,        \* bound: events routed
  MaxFrames,        \* bound: unread requests of a connection
  Workloads         \* sets of the threads that call mark_dirty

ASSUME WorkloadAssumption ==
  Producers = {"matching", "io"} /\ Workloads \subseteq SUBSET Producers

ASSUME BoundsAssumption ==
  /\ WriterBatch \in Nat \ {0}
  /\ OutboundCapacity \in Nat /\ MaxEvents \in Nat /\ MaxFrames \in Nat

Connections == Items

Threads == {"matching", "io"}

VARIABLES
  outbound,    \* reports in conn.outbound
  sessionOut,  \* replies in conn.session_outbound and replay_backlog
  encoded,     \* conn.write_pending: encoded, not completely written
  dirty,       \* conn.dirty
  interest,    \* conn.write_interest
  closed,      \* conn.closed
  overflow,    \* dirty_overflow_
  wakeup,      \* the poller's eventfd is readable
  stop,        \* stop_source_
  notifying,   \* thread -> the connections it still has to notify
  npc,         \* thread -> where it is in notify_writer
  ipc,         \* where the I/O thread is in io_loop
  current,     \* the connection it is working on, if any
  ready,       \* events of this poller_.wait() not yet handled
  scanning,    \* connections an overflow scan has still to visit
  room,        \* connection -> its socket takes bytes
  hungUp,      \* connection -> the peer has gone
  events,      \* bound: events routed so far
  frames,      \* connection -> requests sent and not yet read
  workload     \* one of Workloads, for the whole run

dirtyRing == vars
connVars == <<outbound, sessionOut, encoded, interest, closed>>
notifyVars == <<dirty, overflow, wakeup, notifying, npc>>
ioVars == <<ipc, current, ready, scanning>>
envVars == <<room, hungUp, stop, events, frames, workload>>
writerVars == <<dirtyRing, connVars, notifyVars, ioVars, envVars>>

Nobody == Destroyed

WriterInit ==
  /\ Init
  /\ outbound = [c \in Connections |-> 0]
  /\ sessionOut = [c \in Connections |-> 0]
  /\ encoded = [c \in Connections |-> 0]
  /\ dirty = [c \in Connections |-> FALSE]
  /\ interest = [c \in Connections |-> FALSE]
  /\ closed = [c \in Connections |-> FALSE]
  /\ overflow = FALSE /\ wakeup = FALSE /\ stop = FALSE
  /\ notifying = [t \in Threads |-> << >>]
  /\ npc = [t \in Threads |-> "idle"]
  /\ ipc = "wait" /\ current = Nobody
  /\ ready = {} /\ scanning = {}
  /\ room = [c \in Connections |-> TRUE]
  /\ hungUp = [c \in Connections |-> FALSE]
  /\ events = 0
  /\ frames = [c \in Connections |-> 0]
  /\ workload \in Workloads
-----------------------------------------------------------------------------
(***************************************************************************)
(* notify_writer, on either thread.                                        *)
(***************************************************************************)
Notified(t) == Head(notifying[t])

NotifyGoto(t, from, to) == npc[t] = from /\ npc' = [npc EXCEPT ![t] = to]

\* notify_writer is called for the connections of s, one after the other.
StartNotifying(t, s) ==
  /\ notifying' = [notifying EXCEPT ![t] = s]
  /\ npc' = [npc EXCEPT ![t] = IF s = << >> THEN "idle" ELSE "mark"]

\* compare_exchange on dirty: only the thread that sets it pushes.
MarkDirty(t) ==
  /\ NotifyGoto(t, "mark", IF dirty[Notified(t)] THEN "wake" ELSE "push")
  /\ dirty' = [dirty EXCEPT ![Notified(t)] = TRUE]
  /\ UNCHANGED <<dirtyRing, connVars, overflow, wakeup, notifying, ioVars,
                 envVars>>

PushDirty(t) ==
  /\ NotifyGoto(t, "push", "pushing")
  /\ PushBegin(t, Notified(t))
  /\ UNCHANGED <<connVars, dirty, overflow, wakeup, notifying, ioVars, envVars>>

PushingDirty(t) ==
  /\ npc[t] = "pushing"
  /\ HasRoom(t) \/ Construct(t) \/ RaiseMark(t)
  /\ UNCHANGED <<connVars, notifyVars, ioVars, envVars>>

DirtyPushed(t) ==
  /\ NotifyGoto(t, "pushing", "wake")
  /\ Publish(t)
  /\ UNCHANGED <<connVars, dirty, overflow, wakeup, notifying, ioVars, envVars>>

DirtyFull(t) ==
  /\ NotifyGoto(t, "pushing", "overflow")
  /\ GiveUp(t)
  /\ UNCHANGED <<connVars, dirty, overflow, wakeup, notifying, ioVars, envVars>>

\* Mutant of NoteOverflow: the flag is not set.
ForgetOverflow(t) ==
  /\ NotifyGoto(t, "overflow", "wake")
  /\ UNCHANGED <<dirtyRing, connVars, dirty, overflow, wakeup, notifying,
                 ioVars, envVars>>

NoteOverflow(t) ==
  /\ NotifyGoto(t, "overflow", "wake")
  /\ overflow' = TRUE
  /\ UNCHANGED <<dirtyRing, connVars, dirty, wakeup, notifying, ioVars, envVars>>

WakePoller(t) ==
  /\ npc[t] = "wake"
  /\ wakeup' = TRUE
  /\ StartNotifying(t, Tail(notifying[t]))
  /\ UNCHANGED <<dirtyRing, connVars, dirty, overflow, ioVars, envVars>>

Notify(t) ==
  \/ MarkDirty(t) \/ PushDirty(t) \/ PushingDirty(t) \/ DirtyPushed(t)
  \/ DirtyFull(t) \/ NoteOverflow(t) \/ WakePoller(t)
-----------------------------------------------------------------------------
(***************************************************************************)
(* The matching thread: route_event delivers one report, or a trade's two, *)
(* and then notifies the writers of those that were not dropped.           *)
(***************************************************************************)
Recipients == {<<c>> : c \in Connections}
              \cup {s \in Connections \X Connections : s[1] # s[2]}

Delivers(c) == outbound[c] < OutboundCapacity

To(s) == {s[i] : i \in DOMAIN s}

\* Both reports of a trade go to one connection when an account meets itself.
ReportsEach(s) == IF Len(s) = 1 THEN {1, 2} ELSE {1}

\* deliver, n times: what the queue has no slot for is dropped.
Filled(c, n) ==
  IF outbound[c] + n <= OutboundCapacity THEN outbound[c] + n
                                         ELSE OutboundCapacity

\* wake[]: those of s whose queue took the report, in s's order.
Wakes(s) ==
  IF \A c \in To(s) : Delivers(c) THEN s
  ELSE IF \E c \in To(s) : Delivers(c) THEN <<CHOOSE c \in To(s) : Delivers(c)>>
  ELSE << >>

RouteEvent(s) ==
  /\ "matching" \in workload /\ npc["matching"] = "idle"
  /\ events < MaxEvents
  /\ events' = events + 1
  /\ \A c \in To(s) : ~closed[c]
  /\ \E n \in ReportsEach(s) : outbound' = [c \in Connections |->
       IF c \in To(s) THEN Filled(c, n) ELSE outbound[c]]
  /\ StartNotifying("matching", Wakes(s))
  /\ UNCHANGED <<dirtyRing, sessionOut, encoded, interest, closed, dirty,
                 overflow, wakeup, ioVars, room, hungUp, stop, frames,
                 workload>>
-----------------------------------------------------------------------------
(***************************************************************************)
(* The I/O thread.                                                         *)
(***************************************************************************)
IoGoto(from, to) == ipc = from /\ ipc' = to

\* What the poller reports now: level-triggered, one read and one write event
\* at most per connection, no write event for one that hung up.
WakeEvent == [type |-> "wake", conn |-> Nobody]

Readable(c) == ~closed[c] /\ (frames[c] > 0 \/ hungUp[c])

Writable(c) == ~closed[c] /\ interest[c] /\ room[c] /\ ~hungUp[c]

PollEvents ==
  (IF wakeup THEN {WakeEvent} ELSE {})
  \cup {[type |-> "read", conn |-> c] : c \in {d \in Connections : Readable(d)}}
  \cup {[type |-> "write", conn |-> c] : c \in {d \in Connections : Writable(d)}}

\* poller_.wait() returns, the eventfd is reset, and stop is looked at.
PollWait ==
  /\ IoGoto("wait", IF stop THEN "exited" ELSE "dispatch")
  /\ PollEvents # {}
  /\ ready' = PollEvents
  /\ wakeup' = FALSE
  /\ UNCHANGED <<dirtyRing, connVars, dirty, overflow, notifying, npc, current,
                 scanning, envVars>>

PollAgain ==
  /\ IoGoto("dispatch", IF stop THEN "exited" ELSE "wait")
  /\ ready = {}
  /\ UNCHANGED <<dirtyRing, connVars, notifyVars, current, ready, scanning,
                 envVars>>

Dispatch(e, to, c) ==
  /\ IoGoto("dispatch", to)
  /\ e \in ready
  /\ ready' = ready \ {e}
  /\ current' = c
  /\ UNCHANGED <<dirtyRing, connVars, notifyVars, scanning, envVars>>

StartDrain(e) == e.type = "wake" /\ Dispatch(e, "drain", Nobody)

SkipClosed(e) ==
  e.type # "wake" /\ closed[e.conn] /\ Dispatch(e, "dispatch", Nobody)

StartRead(e) == e.type = "read" /\ ~closed[e.conn] /\ Dispatch(e, "read", e.conn)

\* A connection's read event is handled before its write event.  A batch that
\* was written in part is finished first.
StartWrite(e) ==
  /\ e.type = "write" /\ ~closed[e.conn]
  /\ [e EXCEPT !.type = "read"] \notin ready
  /\ Dispatch(e, IF encoded[e.conn] > 0 THEN "send" ELSE "fill", e.conn)
-----------------------------------------------------------------------------
(***************************************************************************)
(* handle_read on the current connection.                                  *)
(***************************************************************************)
FinishConnection == IoGoto("read", "dispatch") /\ current' = Nobody

\* Mutant of ReadAnswers: nobody is told about the reply.
ReadAnswersQuietly ==
  /\ ipc = "read" /\ npc["io"] = "idle"
  /\ frames[current] > 0
  /\ frames' = [frames EXCEPT ![current] = @ - 1]
  /\ sessionOut' = [sessionOut EXCEPT ![current] = @ + 1]
  /\ UNCHANGED <<dirtyRing, outbound, encoded, interest, closed, notifyVars,
                 ioVars, room, hungUp, stop, events,
                 workload>>

\* A request the I/O thread answers itself (another account's), or the first
\* request of a session, with what was retained for its account.
ReadAnswers ==
  /\ ipc = "read" /\ npc["io"] = "idle"
  /\ frames[current] > 0
  /\ frames' = [frames EXCEPT ![current] = @ - 1]
  /\ IF sessionOut[current] < OutboundCapacity
     THEN /\ sessionOut' = [sessionOut EXCEPT ![current] = @ + 1]
          /\ StartNotifying("io", <<current>>)
     ELSE UNCHANGED <<sessionOut, notifying, npc>>
  /\ UNCHANGED <<dirtyRing, outbound, encoded, interest, closed, dirty,
                 overflow, wakeup, ioVars, room, hungUp, stop, events,
                 workload>>

ReadBlocks ==
  /\ FinishConnection /\ npc["io"] = "idle"
  /\ frames[current] = 0 /\ ~hungUp[current]
  /\ UNCHANGED <<dirtyRing, connVars, notifyVars, ready, scanning, envVars>>

\* The end of the stream, or an error.
ReadCloses ==
  /\ FinishConnection /\ npc["io"] = "idle"
  /\ frames[current] = 0 /\ hungUp[current]
  /\ closed' = [closed EXCEPT ![current] = TRUE]
  /\ UNCHANGED <<dirtyRing, outbound, sessionOut, encoded, interest,
                 notifyVars, ready, scanning, envVars>>
-----------------------------------------------------------------------------
(***************************************************************************)
(* drain_dirty.                                                            *)
(***************************************************************************)
\* enable_write: poller_.mod() may fail, and the connection is closed.
EnableWrite(c) ==
  \/ /\ interest' = [interest EXCEPT ![c] = @ \/ ~closed[c]]
     /\ UNCHANGED closed
  \/ /\ c \in Failing /\ ~closed[c] /\ ~interest[c]
     /\ closed' = [closed EXCEPT ![c] = TRUE]
     /\ UNCHANGED interest

DrainPops ==
  /\ ipc = "drain"
  /\ PopBegin \/ Take
  /\ UNCHANGED <<connVars, notifyVars, ioVars, envVars>>

DrainPopped ==
  /\ IoGoto("drain", "undirty")
  /\ AdvanceTail
  /\ current' = received[Len(received)]
  /\ UNCHANGED <<connVars, notifyVars, ready, scanning, envVars>>

\* Mutant of Undirty: write interest is turned on, the flag left set.
UndirtyForgets ==
  /\ IoGoto("undirty", "drain")
  /\ current \in Connections
  /\ EnableWrite(current)
  /\ current' = Nobody
  /\ UNCHANGED <<dirtyRing, outbound, sessionOut, encoded, dirty, overflow,
                 wakeup, notifying, npc, ready, scanning, envVars>>

Undirty ==
  /\ IoGoto("undirty", "drain")
  /\ current \in Connections
  /\ dirty' = [dirty EXCEPT ![current] = FALSE]
  /\ EnableWrite(current)
  /\ current' = Nobody
  /\ UNCHANGED <<dirtyRing, outbound, sessionOut, encoded, overflow, wakeup,
                 notifying, npc, ready, scanning, envVars>>

DrainEmpty ==
  /\ IoGoto("drain", "exchange")
  /\ PopEmpty
  /\ UNCHANGED <<connVars, notifyVars, current, ready, scanning, envVars>>

ExchangeOverflow ==
  /\ IoGoto("exchange", "scan")
  /\ scanning' = IF overflow THEN Connections ELSE {}
  /\ overflow' = FALSE
  /\ UNCHANGED <<dirtyRing, connVars, dirty, wakeup, notifying, npc, current,
                 ready, envVars>>

ScanConnection(c) ==
  /\ ipc = "scan"
  /\ c \in scanning
  /\ scanning' = scanning \ {c}
  /\ dirty' = [dirty EXCEPT ![c] = FALSE]
  /\ IF dirty[c] THEN EnableWrite(c) ELSE UNCHANGED <<interest, closed>>
  /\ UNCHANGED <<dirtyRing, outbound, sessionOut, encoded, overflow, wakeup,
                 notifying, npc, ipc, current, ready, envVars>>

ScanDone ==
  /\ IoGoto("scan", "dispatch")
  /\ scanning = {}
  /\ UNCHANGED <<dirtyRing, connVars, notifyVars, current, ready, scanning,
                 envVars>>
-----------------------------------------------------------------------------
(***************************************************************************)
(* handle_write on the current connection.                                 *)
(***************************************************************************)
Waiting(c) == sessionOut[c] + outbound[c]

\* pop_outbound: the connection's own replies first.
PopOutbound ==
  /\ ipc = "fill"
  /\ encoded[current] < WriterBatch
  /\ Waiting(current) > 0
  /\ encoded' = [encoded EXCEPT ![current] = @ + 1]
  /\ IF sessionOut[current] > 0
     THEN /\ sessionOut' = [sessionOut EXCEPT ![current] = @ - 1]
          /\ UNCHANGED outbound
     ELSE /\ outbound' = [outbound EXCEPT ![current] = @ - 1]
          /\ UNCHANGED sessionOut
  /\ UNCHANGED <<dirtyRing, interest, closed, notifyVars, ioVars, envVars>>

BatchReady ==
  /\ IoGoto("fill", "send")
  /\ encoded[current] > 0
  /\ encoded[current] = WriterBatch \/ Waiting(current) = 0
  /\ UNCHANGED <<dirtyRing, connVars, notifyVars, current, ready, scanning,
                 envVars>>

NothingToWrite ==
  /\ IoGoto("fill", "disable")
  /\ encoded[current] = 0 /\ Waiting(current) = 0
  /\ UNCHANGED <<dirtyRing, connVars, notifyVars, current, ready, scanning,
                 envVars>>

\* poller_.mod() may fail here too.
DisableWrite ==
  /\ IoGoto("disable", "dispatch")
  /\ \/ interest' = [interest EXCEPT ![current] = FALSE] /\ UNCHANGED closed
     \/ /\ current \in Failing
        /\ closed' = [closed EXCEPT ![current] = TRUE]
        /\ UNCHANGED interest
  /\ current' = Nobody
  /\ UNCHANGED <<dirtyRing, outbound, sessionOut, encoded, notifyVars,
                 ready, scanning, envVars>>

\* The whole batch is written; the socket may be full afterwards.
SendBatch ==
  /\ IoGoto("send", "fill")
  /\ room[current] /\ ~hungUp[current]
  /\ encoded' = [encoded EXCEPT ![current] = 0]
  /\ \E r \in BOOLEAN : room' = [room EXCEPT ![current] = r]
  /\ UNCHANGED <<dirtyRing, outbound, sessionOut, interest, closed, notifyVars,
                 current, ready, scanning, hungUp, stop, events, frames,
                 workload>>

\* A part of the batch, or nothing, is written: the rest waits for the next
\* write event.
SendBlocks ==
  /\ IoGoto("send", "dispatch")
  /\ ~hungUp[current]
  /\ \/ room[current] /\ \E n \in 1..(encoded[current] - 1) :
                           encoded' = [encoded EXCEPT ![current] = n]
     \/ ~room[current] /\ UNCHANGED encoded
  /\ room' = [room EXCEPT ![current] = FALSE]
  /\ EnableWrite(current)
  /\ current' = Nobody
  /\ UNCHANGED <<dirtyRing, outbound, sessionOut, notifyVars, ready, scanning,
                 hungUp, stop, events, frames,
                 workload>>

\* write() fails: the connection is closed with what it still had to say.
SendFails ==
  /\ IoGoto("send", "dispatch")
  /\ hungUp[current]
  /\ closed' = [closed EXCEPT ![current] = TRUE]
  /\ current' = Nobody
  /\ UNCHANGED <<dirtyRing, outbound, sessionOut, encoded, interest,
                 notifyVars, ready, scanning, envVars>>
-----------------------------------------------------------------------------
(***************************************************************************)
(* The clients, the kernel and the owner of the gateway.                   *)
(***************************************************************************)
ClientSends(c) ==
  /\ "io" \in workload
  /\ frames[c] < MaxFrames
  /\ ~hungUp[c] /\ events < MaxEvents
  /\ events' = events + 1
  /\ frames' = [frames EXCEPT ![c] = @ + 1]
  /\ UNCHANGED <<dirtyRing, connVars, notifyVars, ioVars, room, hungUp, stop,
                 workload>>

ClientReads(c) ==
  /\ ~room[c] /\ ~hungUp[c]
  /\ room' = [room EXCEPT ![c] = TRUE]
  /\ UNCHANGED <<dirtyRing, connVars, notifyVars, ioVars, hungUp, stop, events,
                 frames, workload>>

ClientHangsUp(c) ==
  /\ c \in Failing /\ ~hungUp[c]
  /\ hungUp' = [hungUp EXCEPT ![c] = TRUE]
  /\ UNCHANGED <<dirtyRing, connVars, notifyVars, ioVars, room, stop, events,
                 frames, workload>>

\* stop(): the token is set, then the poller woken.
RequestStop ==
  /\ ~stop
  /\ stop' = TRUE
  /\ wakeup' = TRUE
  /\ UNCHANGED <<dirtyRing, connVars, dirty, overflow, notifying, npc, ioVars,
                 room, hungUp, events, frames, workload>>

\* Nothing to do: the I/O thread sleeps in the poller, or has left.
Asleep ==
  /\ ipc = "exited" \/ (ipc = "wait" /\ PollEvents = {})
  /\ \A t \in Threads : npc[t] = "idle"
  /\ UNCHANGED writerVars
-----------------------------------------------------------------------------
DrainDirty ==
  \/ DrainPops \/ DrainPopped \/ Undirty \/ DrainEmpty
  \/ ExchangeOverflow \/ ScanDone
  \/ \E c \in Connections : ScanConnection(c)

HandleRead == ReadAnswers \/ ReadBlocks \/ ReadCloses

HandleWrite ==
  \/ PopOutbound \/ BatchReady \/ NothingToWrite \/ DisableWrite
  \/ SendBatch \/ SendBlocks \/ SendFails

IoLoop ==
  \/ PollWait \/ PollAgain
  \/ \E e \in ready : StartDrain(e) \/ SkipClosed(e) \/ StartRead(e)
                      \/ StartWrite(e)
  \/ DrainDirty \/ HandleRead \/ HandleWrite

Client(c) == ClientSends(c) \/ ClientReads(c) \/ ClientHangsUp(c)

WriterNext ==
  \/ \E t \in Threads : Notify(t)
  \/ \E s \in Recipients : RouteEvent(s)
  \/ IoLoop
  \/ \E c \in Connections : Client(c)
  \/ RequestStop
  \/ Asleep

WriterSpec == WriterInit /\ [][WriterNext]_writerVars

(***************************************************************************)
(* Neither thread stops in the middle of a call, and a client that stays   *)
(* connected reads.  Nobody has to send, hang up, trade or stop.           *)
(***************************************************************************)
FairWriterSpec ==
  /\ WriterSpec
  /\ \A t \in Threads : WF_writerVars(Notify(t))
  /\ WF_writerVars(IoLoop)
  /\ \A c \in Connections : WF_writerVars(ClientReads(c))
-----------------------------------------------------------------------------
(***************************************************************************)
(* Properties.                                                             *)
(***************************************************************************)
Steps == {"wait", "dispatch", "read", "drain", "undirty", "exchange", "scan",
          "fill", "send", "disable", "exited"}

WriterTypeOK ==
  /\ TypeOK
  /\ outbound \in [Connections -> 0..OutboundCapacity]
  /\ sessionOut \in [Connections -> 0..OutboundCapacity]
  /\ encoded \in [Connections -> 0..WriterBatch]
  /\ {dirty, interest, closed, room, hungUp} \subseteq [Connections -> BOOLEAN]
  /\ {overflow, wakeup, stop} \subseteq BOOLEAN
  /\ notifying \in [Threads -> Seq(Connections)]
  /\ npc \in [Threads -> {"idle", "mark", "push", "pushing", "overflow", "wake"}]
  /\ ipc \in Steps
  /\ current \in Connections \cup {Nobody}
  /\ ipc \in {"read", "undirty", "fill", "send", "disable"}
       => current \in Connections
  /\ scanning \subseteq Connections
  /\ events \in 0..MaxEvents
  /\ frames \in [Connections -> 0..MaxFrames]
  /\ workload \in Workloads

Unwritten(c) == Waiting(c) + encoded[c]

\* A report is never stranded: when the I/O thread is about to sleep in the
\* poller and nobody is waking it, every open connection with something to
\* write has write interest on.
NoStrandedReport ==
  ipc = "wait" /\ ~wakeup /\ (\A t \in Threads : npc[t] = "idle") =>
    \A c \in Connections : Unwritten(c) > 0 /\ ~closed[c] => interest[c]

\* Every report of a connection that stays open is written in the end.
ReportsAreWritten ==
  \A c \in Connections :
    Unwritten(c) > 0 ~> (Unwritten(c) = 0 \/ closed[c] \/ hungUp[c] \/ stop)
=============================================================================
