------------------------- MODULE ReportWriterProofs -------------------------
(***************************************************************************)
(* Proofs about the writer: no report is stranded, for any number of       *)
(* connections and reports and any capacities, unless two threads are      *)
(* inside dirty_.try_push at the same time.                                *)
(*                                                                         *)
(* The argument follows one connection with something to write.  Whoever   *)
(* queued the report still has to mark the connection, or write interest   *)
(* is on, or the connection is dirty.  A dirty connection is on record: in *)
(* the hands of the thread that set the flag, in dirty_, with the I/O      *)
(* thread, or covered by the overflow flag or the scan it causes.  And     *)
(* while dirty_ or the overflow flag records anything, the I/O thread has  *)
(* not passed the point where it looks, or a wake-up is on its way.        *)
(***************************************************************************)
EXTENDS ReportWriter, SpscQueueProofs

-----------------------------------------------------------------------------
(***************************************************************************)
(* The inductive invariant.                                                *)
(***************************************************************************)
\* The two threads' places in notify_writer and in try_push agree.
NotifyOK ==
  \A t \in Threads :
    /\ npc[t] = "idle" <=> notifying[t] = << >>
    /\ npc[t] = "pushing" <=> pc[t] # "idle"
    /\ npc[t] = "pushing" => value[t] = Notified(t)

\* Events and scans are over when the I/O thread says so, and it pops from
\* dirty_ in drain_dirty only.
LoopOK ==
  /\ ipc = "wait" => ready = {}
  /\ \A e \in ready : e.type # "wake" => e.conn \in Connections
  /\ ipc # "scan" => scanning = {}
  /\ cpc # "idle" => ipc = "drain"

\* t set the flag of c and has not yet put c on record.
Carries(t, c) ==
  npc[t] \in {"push", "pushing", "overflow"} /\ Notified(t) = c

\* c is in dirty_.
Listed(c) == \E i \in Pending : log[i + 1] = c

OnRecord(c) ==
  \/ \E t \in Threads : Carries(t, c)
  \/ Listed(c)
  \/ ipc = "undirty" /\ current = c
  \/ overflow
  \/ c \in scanning

DirtyOK == \A c \in Connections : dirty[c] => OnRecord(c)

\* A thread queued something for c and has not yet looked at its flag.
AwaitsMark(c) ==
  \E t \in Threads : \E j \in DOMAIN notifying[t] :
    notifying[t][j] = c /\ (j = 1 => npc[t] = "mark")

\* Write interest that is not about to be turned off.
Interested(c) == interest[c] /\ ~(ipc = "disable" /\ current = c)

ReportOK ==
  \A c \in Connections :
    Unwritten(c) > 0 /\ ~closed[c] => Interested(c) \/ dirty[c] \/ AwaitsMark(c)

\* The I/O thread will go through drain_dirty once more.
Roused == wakeup \/ WakeEvent \in ready \/ \E t \in Threads : npc[t] = "wake"

RousedOK ==
  /\ head # tail => Roused \/ ipc \in {"drain", "undirty"}
  /\ overflow => Roused \/ ipc \in {"drain", "undirty", "exchange"}

WriterInv ==
  /\ RingInv /\ WriterTypeOK /\ NotifyOK /\ LoopOK
  /\ DirtyOK /\ ReportOK /\ RousedOK
-----------------------------------------------------------------------------
(***************************************************************************)
(* The writer's steps as steps of dirty_.                                  *)
(***************************************************************************)
LEMMA ThreadsAreProducers == Threads = Producers
  BY WorkloadAssumption DEF Threads

\* While a thread is in notify_writer the connection it notifies is at hand.
LEMMA NotifiedIsAConnection ==
  ASSUME WriterTypeOK, NotifyOK, NEW t \in Threads, npc[t] # "idle"
  PROVE  /\ notifying[t] \in Seq(Connections) /\ notifying[t] # << >>
         /\ Notified(t) \in Connections /\ Notified(t) = notifying[t][1]
         /\ Len(notifying[t]) \in Nat /\ Len(notifying[t]) >= 1
  BY DEF WriterTypeOK, NotifyOK, Notified

LEMMA WriterStepsTheRing ==
  ASSUME WriterTypeOK, NotifyOK, [WriterNext]_writerVars
  PROVE  [RingNext]_vars
<1>1. ASSUME NEW t \in Threads, Notify(t)
      PROVE  [RingNext]_vars
  <2>1. CASE PushDirty(t)
    <3>1. Notified(t) \in Items
      BY <2>1, NotifiedIsAConnection DEF PushDirty, NotifyGoto, Connections
    <3> QED
      BY <2>1, <3>1, ThreadsAreProducers DEF PushDirty, RingNext
  <2>2. CASE PushingDirty(t) \/ DirtyPushed(t) \/ DirtyFull(t)
    BY <2>2, ThreadsAreProducers DEF PushingDirty, DirtyPushed, DirtyFull, RingNext, PushStep
  <2>3. CASE MarkDirty(t) \/ NoteOverflow(t) \/ WakePoller(t)
    BY <2>3 DEF MarkDirty, NoteOverflow, WakePoller, dirtyRing
  <2> QED
    BY <1>1, <2>1, <2>2, <2>3 DEF Notify
<1>2. ASSUME NEW s \in Recipients, RouteEvent(s)
      PROVE  UNCHANGED vars
  BY <1>2 DEF RouteEvent, dirtyRing
<1>3. CASE DrainDirty
  <2>1. CASE DrainPops \/ DrainPopped
    BY <2>1 DEF DrainPops, DrainPopped, RingNext, PopStep
  <2>2. CASE DrainEmpty
    BY <2>2 DEF DrainEmpty, PopEmpty
  <2>3. CASE Undirty \/ ExchangeOverflow \/ ScanDone
    BY <2>3 DEF Undirty, ExchangeOverflow, ScanDone, dirtyRing
  <2>4. ASSUME NEW c \in Connections, ScanConnection(c)
        PROVE  UNCHANGED vars
    BY <2>4 DEF ScanConnection, dirtyRing
  <2> QED
    BY <1>3, <2>1, <2>2, <2>3, <2>4 DEF DrainDirty
<1>4. CASE HandleRead \/ HandleWrite \/ PollWait \/ PollAgain
  BY <1>4 DEF HandleRead, HandleWrite, PollWait, PollAgain, ReadAnswers, ReadBlocks,
     ReadCloses, PopOutbound, BatchReady, NothingToWrite, DisableWrite, SendBatch,
     SendBlocks, SendFails, dirtyRing
<1>5. ASSUME NEW e, NEW c, NEW to, Dispatch(e, to, c)
      PROVE  UNCHANGED vars
  BY <1>5 DEF Dispatch, dirtyRing
<1>6. CASE IoLoop
  BY <1>3, <1>4, <1>5, <1>6 DEF IoLoop, StartDrain, SkipClosed, StartRead, StartWrite
<1>7. ASSUME NEW c \in Connections, Client(c)
      PROVE  UNCHANGED vars
  BY <1>7 DEF Client, ClientSends, ClientReads, ClientHangsUp, dirtyRing
<1>8. CASE RequestStop \/ Asleep \/ UNCHANGED writerVars
  BY <1>8 DEF RequestStop, Asleep, writerVars, dirtyRing
<1> QED
  BY <1>1, <1>2, <1>6, <1>7, <1>8 DEF WriterNext
-----------------------------------------------------------------------------
(***************************************************************************)
(* Types.                                                                  *)
(***************************************************************************)
\* What the writer's own variables may be, one by one.
Typed ==
  /\ outbound \in [Connections -> 0..OutboundCapacity]
  /\ sessionOut \in [Connections -> 0..OutboundCapacity]
  /\ encoded \in [Connections -> 0..WriterBatch]
  /\ dirty \in [Connections -> BOOLEAN] /\ interest \in [Connections -> BOOLEAN]
  /\ closed \in [Connections -> BOOLEAN]
  /\ notifying \in [Threads -> Seq(Connections)]
  /\ npc \in [Threads -> {"idle", "mark", "push", "pushing", "overflow", "wake"}]
  /\ scanning \subseteq Connections

IoTyped ==
  /\ ipc \in Steps /\ current \in Connections \cup {Nobody}
  /\ ipc \in {"read", "undirty", "fill", "send", "disable"} => current \in Connections

EnvTyped ==
  /\ room \in [Connections -> BOOLEAN] /\ hungUp \in [Connections -> BOOLEAN]
  /\ overflow \in BOOLEAN /\ wakeup \in BOOLEAN /\ stop \in BOOLEAN
  /\ events \in 0..MaxEvents /\ frames \in [Connections -> 0..MaxFrames]
  /\ workload \in Workloads

LEMMA TypedIsWriterTypeOK ==
  WriterTypeOK <=> TypeOK /\ Typed /\ IoTyped /\ EnvTyped
  BY DEF WriterTypeOK, Typed, IoTyped, EnvTyped

LEMMA NotifyTyped ==
  ASSUME WriterInv, NEW t \in Threads, Notify(t)
  PROVE  Typed' /\ IoTyped' /\ EnvTyped'
<1>1. Typed /\ IoTyped /\ EnvTyped
  BY TypedIsWriterTypeOK DEF WriterInv
<1>2. npc[t] # "idle"
  BY DEF Notify, MarkDirty, PushDirty, PushingDirty, DirtyPushed, DirtyFull, NoteOverflow,
     WakePoller, NotifyGoto
<1>3. notifying[t] \in Seq(Connections) /\ notifying[t] # << >>
  BY <1>2, NotifiedIsAConnection DEF WriterInv
<1>4. Notified(t) \in Connections
  BY <1>2, NotifiedIsAConnection DEF WriterInv
<1>5. Tail(notifying[t]) \in Seq(Connections)
  BY <1>3
<1>6. IoTyped'
  BY <1>1 DEF Notify, MarkDirty, PushDirty, PushingDirty, DirtyPushed, DirtyFull,
     NoteOverflow, WakePoller, ioVars, IoTyped
<1>7. EnvTyped'
  BY <1>1 DEF Notify, MarkDirty, PushDirty, PushingDirty, DirtyPushed, DirtyFull,
     NoteOverflow, WakePoller, envVars, notifyVars, EnvTyped
<1>8. UNCHANGED <<outbound, sessionOut, encoded, interest, closed, scanning>>
  BY DEF Notify, MarkDirty, PushDirty, PushingDirty, DirtyPushed, DirtyFull,
     NoteOverflow, WakePoller, connVars, ioVars
<1>9. dirty' \in [Connections -> BOOLEAN]
  BY <1>1, <1>4 DEF Notify, MarkDirty, PushDirty, PushingDirty, DirtyPushed, DirtyFull,
     NoteOverflow, WakePoller, notifyVars, Typed
<1>10. notifying' \in [Threads -> Seq(Connections)]
  BY <1>1, <1>5 DEF Notify, MarkDirty, PushDirty, PushingDirty, DirtyPushed, DirtyFull,
     NoteOverflow, WakePoller, notifyVars, StartNotifying, Typed
<1>11. npc' \in [Threads -> {"idle", "mark", "push", "pushing", "overflow", "wake"}]
  BY <1>1 DEF Notify, MarkDirty, PushDirty, PushingDirty, DirtyPushed, DirtyFull,
     NoteOverflow, WakePoller, notifyVars, StartNotifying, NotifyGoto, Typed
<1> QED
  BY <1>1, <1>6, <1>7, <1>8, <1>9, <1>10, <1>11 DEF Typed

\* Every connection that took a report of the event is woken.
LEMMA EveryRecipientIsWoken ==
  ASSUME NEW s \in Recipients
  PROVE  /\ To(s) \subseteq Connections
         /\ Wakes(s) \in Seq(Connections)
         /\ \A c \in To(s) : Delivers(c) => \E j \in DOMAIN Wakes(s) : Wakes(s)[j] = c
<1>1. s \in Seq(Connections) /\ Len(s) \in {1, 2} /\ (Len(s) = 2 => s[1] # s[2])
  <2>1. ASSUME NEW c \in Connections, s = <<c>>
        PROVE  s \in Seq(Connections) /\ Len(s) = 1
    BY <2>1
  <2>2. ASSUME NEW c \in Connections, NEW d \in Connections, c # d, s = <<c, d>>
        PROVE  s \in Seq(Connections) /\ Len(s) = 2 /\ s[1] # s[2]
    BY <2>2
  <2>3. \/ \E c \in Connections : s = <<c>>
        \/ \E c, d \in Connections : c # d /\ s = <<c, d>>
    <3>1. CASE s \in {<<c>> : c \in Connections}
      BY <3>1
    <3>2. CASE s \in {p \in Connections \X Connections : p[1] # p[2]}
      <4>1. s \in Connections \X Connections /\ s[1] # s[2]
        BY <3>2
      <4>2. PICK c \in Connections, d \in Connections : s = <<c, d>>
        BY <4>1
      <4>3. s[1] = c /\ s[2] = d
        BY <4>2
      <4> QED
        BY <4>1, <4>2, <4>3
    <3> QED
      BY <3>1, <3>2 DEF Recipients
  <2> QED
    BY <2>1, <2>2, <2>3
<1>2. DOMAIN s \subseteq {1, 2} /\ DOMAIN s = 1..Len(s)
  BY <1>1
<1>3. To(s) \subseteq Connections
  BY <1>1 DEF To
<1>4. CASE \A c \in To(s) : Delivers(c)
  BY <1>1, <1>3, <1>4 DEF Wakes, To
<1>5. CASE (\E c \in To(s) : Delivers(c)) /\ ~(\A c \in To(s) : Delivers(c))
  <2>1. PICK w \in To(s) : Delivers(w) /\ w = CHOOSE c \in To(s) : Delivers(c)
    BY <1>5
  <2>2. Wakes(s) = <<w>>
    BY <1>5, <2>1 DEF Wakes
  <2>3. \A c \in To(s) : Delivers(c) => c = w
    <3> SUFFICES ASSUME NEW c \in To(s), Delivers(c), c # w PROVE FALSE
      OBVIOUS
    <3>1. PICK v \in To(s) : ~Delivers(v)
      BY <1>5
    <3>2. PICK i \in DOMAIN s, j \in DOMAIN s, k \in DOMAIN s : s[i] = c /\ s[j] = w /\ s[k] = v
      BY DEF To
    <3>3. i # j /\ j # k /\ i # k
      BY <2>1, <3>1, <3>2
    <3> QED
      BY <1>2, <3>3
  <2>4. Wakes(s) \in Seq(Connections) /\ 1 \in DOMAIN Wakes(s) /\ Wakes(s)[1] = w
    BY <1>3, <2>2
  <2> QED
    BY <1>3, <2>3, <2>4
<1>6. CASE \A c \in To(s) : ~Delivers(c)
  <2>1. PICK c \in To(s) : TRUE
    BY <1>1 DEF To
  <2>2. Wakes(s) = << >>
    BY <1>6, <2>1 DEF Wakes
  <2> QED
    BY <1>3, <1>6, <2>2
<1> QED
  BY <1>4, <1>5, <1>6

LEMMA RouteTyped ==
  ASSUME WriterInv, NEW s \in Recipients, RouteEvent(s)
  PROVE  Typed' /\ IoTyped' /\ EnvTyped'
<1>1. Typed /\ IoTyped /\ EnvTyped
  BY TypedIsWriterTypeOK DEF WriterInv
<1>2. Wakes(s) \in Seq(Connections) /\ "matching" \in Threads
  BY EveryRecipientIsWoken DEF Threads
<1>3. \A c \in Connections, n \in {1, 2} : Filled(c, n) \in 0..OutboundCapacity
  BY <1>1, BoundsAssumption DEF Typed, Filled
<1>4. outbound' \in [Connections -> 0..OutboundCapacity]
  <2>1. PICK n \in {1, 2} : outbound' = [c \in Connections |->
          IF c \in To(s) THEN Filled(c, n) ELSE outbound[c]]
    BY DEF RouteEvent, ReportsEach
  <2> QED
    BY <1>1, <1>3, <2>1 DEF Typed
<1>5. notifying' \in [Threads -> Seq(Connections)]
  BY <1>1, <1>2 DEF RouteEvent, StartNotifying, Typed
<1>6. npc' \in [Threads -> {"idle", "mark", "push", "pushing", "overflow", "wake"}]
  BY <1>1, <1>2 DEF RouteEvent, StartNotifying, Typed
<1>7. events' \in 0..MaxEvents
  BY <1>1, BoundsAssumption DEF RouteEvent, EnvTyped
<1>8. Typed'
  BY <1>1, <1>4, <1>5, <1>6 DEF RouteEvent, Typed, ioVars
<1>9. IoTyped' /\ EnvTyped'
  BY <1>1, <1>7 DEF RouteEvent, IoTyped, EnvTyped, ioVars
<1> QED
  BY <1>8, <1>9

\* enable_write changes the interest and the closed flag of one connection.
LEMMA EnableWriteTyped ==
  ASSUME Typed, NEW c \in Connections, EnableWrite(c)
  PROVE  /\ interest' \in [Connections -> BOOLEAN] /\ closed' \in [Connections -> BOOLEAN]
         /\ \A d \in Connections : closed[d] => closed'[d]
         /\ \A d \in Connections : interest[d] => interest'[d]
         /\ interest'[c] \/ closed'[c]
<1>1. CASE interest' = [interest EXCEPT ![c] = @ \/ ~closed[c]] /\ UNCHANGED closed
  <2>1. interest' \in [Connections -> BOOLEAN]
    BY <1>1 DEF Typed
  <2>2. \A d \in Connections : d # c => interest'[d] = interest[d]
    BY <1>1 DEF Typed
  <2>3. interest'[c] = (interest[c] \/ ~closed[c])
    BY <1>1 DEF Typed
  <2> QED
    BY <1>1, <2>1, <2>2, <2>3 DEF Typed
<1>2. CASE closed' = [closed EXCEPT ![c] = TRUE] /\ UNCHANGED interest
  BY <1>2 DEF Typed
<1> QED
  BY <1>1, <1>2 DEF EnableWrite

LEMMA PollTyped ==
  ASSUME WriterInv,
         \/ PollWait \/ PollAgain
         \/ \E e \in ready : StartDrain(e) \/ SkipClosed(e) \/ StartRead(e) \/ StartWrite(e)
  PROVE  Typed' /\ IoTyped' /\ EnvTyped'
<1>1. Typed /\ IoTyped /\ EnvTyped
  BY TypedIsWriterTypeOK DEF WriterInv
<1>2. CASE PollWait
  BY <1>1, <1>2 DEF PollWait, IoGoto, Typed, IoTyped, EnvTyped, connVars, envVars, Steps
<1>3. CASE PollAgain
  BY <1>1, <1>3 DEF PollAgain, IoGoto, Typed, IoTyped, EnvTyped, connVars, notifyVars, envVars, Steps
<1>4. ASSUME NEW e \in ready, StartDrain(e) \/ SkipClosed(e) \/ StartRead(e) \/ StartWrite(e)
      PROVE  Typed' /\ IoTyped' /\ EnvTyped'
  <2>1. PICK to \in {"drain", "dispatch", "read", "send", "fill"}, c \in Connections \cup {Nobody} :
          /\ Dispatch(e, to, c)
          /\ to \in {"read", "send", "fill"} => c \in Connections
    BY <1>4 DEF StartDrain, SkipClosed, StartRead, StartWrite, WriterInv, LoopOK
  <2> QED
    BY <1>1, <2>1 DEF Dispatch, IoGoto, Typed, IoTyped, EnvTyped, connVars, notifyVars, envVars, Steps
<1> QED
  BY <1>2, <1>3, <1>4

LEMMA DrainTyped ==
  ASSUME WriterInv, DrainDirty, TypeOK'
  PROVE  Typed' /\ IoTyped' /\ EnvTyped'
<1>1. Typed /\ IoTyped /\ EnvTyped
  BY TypedIsWriterTypeOK DEF WriterInv
<1>2. CASE DrainPops
  BY <1>1, <1>2 DEF DrainPops, Typed, IoTyped, EnvTyped, connVars, notifyVars, envVars, ioVars
<1>3. CASE DrainPopped
  <2>1. /\ received \in Seq(Items) /\ Len(received) \in 1..Len(received)
    BY <1>3 DEF DrainPopped, AdvanceTail, ConsumerGoto, WriterInv, RingInv, TypeOK, CountersOK
  <2>2. current' \in Connections
    BY <1>3, <2>1 DEF DrainPopped, Connections
  <2> QED
    BY <1>1, <1>3, <2>2 DEF DrainPopped, IoGoto, Typed, IoTyped, EnvTyped, connVars, notifyVars, envVars, Steps
<1>4. CASE Undirty
  <2>1. current \in Connections /\ EnableWrite(current)
    BY <1>4 DEF Undirty
  <2>2. interest' \in [Connections -> BOOLEAN] /\ closed' \in [Connections -> BOOLEAN]
    BY <1>1, <2>1, EnableWriteTyped
  <2>3. dirty' \in [Connections -> BOOLEAN]
    BY <1>1, <1>4 DEF Undirty, Typed
  <2> QED
    BY <1>1, <1>4, <2>2, <2>3 DEF Undirty, IoGoto, Typed, IoTyped, EnvTyped, envVars, Steps
<1>5. CASE DrainEmpty \/ ScanDone
  BY <1>1, <1>5 DEF DrainEmpty, ScanDone, IoGoto, Typed, IoTyped, EnvTyped, connVars, notifyVars, envVars, Steps
<1>6. CASE ExchangeOverflow
  BY <1>1, <1>6 DEF ExchangeOverflow, IoGoto, Typed, IoTyped, EnvTyped, connVars, envVars, Steps
<1>7. ASSUME NEW c \in Connections, ScanConnection(c)
      PROVE  Typed' /\ IoTyped' /\ EnvTyped'
  <2>1. interest' \in [Connections -> BOOLEAN] /\ closed' \in [Connections -> BOOLEAN]
    <3>1. CASE EnableWrite(c)
      BY <1>1, <3>1, EnableWriteTyped
    <3>2. CASE UNCHANGED <<interest, closed>>
      BY <1>1, <3>2 DEF Typed
    <3> QED
      BY <1>7, <3>1, <3>2 DEF ScanConnection
  <2>2. dirty' \in [Connections -> BOOLEAN]
    BY <1>1, <1>7 DEF ScanConnection, Typed
  <2> QED
    BY <1>1, <1>7, <2>1, <2>2 DEF ScanConnection, Typed, IoTyped, EnvTyped, envVars
<1> QED
  BY <1>2, <1>3, <1>4, <1>5, <1>6, <1>7 DEF DrainDirty

LEMMA ReadTyped ==
  ASSUME WriterInv, HandleRead
  PROVE  Typed' /\ IoTyped' /\ EnvTyped'
<1>1. Typed /\ IoTyped /\ EnvTyped
  BY TypedIsWriterTypeOK DEF WriterInv
<1>2. current \in Connections /\ "io" \in Threads
  BY <1>1 DEF HandleRead, ReadAnswers, ReadBlocks, ReadCloses, FinishConnection, IoGoto, IoTyped,
     Threads
<1>3. CASE ReadAnswers
  <2>1. frames' \in [Connections -> 0..MaxFrames]
    <3>1. frames[current] - 1 \in 0..MaxFrames
      BY <1>1, <1>2, <1>3, BoundsAssumption DEF ReadAnswers, EnvTyped
    <3> QED
      BY <1>1, <1>3, <3>1 DEF ReadAnswers, EnvTyped
  <2>2. sessionOut' \in [Connections -> 0..OutboundCapacity]
    <3>1. sessionOut[current] < OutboundCapacity => sessionOut[current] + 1 \in 0..OutboundCapacity
      BY <1>1, <1>2, BoundsAssumption DEF Typed
    <3> QED
      BY <1>1, <1>3, <3>1 DEF ReadAnswers, Typed
  <2>3. notifying' \in [Threads -> Seq(Connections)]
    <3>1. <<current>> \in Seq(Connections)
      BY <1>2
    <3> QED
      BY <1>1, <1>2, <1>3, <3>1 DEF ReadAnswers, StartNotifying, Typed
  <2>4. npc' \in [Threads -> {"idle", "mark", "push", "pushing", "overflow", "wake"}]
    BY <1>1, <1>2, <1>3 DEF ReadAnswers, StartNotifying, Typed
  <2>5. Typed'
    BY <1>1, <1>3, <2>2, <2>3, <2>4 DEF ReadAnswers, Typed, ioVars
  <2> QED
    BY <1>1, <1>3, <2>1, <2>5 DEF ReadAnswers, IoTyped, EnvTyped, ioVars
<1>4. CASE ReadBlocks
  BY <1>1, <1>4 DEF ReadBlocks, FinishConnection, IoGoto, Typed, IoTyped, EnvTyped, connVars,
     notifyVars, envVars, Steps
<1>5. CASE ReadCloses
  BY <1>1, <1>2, <1>5 DEF ReadCloses, FinishConnection, IoGoto, Typed, IoTyped, EnvTyped,
     notifyVars, envVars, Steps
<1> QED
  BY <1>3, <1>4, <1>5 DEF HandleRead

LEMMA WriteTyped ==
  ASSUME WriterInv, HandleWrite
  PROVE  Typed' /\ IoTyped' /\ EnvTyped'
<1>1. Typed /\ IoTyped /\ EnvTyped
  BY TypedIsWriterTypeOK DEF WriterInv
<1>2. current \in Connections
  BY <1>1 DEF HandleWrite, PopOutbound, BatchReady, NothingToWrite, DisableWrite, SendBatch,
     SendBlocks, SendFails, IoGoto, IoTyped
<1>3. CASE PopOutbound
  <2>1. encoded[current] + 1 \in 0..WriterBatch
    BY <1>1, <1>2, <1>3, BoundsAssumption DEF PopOutbound, Typed
  <2>2. encoded' \in [Connections -> 0..WriterBatch]
    BY <1>1, <1>3, <2>1 DEF PopOutbound, Typed
  <2>3. sessionOut[current] > 0 => sessionOut[current] - 1 \in 0..OutboundCapacity
    BY <1>1, <1>2, BoundsAssumption DEF Typed
  <2>4. ~(sessionOut[current] > 0) => outbound[current] - 1 \in 0..OutboundCapacity
    BY <1>1, <1>2, <1>3, BoundsAssumption DEF Typed, PopOutbound, Waiting
  <2>5. sessionOut' \in [Connections -> 0..OutboundCapacity]
    BY <1>1, <1>3, <2>3 DEF PopOutbound, Typed
  <2>6. outbound' \in [Connections -> 0..OutboundCapacity]
    BY <1>1, <1>3, <2>4 DEF PopOutbound, Typed
  <2> QED
    BY <1>1, <1>3, <2>2, <2>5, <2>6
    DEF PopOutbound, Typed, IoTyped, EnvTyped, notifyVars, ioVars, envVars
<1>4. CASE BatchReady \/ NothingToWrite
  BY <1>1, <1>2, <1>4 DEF BatchReady, NothingToWrite, IoGoto, Typed, IoTyped, EnvTyped, connVars,
     notifyVars, envVars, Steps
<1>5. CASE DisableWrite
  <2>1. interest' \in [Connections -> BOOLEAN] /\ closed' \in [Connections -> BOOLEAN]
    BY <1>1, <1>5 DEF DisableWrite, Typed
  <2> QED
    BY <1>1, <1>5, <2>1 DEF DisableWrite, IoGoto, Typed, IoTyped, EnvTyped, notifyVars, envVars, Steps
<1>6. CASE SendBatch
  <2>1. encoded' \in [Connections -> 0..WriterBatch]
    <3>1. 0 \in 0..WriterBatch
      BY BoundsAssumption
    <3> QED
      BY <1>1, <1>6, <3>1 DEF SendBatch, Typed
  <2>2. room' \in [Connections -> BOOLEAN]
    BY <1>1, <1>6 DEF SendBatch, EnvTyped
  <2> QED
    BY <1>1, <1>2, <1>6, <2>1, <2>2 DEF SendBatch, IoGoto, Typed, IoTyped, EnvTyped, notifyVars, Steps
<1>7. CASE SendBlocks
  <2>1. encoded' \in [Connections -> 0..WriterBatch]
    <3>1. ASSUME NEW n \in 1..(encoded[current] - 1), encoded' = [encoded EXCEPT ![current] = n]
          PROVE  encoded' \in [Connections -> 0..WriterBatch]
      <4>1. n \in 0..WriterBatch
        BY <1>1, <1>2, <3>1, BoundsAssumption DEF Typed
      <4> QED
        BY <1>1, <3>1, <4>1 DEF Typed
    <3> QED
      BY <1>1, <1>7, <3>1 DEF SendBlocks, Typed
  <2>2. room' \in [Connections -> BOOLEAN]
    BY <1>1, <1>7 DEF SendBlocks, EnvTyped
  <2>3. interest' \in [Connections -> BOOLEAN] /\ closed' \in [Connections -> BOOLEAN]
    BY <1>1, <1>2, <1>7, EnableWriteTyped DEF SendBlocks
  <2> QED
    BY <1>1, <1>7, <2>1, <2>2, <2>3 DEF SendBlocks, IoGoto, Typed, IoTyped, EnvTyped, notifyVars, Steps
<1>8. CASE SendFails
  BY <1>1, <1>8 DEF SendFails, IoGoto, Typed, IoTyped, EnvTyped, notifyVars, envVars, Steps
<1> QED
  BY <1>3, <1>4, <1>5, <1>6, <1>7, <1>8 DEF HandleWrite

LEMMA ClientTyped ==
  ASSUME WriterInv, RequestStop \/ Asleep \/ UNCHANGED writerVars
                    \/ \E c \in Connections : Client(c)
  PROVE  Typed' /\ IoTyped' /\ EnvTyped'
<1>1. Typed /\ IoTyped /\ EnvTyped
  BY TypedIsWriterTypeOK DEF WriterInv
<1>2. ASSUME NEW c \in Connections, ClientSends(c)
      PROVE  Typed' /\ IoTyped' /\ EnvTyped'
  <2>1. frames[c] + 1 \in 0..MaxFrames /\ events + 1 \in 0..MaxEvents
    BY <1>1, <1>2, BoundsAssumption DEF ClientSends, EnvTyped
  <2> QED
    BY <1>1, <1>2, <2>1
    DEF ClientSends, Typed, IoTyped, EnvTyped, connVars, notifyVars, ioVars
<1>3. ASSUME NEW c \in Connections, ClientReads(c) \/ ClientHangsUp(c)
      PROVE  Typed' /\ IoTyped' /\ EnvTyped'
  BY <1>1, <1>3
  DEF ClientReads, ClientHangsUp, Typed, IoTyped, EnvTyped, connVars, notifyVars, ioVars
<1>4. CASE RequestStop
  BY <1>1, <1>4 DEF RequestStop, Typed, IoTyped, EnvTyped, connVars, ioVars
<1>5. CASE Asleep \/ UNCHANGED writerVars
  BY <1>1, <1>5
  DEF Asleep, writerVars, Typed, IoTyped, EnvTyped, connVars, notifyVars, ioVars, envVars
<1> QED
  BY <1>2, <1>3, <1>4, <1>5 DEF Client

LEMMA WriterTypeStep ==
  ASSUME WriterInv, TypeOK', [WriterNext]_writerVars
  PROVE  WriterTypeOK'
<1>1. Typed' /\ IoTyped' /\ EnvTyped'
  BY NotifyTyped, RouteTyped, PollTyped, DrainTyped, ReadTyped, WriteTyped, ClientTyped
  DEF WriterNext, IoLoop
<1> QED
  BY <1>1 DEF WriterTypeOK, Typed, IoTyped, EnvTyped
-----------------------------------------------------------------------------
(***************************************************************************)
(* The threads' places agree.                                              *)
(***************************************************************************)
LEMMA NotifyOKAfterNotify ==
  ASSUME WriterInv, NEW t \in Threads, Notify(t), Typed'
  PROVE  NotifyOK'
<1>1. Typed /\ TypeOK /\ NotifyOK /\ Threads = Producers
  BY TypedIsWriterTypeOK, ThreadsAreProducers DEF WriterInv
<1>2. npc[t] # "idle"
  BY DEF Notify, MarkDirty, PushDirty, PushingDirty, DirtyPushed, DirtyFull, NoteOverflow,
     WakePoller, NotifyGoto
<1>3. notifying[t] # << >> /\ notifying[t] \in Seq(Connections)
  BY <1>2, NotifiedIsAConnection DEF WriterInv
<1>4. CASE MarkDirty(t)
  <2>1. npc' = [npc EXCEPT ![t] = IF dirty[Notified(t)] THEN "wake" ELSE "push"]
        /\ npc[t] = "mark" /\ UNCHANGED <<notifying, pc, value>>
    BY <1>4 DEF MarkDirty, NotifyGoto, dirtyRing, vars, producerVars
  <2> QED
    BY <1>1, <1>3, <2>1 DEF NotifyOK, Typed, Notified
<1>5. CASE PushDirty(t)
  <2>1. /\ npc' = [npc EXCEPT ![t] = "pushing"] /\ UNCHANGED notifying
        /\ pc' = [pc EXCEPT ![t] = "loadTail"] /\ value' = [value EXCEPT ![t] = Notified(t)]
    BY <1>5 DEF PushDirty, NotifyGoto, PushBegin, Goto
  <2> QED
    BY <1>1, <1>3, <2>1 DEF NotifyOK, Typed, TypeOK, Notified
<1>6. CASE PushingDirty(t)
  <2>1. PICK x \in {"construct", "raiseMark", "publish"} :
          /\ pc' = [pc EXCEPT ![t] = x] /\ npc[t] = "pushing"
          /\ UNCHANGED <<npc, notifying, value>>
    BY <1>6 DEF PushingDirty, HasRoom, Construct, RaiseMark, Goto, notifyVars
  <2> QED
    BY <1>1, <1>3, <2>1 DEF NotifyOK, Typed, TypeOK, Notified
<1>7. CASE DirtyPushed(t) \/ DirtyFull(t)
  <2>1. PICK x \in {"wake", "overflow"} :
          /\ npc' = [npc EXCEPT ![t] = x] /\ pc' = [pc EXCEPT ![t] = "idle"]
          /\ UNCHANGED <<notifying, value>>
    BY <1>7 DEF DirtyPushed, DirtyFull, NotifyGoto, Publish, GiveUp, Goto
  <2> QED
    BY <1>1, <1>3, <2>1 DEF NotifyOK, Typed, TypeOK, Notified
<1>8. CASE NoteOverflow(t)
  <2>1. /\ npc' = [npc EXCEPT ![t] = "wake"] /\ npc[t] = "overflow"
        /\ UNCHANGED <<notifying, pc, value>>
    BY <1>8 DEF NoteOverflow, NotifyGoto, dirtyRing, vars, producerVars
  <2> QED
    BY <1>1, <1>3, <2>1 DEF NotifyOK, Typed, Notified
<1>9. CASE WakePoller(t)
  <2>1. PICK s : s = Tail(notifying[t])
    OBVIOUS
  <2>2. /\ npc[t] = "wake" /\ UNCHANGED <<pc, value>>
        /\ notifying' = [notifying EXCEPT ![t] = s]
        /\ npc' = [npc EXCEPT ![t] = IF s = << >> THEN "idle" ELSE "mark"]
    BY <1>9, <2>1 DEF WakePoller, StartNotifying, dirtyRing, vars, producerVars
  <2> QED
    BY <1>1, <2>2 DEF NotifyOK, Typed, Notified
<1> QED
  BY <1>4, <1>5, <1>6, <1>7, <1>8, <1>9 DEF Notify

LEMMA NotifyOKAfterStart ==
  ASSUME WriterInv, NEW t \in Threads, npc[t] = "idle", NEW s,
         StartNotifying(t, s), UNCHANGED <<pc, value>>
  PROVE  NotifyOK'
<1>1. Typed /\ NotifyOK
  BY TypedIsWriterTypeOK DEF WriterInv
<1> QED
  BY <1>1 DEF NotifyOK, Typed, Notified, StartNotifying

LEMMA NotifyOKStep ==
  ASSUME WriterInv, Typed', [WriterNext]_writerVars
  PROVE  NotifyOK'
<1>1. CASE UNCHANGED <<npc, notifying, pc, value>>
  BY <1>1 DEF WriterInv, NotifyOK, Notified
<1>2. ASSUME NEW s \in Recipients, RouteEvent(s)
      PROVE  NotifyOK'
  <2>1. /\ "matching" \in Threads /\ npc["matching"] = "idle" /\ UNCHANGED <<pc, value>>
        /\ StartNotifying("matching", Wakes(s))
    BY <1>2 DEF RouteEvent, dirtyRing, vars, producerVars, Threads
  <2> QED
    BY <2>1, NotifyOKAfterStart
<1>3. CASE ReadAnswers
  <2>1. "io" \in Threads /\ npc["io"] = "idle" /\ UNCHANGED <<pc, value>>
    BY <1>3 DEF ReadAnswers, dirtyRing, vars, producerVars, Threads
  <2>2. CASE StartNotifying("io", <<current>>)
    BY <2>1, <2>2, NotifyOKAfterStart
  <2>3. CASE UNCHANGED <<notifying, npc>>
    BY <1>1, <2>1, <2>3
  <2> QED
    BY <1>3, <2>2, <2>3 DEF ReadAnswers
<1>4. CASE DrainDirty
  <2>1. UNCHANGED <<npc, notifying, pc, value>>
    BY <1>4 DEF DrainDirty, DrainPops, DrainPopped, Undirty, DrainEmpty, ExchangeOverflow, ScanDone,
       ScanConnection, notifyVars, dirtyRing, vars, producerVars, PopBegin, Take, AdvanceTail, PopEmpty
  <2> QED
    BY <1>1, <2>1
<1>5. CASE ReadBlocks \/ ReadCloses \/ HandleWrite \/ PollWait \/ PollAgain
  <2>1. UNCHANGED <<npc, notifying, pc, value>>
    BY <1>5 DEF ReadBlocks, ReadCloses, HandleWrite, PopOutbound, BatchReady, NothingToWrite,
       DisableWrite, SendBatch, SendBlocks, SendFails, PollWait, PollAgain, notifyVars, dirtyRing,
       vars, producerVars
  <2> QED
    BY <1>1, <2>1
<1>6. ASSUME NEW e, StartDrain(e) \/ SkipClosed(e) \/ StartRead(e) \/ StartWrite(e)
      PROVE  NotifyOK'
  <2>1. UNCHANGED <<npc, notifying, pc, value>>
    BY <1>6 DEF StartDrain, SkipClosed, StartRead, StartWrite, Dispatch, notifyVars, dirtyRing, vars,
       producerVars
  <2> QED
    BY <1>1, <2>1
<1>7. ASSUME RequestStop \/ Asleep \/ UNCHANGED writerVars \/ \E c \in Connections : Client(c)
      PROVE  NotifyOK'
  <2>1. UNCHANGED <<npc, notifying, pc, value>>
    BY <1>7 DEF RequestStop, Asleep, writerVars, Client, ClientSends, ClientReads, ClientHangsUp,
       notifyVars, dirtyRing, vars, producerVars
  <2> QED
    BY <1>1, <2>1
<1> QED
  BY <1>2, <1>3, <1>4, <1>5, <1>6, <1>7, NotifyOKAfterNotify DEF WriterNext, IoLoop, HandleRead

LEMMA LoopOKStep ==
  ASSUME WriterInv, [WriterNext]_writerVars
  PROVE  LoopOK'
<1>1. LoopOK
  BY DEF WriterInv
<1>2. CASE UNCHANGED <<ipc, ready, scanning, cpc>>
  BY <1>1, <1>2 DEF LoopOK
<1>3. ASSUME NEW t \in Threads, Notify(t)
      PROVE  LoopOK'
  <2>1. UNCHANGED <<ipc, ready, scanning, cpc>>
    BY <1>3 DEF Notify, MarkDirty, PushDirty, PushingDirty, DirtyPushed, DirtyFull, NoteOverflow,
       WakePoller, ioVars, dirtyRing, vars, PushBegin, HasRoom, Construct, RaiseMark, Publish, GiveUp
  <2> QED
    BY <1>2, <2>1
<1>4. ASSUME NEW s \in Recipients, RouteEvent(s)
      PROVE  LoopOK'
  BY <1>2, <1>4 DEF RouteEvent, ioVars, dirtyRing, vars
<1>5. CASE PollWait
  <2>1. \A e \in PollEvents : e.type # "wake" => e.conn \in Connections
    BY DEF PollEvents, WakeEvent
  <2> QED
    BY <1>1, <1>5, <2>1 DEF PollWait, IoGoto, LoopOK, dirtyRing, vars
<1>6. CASE PollAgain
  BY <1>1, <1>6 DEF PollAgain, IoGoto, LoopOK, dirtyRing, vars
<1>7. ASSUME NEW e \in ready, StartDrain(e) \/ SkipClosed(e) \/ StartRead(e) \/ StartWrite(e)
      PROVE  LoopOK'
  BY <1>1, <1>7 DEF StartDrain, SkipClosed, StartRead, StartWrite, Dispatch, IoGoto, LoopOK,
     dirtyRing, vars
<1>8. CASE DrainDirty
  BY <1>1, <1>8 DEF DrainDirty, DrainPops, DrainPopped, Undirty, DrainEmpty, ExchangeOverflow,
     ScanDone, ScanConnection, IoGoto, LoopOK, ioVars, dirtyRing, vars, PopBegin, Take, AdvanceTail,
     PopEmpty, ConsumerGoto
<1>9. CASE HandleRead
  BY <1>1, <1>9 DEF HandleRead, ReadAnswers, ReadBlocks, ReadCloses, FinishConnection, IoGoto,
     LoopOK, ioVars, dirtyRing, vars
<1>10. CASE HandleWrite
  BY <1>1, <1>10 DEF HandleWrite, PopOutbound, BatchReady, NothingToWrite, DisableWrite, SendBatch,
     SendBlocks, SendFails, IoGoto, LoopOK, ioVars, dirtyRing, vars
<1>11. CASE RequestStop \/ Asleep \/ UNCHANGED writerVars \/ \E c \in Connections : Client(c)
  BY <1>2, <1>11 DEF RequestStop, Asleep, writerVars, Client, ClientSends, ClientReads,
     ClientHangsUp, ioVars, dirtyRing, vars
<1> QED
  BY <1>3, <1>4, <1>5, <1>6, <1>7, <1>8, <1>9, <1>10, <1>11 DEF WriterNext, IoLoop
-----------------------------------------------------------------------------
(***************************************************************************)
(* No wake-up is lost.                                                     *)
(***************************************************************************)
LEMMA RousedOKAfterNotify ==
  ASSUME WriterInv, NEW t \in Threads, Notify(t)
  PROVE  RousedOK'
<1>1. Typed /\ RousedOK
  BY TypedIsWriterTypeOK DEF WriterInv
<1>2. UNCHANGED <<ipc, ready>>
  BY DEF Notify, MarkDirty, PushDirty, PushingDirty, DirtyPushed, DirtyFull, NoteOverflow,
     WakePoller, ioVars
<1>3. CASE DirtyPushed(t) \/ NoteOverflow(t)
  <2>1. npc'[t] = "wake"
    BY <1>1, <1>3 DEF DirtyPushed, NoteOverflow, NotifyGoto, Typed
  <2> QED
    BY <2>1 DEF RousedOK, Roused
<1>4. CASE WakePoller(t)
  <2>1. wakeup'
    BY <1>4 DEF WakePoller
  <2> QED
    BY <2>1 DEF RousedOK, Roused
<1>5. CASE MarkDirty(t) \/ PushDirty(t) \/ PushingDirty(t) \/ DirtyFull(t)
  <2>1. UNCHANGED <<head, tail, overflow, wakeup>>
    BY <1>5 DEF MarkDirty, PushDirty, PushingDirty, DirtyFull, dirtyRing, vars, ringVars, notifyVars,
       PushBegin, HasRoom, Construct, RaiseMark, GiveUp
  <2>2. \A u \in Threads : npc[u] = "wake" => npc'[u] = "wake"
    BY <1>1, <1>5 DEF MarkDirty, PushDirty, PushingDirty, DirtyFull, NotifyGoto, notifyVars, Typed
  <2> QED
    BY <1>1, <1>2, <2>1, <2>2 DEF RousedOK, Roused
<1> QED
  BY <1>3, <1>4, <1>5 DEF Notify

\* Starting to notify takes no wake-up back.
LEMMA StartKeepsRoused ==
  ASSUME WriterInv, NEW t \in Threads, npc[t] = "idle", NEW s, StartNotifying(t, s),
         UNCHANGED <<head, tail, overflow, wakeup, ipc, ready>>
  PROVE  RousedOK'
<1>1. Typed /\ RousedOK
  BY TypedIsWriterTypeOK DEF WriterInv
<1>2. \A u \in Threads : npc[u] = "wake" => npc'[u] = "wake"
  BY <1>1 DEF StartNotifying, Typed
<1> QED
  BY <1>1, <1>2 DEF RousedOK, Roused

LEMMA RousedOKStep ==
  ASSUME WriterInv, [WriterNext]_writerVars
  PROVE  RousedOK'
<1>1. RousedOK /\ LoopOK
  BY DEF WriterInv
<1>2. CASE UNCHANGED <<head, tail, overflow, wakeup, npc, ipc, ready>>
  BY <1>1, <1>2 DEF RousedOK, Roused
<1>3. ASSUME NEW s \in Recipients, RouteEvent(s)
      PROVE  RousedOK'
  <2>1. "matching" \in Threads
    BY DEF Threads
  <2> QED
    BY <1>3, <2>1, StartKeepsRoused DEF RouteEvent, ioVars, dirtyRing, vars, ringVars
<1>4. CASE PollWait
  <2>1. wakeup => WakeEvent \in ready'
    BY <1>4 DEF PollWait, PollEvents
  <2>2. ready = {} /\ UNCHANGED <<head, tail, overflow, npc>> /\ ipc = "wait"
    BY <1>1, <1>4 DEF PollWait, IoGoto, LoopOK, dirtyRing, vars, ringVars
  <2> QED
    BY <1>1, <2>1, <2>2 DEF RousedOK, Roused
<1>5. CASE PollAgain
  BY <1>1, <1>5 DEF PollAgain, IoGoto, RousedOK, Roused, dirtyRing, vars, ringVars, notifyVars
<1>6. ASSUME NEW e \in ready, StartDrain(e)
      PROVE  RousedOK'
  BY <1>6 DEF StartDrain, Dispatch, IoGoto, RousedOK
<1>7. ASSUME NEW e \in ready, SkipClosed(e) \/ StartRead(e) \/ StartWrite(e)
      PROVE  RousedOK'
  <2>1. e # WakeEvent
    BY <1>7 DEF SkipClosed, StartRead, StartWrite, WakeEvent
  <2> QED
    BY <1>1, <1>7, <2>1 DEF SkipClosed, StartRead, StartWrite, Dispatch, IoGoto, RousedOK, Roused,
       dirtyRing, vars, ringVars, notifyVars
<1>8. CASE DrainPops \/ DrainPopped \/ Undirty
  <2>1. ipc' \in {"drain", "undirty"}
    BY <1>8 DEF DrainPops, DrainPopped, Undirty, IoGoto, ioVars
  <2> QED
    BY <2>1 DEF RousedOK
<1>9. CASE DrainEmpty
  <2>1. head = tail /\ ipc' = "exchange" /\ UNCHANGED <<head, tail>>
    BY <1>9 DEF DrainEmpty, PopEmpty, IsEmpty, IoGoto, vars, ringVars
  <2> QED
    BY <2>1 DEF RousedOK
<1>10. CASE ExchangeOverflow
  BY <1>1, <1>10 DEF ExchangeOverflow, IoGoto, RousedOK, Roused, dirtyRing, vars, ringVars
<1>11. CASE ScanDone \/ \E c \in Connections : ScanConnection(c)
  BY <1>1, <1>11 DEF ScanDone, ScanConnection, IoGoto, RousedOK, Roused, dirtyRing, vars, ringVars,
     notifyVars
<1>12. CASE ReadAnswers
  <2>1. /\ "io" \in Threads /\ npc["io"] = "idle"
        /\ UNCHANGED <<head, tail, overflow, wakeup, ipc, ready>>
    BY <1>12 DEF ReadAnswers, Threads, ioVars, dirtyRing, vars, ringVars
  <2>2. CASE StartNotifying("io", <<current>>)
    BY <2>1, <2>2, StartKeepsRoused
  <2>3. CASE UNCHANGED npc
    BY <1>2, <2>1, <2>3
  <2> QED
    BY <1>12, <2>2, <2>3 DEF ReadAnswers
<1>13. CASE ReadBlocks \/ ReadCloses
  BY <1>1, <1>13 DEF ReadBlocks, ReadCloses, FinishConnection, IoGoto, RousedOK, Roused, dirtyRing,
     vars, ringVars, notifyVars
<1>14. CASE HandleWrite
  BY <1>1, <1>14 DEF HandleWrite, PopOutbound, BatchReady, NothingToWrite, DisableWrite, SendBatch,
     SendBlocks, SendFails, IoGoto, RousedOK, Roused, ioVars, dirtyRing, vars, ringVars, notifyVars
<1>15. CASE RequestStop
  BY <1>15 DEF RequestStop, RousedOK, Roused
<1>16. CASE Asleep \/ UNCHANGED writerVars \/ \E c \in Connections : Client(c)
  BY <1>2, <1>16 DEF Asleep, writerVars, Client, ClientSends, ClientReads, ClientHangsUp, ioVars,
     dirtyRing, vars, ringVars, notifyVars
<1> QED
  BY <1>3, <1>4, <1>5, <1>6, <1>7, <1>8, <1>9, <1>10, <1>11, <1>12, <1>13, <1>14, <1>15, <1>16,
     RousedOKAfterNotify
  DEF WriterNext, IoLoop, DrainDirty, HandleRead
-----------------------------------------------------------------------------
(***************************************************************************)
(* A dirty connection stays on record.                                     *)
(***************************************************************************)
LEMMA ListingUnchanged ==
  ASSUME UNCHANGED <<head, tail, log>>, NEW c, Listed(c)
  PROVE  Listed(c)'
  BY DEF Listed, Pending

LEMMA PublishLists ==
  ASSUME RingInv, NEW t \in Producers, Publish(t)
  PROVE  Listed(value[t])' /\ \A c : Listed(c) => Listed(c)'
<1> USE DEF RingInv, TypeOK
<1>1. pc[t] = "publish" /\ seenHead[t] = head /\ value[t] \in Items
  BY DEF Publish, Goto, ProducerOK
<1>2. PICK v \in Items : v = value[t]
  BY <1>1
<1>3. head' = head + 1 /\ tail' = tail /\ log' = Append(log, v)
  BY <1>1, <1>2 DEF Publish
<1>4. Len(log) = head /\ tail <= head /\ head \in Nat /\ tail \in Nat /\ log \in Seq(Items)
  BY DEF CountersOK
<1>5. log'[head + 1] = v /\ \A j \in 1..head : log'[j] = log[j]
  BY <1>2, <1>3, <1>4
<1>6. head \in Pending' /\ \A i \in Pending : i \in Pending' /\ i + 1 \in 1..head
  BY <1>3, <1>4 DEF Pending
<1>7. Listed(v)'
  BY <1>5, <1>6 DEF Listed
<1>8. value[t]' = value[t]
  BY DEF Publish
<1>9. ASSUME NEW c, Listed(c)
      PROVE  Listed(c)'
  BY <1>5, <1>6, <1>9 DEF Listed
<1> QED
  BY <1>2, <1>7, <1>8, <1>9

\* The connection popped is the one that leaves dirty_.
LEMMA PoppedIsCurrent ==
  ASSUME RingInv, AdvanceTail, NEW c, Listed(c)
  PROVE  Listed(c)' \/ received[Len(received)] = c
<1> USE DEF RingInv, TypeOK
<1>1. PICK i \in Pending : log[i + 1] = c
  BY DEF Listed
<1>2. cpc = "advance" /\ tail' = tail + 1 /\ UNCHANGED <<head, log>>
  BY DEF AdvanceTail, ConsumerGoto, TailAfterPop
<1>3. CASE i = tail
  <2>1. Len(received) = tail + 1 /\ received[tail + 1] = log[tail + 1]
    BY <1>2 DEF CountersOK
  <2> QED
    BY <1>1, <1>3, <2>1
<1>4. CASE i # tail
  <2>1. i \in Pending'
    BY <1>2, <1>4 DEF Pending
  <2> QED
    BY <1>1, <1>2, <2>1 DEF Listed
<1> QED
  BY <1>3, <1>4

LEMMA DirtyOKAfterNotify ==
  ASSUME WriterInv, NEW t \in Threads, Notify(t)
  PROVE  DirtyOK'
<1>1. Typed /\ DirtyOK /\ NotifyOK /\ RingInv /\ t \in Producers
  BY TypedIsWriterTypeOK, ThreadsAreProducers DEF WriterInv
<1>2. npc[t] # "idle"
  BY DEF Notify, MarkDirty, PushDirty, PushingDirty, DirtyPushed, DirtyFull, NoteOverflow,
     WakePoller, NotifyGoto
<1>3. PICK h \in Connections : h = Notified(t)
  BY <1>2, NotifiedIsAConnection DEF WriterInv
<1>4. UNCHANGED <<ipc, current, scanning>>
  BY DEF Notify, MarkDirty, PushDirty, PushingDirty, DirtyPushed, DirtyFull, NoteOverflow,
     WakePoller, ioVars
<1>5. \A u \in Threads : u # t => npc'[u] = npc[u] /\ notifying'[u] = notifying[u]
  BY <1>1 DEF Notify, MarkDirty, PushDirty, PushingDirty, DirtyPushed, DirtyFull, NoteOverflow,
     WakePoller, NotifyGoto, StartNotifying, notifyVars, Typed
<1>6. \A u \in Threads : \A c : u # t /\ Carries(u, c) => Carries(u, c)'
  BY <1>5 DEF Carries, Notified
<1>7. ASSUME \A c : Listed(c) => Listed(c)', overflow => overflow',
             \A c \in Connections : dirty'[c] => dirty[c] \/ c = h,
             \A c : Carries(t, c) => OnRecord(c)',
             dirty'[h] => dirty[h] \/ OnRecord(h)'
      PROVE  DirtyOK'
  <2> SUFFICES ASSUME NEW c \in Connections, dirty'[c] PROVE OnRecord(c)'
    BY DEF DirtyOK
  <2>1. CASE dirty[c]
    <3>1. OnRecord(c)
      BY <1>1, <2>1 DEF DirtyOK
    <3> QED
      BY <1>4, <1>6, <1>7, <3>1 DEF OnRecord
  <2>2. CASE ~dirty[c]
    BY <1>7, <2>2
  <2> QED
    BY <2>1, <2>2
<1>8. CASE MarkDirty(t)
  <2>1. /\ npc[t] = "mark" /\ npc'[t] = IF dirty[h] THEN "wake" ELSE "push"
        /\ UNCHANGED <<head, tail, log, overflow, notifying>>
    BY <1>1, <1>3, <1>8 DEF MarkDirty, NotifyGoto, Typed, dirtyRing, vars, ringVars
  <2>2. \A c \in Connections : dirty'[c] => dirty[c] \/ c = h
    BY <1>1, <1>3, <1>8 DEF MarkDirty, Typed
  <2>3. ~dirty[h] => Carries(t, h)'
    BY <1>3, <2>1 DEF Carries, Notified
  <2> QED
    BY <1>7, <2>1, <2>2, <2>3, ListingUnchanged DEF OnRecord, Carries
<1>9. CASE PushDirty(t) \/ PushingDirty(t) \/ DirtyFull(t)
  <2>1. /\ npc'[t] \in {"push", "pushing", "overflow"}
        /\ UNCHANGED <<head, tail, log, overflow, notifying, dirty>>
    BY <1>1, <1>9 DEF PushDirty, PushingDirty, DirtyFull, NotifyGoto, Typed, notifyVars,
       PushBegin, HasRoom, Construct, RaiseMark, GiveUp, ringVars
  <2>2. \A c : Carries(t, c) => Carries(t, c)'
    BY <2>1 DEF Carries, Notified
  <2> QED
    BY <1>7, <2>1, <2>2, ListingUnchanged DEF OnRecord
<1>10. CASE DirtyPushed(t)
  <2>1. /\ npc[t] = "pushing" /\ Publish(t) /\ UNCHANGED <<overflow, dirty>>
    BY <1>10 DEF DirtyPushed, NotifyGoto
  <2>2. value[t] = h /\ value'[t] = h
    BY <1>1, <1>3, <2>1 DEF NotifyOK, Publish
  <2>3. Listed(h)'
    BY <1>1, <2>1, <2>2, PublishLists
  <2>4. \A c : Carries(t, c) => c = h
    BY <1>3 DEF Carries
  <2> QED
    BY <1>1, <1>7, <2>1, <2>3, <2>4, PublishLists DEF OnRecord
<1>11. CASE NoteOverflow(t)
  <2>1. overflow' /\ UNCHANGED <<head, tail, log, dirty>>
    BY <1>11 DEF NoteOverflow, dirtyRing, vars, ringVars
  <2> QED
    BY <2>1 DEF DirtyOK, OnRecord
<1>12. CASE WakePoller(t)
  <2>1. npc[t] = "wake" /\ UNCHANGED <<head, tail, log, dirty, overflow>>
    BY <1>12 DEF WakePoller, dirtyRing, vars, ringVars
  <2> QED
    BY <1>7, <2>1, ListingUnchanged DEF Carries
<1> QED
  BY <1>8, <1>9, <1>10, <1>11, <1>12 DEF Notify

\* A step that leaves dirty_, the flags and the notifying threads alone and
\* is not about a popped connection.
LEMMA RecordsUnchanged ==
  ASSUME WriterInv, ipc # "undirty",
         UNCHANGED <<head, tail, log, dirty, overflow, scanning>>,
         \A t \in Threads : npc[t] # "idle" =>
           npc'[t] = npc[t] /\ notifying'[t] = notifying[t]
  PROVE  DirtyOK'
<1>1. \A t \in Threads : \A c : Carries(t, c) => Carries(t, c)'
  BY DEF Carries, Notified
<1>2. \A c : OnRecord(c) => OnRecord(c)'
  BY <1>1, ListingUnchanged DEF OnRecord
<1> QED
  BY <1>2 DEF WriterInv, DirtyOK

LEMMA DirtyOKAfterDrain ==
  ASSUME WriterInv, DrainDirty
  PROVE  DirtyOK'
<1>1. Typed /\ DirtyOK /\ LoopOK /\ RingInv
  BY TypedIsWriterTypeOK DEF WriterInv
<1>2. UNCHANGED <<npc, notifying>>
  BY DEF DrainDirty, DrainPops, DrainPopped, Undirty, DrainEmpty, ExchangeOverflow, ScanDone,
     ScanConnection, notifyVars
<1>3. \A t \in Threads : \A c : Carries(t, c) => Carries(t, c)'
  BY <1>2 DEF Carries, Notified
<1>4. CASE DrainPops
  BY <1>2, <1>4, RecordsUnchanged DEF DrainPops, notifyVars, ioVars, PopBegin, Take, ringVars
<1>5. CASE DrainEmpty \/ ScanDone
  BY <1>2, <1>5, RecordsUnchanged DEF DrainEmpty, ScanDone, PopEmpty, IoGoto, notifyVars, dirtyRing,
     vars, ringVars
<1>6. CASE DrainPopped
  <2>1. /\ AdvanceTail /\ ipc = "drain" /\ ipc' = "undirty" /\ current' = received[Len(received)]
        /\ UNCHANGED <<dirty, overflow, scanning>>
    BY <1>6 DEF DrainPopped, IoGoto, notifyVars
  <2>2. \A c : OnRecord(c) => OnRecord(c)'
    BY <1>1, <1>3, <2>1, PoppedIsCurrent DEF OnRecord
  <2> QED
    BY <1>1, <2>1, <2>2 DEF DirtyOK
<1>7. CASE Undirty
  <2>1. /\ ipc = "undirty" /\ current \in Connections /\ dirty' = [dirty EXCEPT ![current] = FALSE]
        /\ UNCHANGED <<head, tail, log, overflow, scanning>>
    BY <1>7 DEF Undirty, IoGoto, dirtyRing, vars, ringVars
  <2>2. \A c : OnRecord(c) /\ c # current => OnRecord(c)'
    BY <1>3, <2>1, ListingUnchanged DEF OnRecord
  <2>3. \A c \in Connections : dirty'[c] => dirty[c] /\ c # current
    BY <1>1, <2>1 DEF Typed
  <2> QED
    BY <1>1, <2>2, <2>3 DEF DirtyOK
<1>8. CASE ExchangeOverflow
  <2>1. /\ scanning = {} /\ ipc = "exchange" /\ (overflow => scanning' = Connections)
        /\ UNCHANGED <<head, tail, log, dirty>>
    BY <1>1, <1>8 DEF ExchangeOverflow, IoGoto, LoopOK, dirtyRing, vars, ringVars
  <2>2. \A c \in Connections : OnRecord(c) => OnRecord(c)'
    BY <1>3, <2>1, ListingUnchanged DEF OnRecord
  <2> QED
    BY <1>1, <2>1, <2>2 DEF DirtyOK
<1>9. ASSUME NEW d \in Connections, ScanConnection(d)
      PROVE  DirtyOK'
  <2>1. /\ ipc = "scan" /\ scanning' = scanning \ {d} /\ dirty' = [dirty EXCEPT ![d] = FALSE]
        /\ UNCHANGED <<head, tail, log, overflow>>
    BY <1>9 DEF ScanConnection, dirtyRing, vars, ringVars
  <2>2. \A c : OnRecord(c) /\ c # d => OnRecord(c)'
    BY <1>3, <2>1, ListingUnchanged DEF OnRecord
  <2>3. \A c \in Connections : dirty'[c] => dirty[c] /\ c # d
    BY <1>1, <2>1 DEF Typed
  <2> QED
    BY <1>1, <2>2, <2>3 DEF DirtyOK
<1> QED
  BY <1>4, <1>5, <1>6, <1>7, <1>8, <1>9 DEF DrainDirty

LEMMA DirtyOKStep ==
  ASSUME WriterInv, [WriterNext]_writerVars
  PROVE  DirtyOK'
<1>1. Typed
  BY TypedIsWriterTypeOK DEF WriterInv
<1>2. ASSUME NEW s \in Recipients, RouteEvent(s)
      PROVE  DirtyOK'
  <2>1. /\ UNCHANGED <<head, tail, log, dirty, overflow, scanning, ipc, current>>
        /\ npc["matching"] = "idle" /\ StartNotifying("matching", Wakes(s))
    BY <1>2 DEF RouteEvent, ioVars, dirtyRing, vars, ringVars
  <2>2. \A t \in Threads : npc[t] # "idle" => npc'[t] = npc[t] /\ notifying'[t] = notifying[t]
    BY <1>1, <2>1 DEF StartNotifying, Typed
  <2>3. \A t \in Threads : \A c : Carries(t, c) => Carries(t, c)'
    BY <2>2 DEF Carries, Notified
  <2>4. \A c : OnRecord(c) => OnRecord(c)'
    BY <2>1, <2>3, ListingUnchanged DEF OnRecord
  <2> QED
    BY <2>1, <2>4 DEF WriterInv, DirtyOK
<1>3. CASE ReadAnswers
  <2>1. /\ UNCHANGED <<head, tail, log, dirty, overflow, scanning>> /\ ipc = "read"
        /\ npc["io"] = "idle"
    BY <1>3 DEF ReadAnswers, ioVars, dirtyRing, vars, ringVars
  <2>2. \A t \in Threads : npc[t] # "idle" => npc'[t] = npc[t] /\ notifying'[t] = notifying[t]
    BY <1>1, <1>3, <2>1 DEF ReadAnswers, StartNotifying, Typed
  <2> QED
    BY <2>1, <2>2, RecordsUnchanged
<1>4. CASE ReadBlocks \/ ReadCloses \/ HandleWrite \/ PollWait \/ PollAgain
  BY <1>4, RecordsUnchanged DEF ReadBlocks, ReadCloses, FinishConnection, HandleWrite, PopOutbound,
     BatchReady, NothingToWrite, DisableWrite, SendBatch, SendBlocks, SendFails, PollWait, PollAgain,
     IoGoto, ioVars, notifyVars, dirtyRing, vars, ringVars
<1>5. ASSUME NEW e, StartDrain(e) \/ SkipClosed(e) \/ StartRead(e) \/ StartWrite(e)
      PROVE  DirtyOK'
  BY <1>5, RecordsUnchanged DEF StartDrain, SkipClosed, StartRead, StartWrite, Dispatch, IoGoto,
     notifyVars, dirtyRing, vars, ringVars
<1>6. CASE RequestStop \/ Asleep \/ UNCHANGED writerVars \/ \E c \in Connections : Client(c)
  <2>1. UNCHANGED <<head, tail, log, dirty, overflow, scanning, npc, notifying, ipc, current>>
    BY <1>6 DEF RequestStop, Asleep, writerVars, Client, ClientSends, ClientReads, ClientHangsUp,
       ioVars, notifyVars, dirtyRing, vars, ringVars
  <2>2. \A c : OnRecord(c) => OnRecord(c)'
    BY <2>1, ListingUnchanged DEF OnRecord, Carries, Notified
  <2> QED
    BY <2>1, <2>2 DEF WriterInv, DirtyOK
<1> QED
  BY <1>2, <1>3, <1>4, <1>5, <1>6, DirtyOKAfterNotify, DirtyOKAfterDrain
  DEF WriterNext, IoLoop, HandleRead
-----------------------------------------------------------------------------
(***************************************************************************)
(* A connection with something to write is attended to.                    *)
(***************************************************************************)
\* What a step has to respect.
LEMMA AttentionKept ==
  ASSUME ReportOK,
         \A c \in Connections : closed[c] => closed'[c],
         \A c \in Connections : Unwritten(c)' > 0 => Unwritten(c) > 0 \/ AwaitsMark(c)',
         \A c \in Connections : AwaitsMark(c) => AwaitsMark(c)' \/ dirty'[c],
         \A c \in Connections : dirty[c] => dirty'[c] \/ Interested(c)' \/ closed'[c],
         \A c \in Connections : Interested(c) => Interested(c)' \/ ~(Unwritten(c)' > 0) \/ closed'[c]
  PROVE  ReportOK'
  BY DEF ReportOK

LEMMA AwaitingUnchanged ==
  ASSUME UNCHANGED <<npc, notifying>>, NEW c, AwaitsMark(c)
  PROVE  AwaitsMark(c)'
  BY DEF AwaitsMark

\* Where a report is counted does not matter to a step that leaves the three
\* counts alone.
LEMMA CountsUnchanged ==
  ASSUME UNCHANGED <<outbound, sessionOut, encoded>>, NEW c
  PROVE  Unwritten(c)' = Unwritten(c)
  BY DEF Unwritten, Waiting

LEMMA ReportOKAfterNotify ==
  ASSUME WriterInv, NEW t \in Threads, Notify(t)
  PROVE  ReportOK'
<1>1. Typed /\ ReportOK /\ NotifyOK
  BY TypedIsWriterTypeOK DEF WriterInv
<1>2. npc[t] # "idle"
  BY DEF Notify, MarkDirty, PushDirty, PushingDirty, DirtyPushed, DirtyFull, NoteOverflow,
     WakePoller, NotifyGoto
<1>3. PICK h \in Connections : h = Notified(t) /\ h = notifying[t][1]
  BY <1>2, NotifiedIsAConnection DEF WriterInv
<1>4. UNCHANGED <<outbound, sessionOut, encoded, closed, interest, ipc, current>>
  BY DEF Notify, MarkDirty, PushDirty, PushingDirty, DirtyPushed, DirtyFull, NoteOverflow,
     WakePoller, connVars, ioVars
<1>5. \A c \in Connections : dirty[c] => dirty'[c]
  BY <1>1 DEF Notify, MarkDirty, PushDirty, PushingDirty, DirtyPushed, DirtyFull, NoteOverflow,
     WakePoller, notifyVars, Typed
<1>6. ASSUME NEW c \in Connections, AwaitsMark(c)
      PROVE  AwaitsMark(c)' \/ dirty'[c]
  <2>0. PICK u \in Threads : \E j \in DOMAIN notifying[u] :
          notifying[u][j] = c /\ (j = 1 => npc[u] = "mark")
    BY <1>6 DEF AwaitsMark
  <2>1. PICK j \in DOMAIN notifying[u] : notifying[u][j] = c /\ (j = 1 => npc[u] = "mark")
    BY <2>0
  <2>2. CASE u # t
    <3>1. npc'[u] = npc[u] /\ notifying'[u] = notifying[u]
      BY <1>1, <2>2 DEF Notify, MarkDirty, PushDirty, PushingDirty, DirtyPushed, DirtyFull,
         NoteOverflow, WakePoller, NotifyGoto, StartNotifying, notifyVars, Typed
    <3> QED
      BY <2>1, <3>1 DEF AwaitsMark
  <2>3. CASE u = t /\ MarkDirty(t)
    <3>1. dirty'[h] /\ notifying' = notifying
      BY <1>1, <1>3, <2>3 DEF MarkDirty, Typed
    <3>2. CASE j = 1
      BY <1>3, <2>1, <2>3, <3>1, <3>2
    <3>3. CASE j # 1
      BY <2>1, <2>3, <3>1, <3>3 DEF AwaitsMark
    <3> QED
      BY <3>2, <3>3
  <2>4. CASE u = t /\ (PushDirty(t) \/ PushingDirty(t) \/ DirtyPushed(t) \/ DirtyFull(t) \/ NoteOverflow(t))
    <3>1. npc[t] # "mark" /\ notifying' = notifying
      BY <2>4 DEF PushDirty, PushingDirty, DirtyPushed, DirtyFull, NoteOverflow, NotifyGoto, notifyVars
    <3> QED
      BY <2>1, <2>4, <3>1 DEF AwaitsMark
  <2>5. CASE u = t /\ WakePoller(t)
    <3>1. PICK q \in Seq(Connections) : q = notifying[t]
      BY <1>1 DEF Typed
    <3>2. q # << >> /\ j # 1 /\ j \in 1..Len(q) /\ q[j] = c
      BY <1>1, <1>2, <2>1, <2>5, <3>1 DEF WakePoller, NotifyOK
    <3>3. PICK k \in 1..Len(Tail(q)) : k = j - 1 /\ Tail(q)[k] = c
      BY <3>2
    <3>4. /\ notifying'[t] = Tail(q) /\ npc'[t] = IF Tail(q) = << >> THEN "idle" ELSE "mark"
      BY <1>1, <2>5, <3>1 DEF WakePoller, StartNotifying, Typed
    <3>5. Tail(q) # << >> /\ k \in DOMAIN Tail(q)
      BY <3>2, <3>3
    <3> QED
      BY <3>3, <3>4, <3>5 DEF AwaitsMark
  <2> QED
    BY <2>2, <2>3, <2>4, <2>5 DEF Notify
<1>7. \A c \in Connections : Interested(c)' <=> Interested(c)
  BY <1>4 DEF Interested
<1> QED
  BY <1>1, <1>4, <1>5, <1>6, <1>7, AttentionKept, CountsUnchanged

\* The thread was idle, so it forgets nobody when it starts on a new list.
LEMMA StartKeepsAwaiting ==
  ASSUME WriterInv, NEW t \in Threads, npc[t] = "idle", NEW s \in Seq(Connections),
         StartNotifying(t, s)
  PROVE  /\ \A c : AwaitsMark(c) => AwaitsMark(c)'
         /\ \A c : (\E j \in DOMAIN s : s[j] = c) => AwaitsMark(c)'
<1>1. Typed /\ notifying[t] = << >>
  BY TypedIsWriterTypeOK DEF WriterInv, NotifyOK
<1>2. \A u \in Threads : u # t => npc'[u] = npc[u] /\ notifying'[u] = notifying[u]
  BY <1>1 DEF StartNotifying, Typed
<1>3. notifying'[t] = s /\ npc'[t] = IF s = << >> THEN "idle" ELSE "mark"
  BY <1>1 DEF StartNotifying, Typed
<1>4. ASSUME NEW c, AwaitsMark(c)
      PROVE  AwaitsMark(c)'
  <2>1. PICK u \in Threads : \E j \in DOMAIN notifying[u] :
          notifying[u][j] = c /\ (j = 1 => npc[u] = "mark")
    BY <1>4 DEF AwaitsMark
  <2>2. u # t
    BY <1>1, <2>1
  <2> QED
    BY <1>2, <2>1, <2>2 DEF AwaitsMark
<1>5. ASSUME NEW c, NEW j \in DOMAIN s, s[j] = c
      PROVE  AwaitsMark(c)'
  <2>1. s # << >>
    BY <1>5
  <2> QED
    BY <1>3, <1>5, <2>1 DEF AwaitsMark
<1> QED
  BY <1>4, <1>5

LEMMA ReportOKAfterRoute ==
  ASSUME WriterInv, NEW s \in Recipients, RouteEvent(s)
  PROVE  ReportOK'
<1>1. Typed /\ ReportOK /\ "matching" \in Threads
  BY TypedIsWriterTypeOK DEF WriterInv, Threads
<1>2. /\ npc["matching"] = "idle" /\ StartNotifying("matching", Wakes(s))
      /\ UNCHANGED <<sessionOut, encoded, interest, closed, dirty, ipc, current>>
  BY DEF RouteEvent, ioVars
<1>3. /\ \A c : AwaitsMark(c) => AwaitsMark(c)'
      /\ \A c : (\E j \in DOMAIN Wakes(s) : Wakes(s)[j] = c) => AwaitsMark(c)'
  BY <1>1, <1>2, EveryRecipientIsWoken, StartKeepsAwaiting
<1>4. ASSUME NEW c \in Connections
      PROVE  Unwritten(c)' = Unwritten(c) \/ AwaitsMark(c)'
  <2>1. CASE c \in To(s) /\ Delivers(c)
    BY <1>3, <2>1, EveryRecipientIsWoken
  <2>2. CASE ~(c \in To(s) /\ Delivers(c))
    <3>1. PICK n \in {1, 2} : outbound' = [d \in Connections |->
            IF d \in To(s) THEN Filled(d, n) ELSE outbound[d]]
      BY DEF RouteEvent, ReportsEach
    <3>2. outbound'[c] = IF c \in To(s) THEN Filled(c, n) ELSE outbound[c]
      BY <3>1
    <3>3. ~Delivers(c) => Filled(c, n) = outbound[c]
      BY <1>1, BoundsAssumption DEF Delivers, Filled, Typed
    <3>4. outbound'[c] = outbound[c]
      BY <2>2, <3>2, <3>3
    <3> QED
      BY <1>2, <3>4 DEF Unwritten, Waiting
  <2> QED
    BY <2>1, <2>2
<1>5. \A c \in Connections : Interested(c)' <=> Interested(c)
  BY <1>2 DEF Interested
<1> QED
  BY <1>1, <1>2, <1>3, <1>4, <1>5, AttentionKept

\* A step of the I/O thread that neither reads, writes, opens nor closes.
LEMMA ReportOKAfterMove ==
  ASSUME WriterInv, UNCHANGED <<connVars, dirty, npc, notifying>>,
         ipc' # "disable" \/ ~(Unwritten(current') > 0) \/ UNCHANGED <<ipc, current>>
  PROVE  ReportOK'
<1>1. UNCHANGED <<outbound, sessionOut, encoded, interest, closed>>
  BY DEF connVars
<1>2. \A c \in Connections : Interested(c) => Interested(c)' \/ ~(Unwritten(c) > 0)
  BY <1>1 DEF Interested
<1>3. \A c : Unwritten(c)' = Unwritten(c)
  BY <1>1, CountsUnchanged
<1>4. \A c : AwaitsMark(c) => AwaitsMark(c)'
  BY AwaitingUnchanged
<1> QED
  BY <1>1, <1>2, <1>3, <1>4, AttentionKept DEF WriterInv

\* A step that puts write interest on, or closes the connection, and may
\* clear its flag.
LEMMA ReportOKAfterEnable ==
  ASSUME WriterInv, NEW d \in Connections, EnableWrite(d), ipc' # "disable",
         UNCHANGED <<npc, notifying>>,
         \A c \in Connections : c # d /\ dirty[c] => dirty'[c],
         \A c \in Connections : Unwritten(c)' > 0 => Unwritten(c) > 0
  PROVE  ReportOK'
<1>1. Typed
  BY TypedIsWriterTypeOK DEF WriterInv
<1>2. /\ \A c \in Connections : closed[c] => closed'[c]
      /\ \A c \in Connections : interest[c] => interest'[c]
      /\ interest'[d] \/ closed'[d]
  BY <1>1, EnableWriteTyped
<1>3. \A c \in Connections : interest'[c] => Interested(c)'
  BY DEF Interested
<1>4. \A c \in Connections : Interested(c) => Interested(c)'
  BY <1>2, <1>3 DEF Interested
<1>5. \A c \in Connections : AwaitsMark(c) => AwaitsMark(c)'
  BY AwaitingUnchanged
<1> QED
  BY <1>2, <1>3, <1>4, <1>5, AttentionKept DEF WriterInv

LEMMA ReportOKAfterDrain ==
  ASSUME WriterInv, DrainDirty
  PROVE  ReportOK'
<1>1. Typed
  BY TypedIsWriterTypeOK DEF WriterInv
<1>2. CASE DrainPops
  BY <1>2, ReportOKAfterMove DEF DrainPops, notifyVars, ioVars
<1>3. CASE DrainPopped \/ DrainEmpty \/ ScanDone \/ ExchangeOverflow
  BY <1>3, ReportOKAfterMove DEF DrainPopped, DrainEmpty, ScanDone, ExchangeOverflow, IoGoto,
     notifyVars
<1>4. CASE Undirty
  <2>1. /\ current \in Connections /\ EnableWrite(current) /\ ipc' = "drain"
        /\ UNCHANGED <<outbound, sessionOut, encoded, npc, notifying>>
    BY <1>4 DEF Undirty, IoGoto
  <2>2. \A c \in Connections : c # current /\ dirty[c] => dirty'[c]
    BY <1>1, <1>4 DEF Undirty, Typed
  <2> QED
    BY <2>1, <2>2, CountsUnchanged, ReportOKAfterEnable
<1>5. ASSUME NEW d \in Connections, ScanConnection(d)
      PROVE  ReportOK'
  <2>1. /\ ipc = "scan" /\ UNCHANGED <<outbound, sessionOut, encoded, npc, notifying, ipc, current>>
    BY <1>5 DEF ScanConnection
  <2>2. \A c \in Connections : c # d /\ dirty[c] => dirty'[c]
    BY <1>1, <1>5 DEF ScanConnection, Typed
  <2>3. CASE dirty[d]
    <3>1. EnableWrite(d)
      BY <1>5, <2>3 DEF ScanConnection
    <3> QED
      BY <2>1, <2>2, <3>1, CountsUnchanged, ReportOKAfterEnable
  <2>4. CASE ~dirty[d]
    <3>1. UNCHANGED <<interest, closed>> /\ \A c \in Connections : dirty[c] => dirty'[c]
      BY <1>5, <2>2, <2>4 DEF ScanConnection
    <3>2. \A c \in Connections : Interested(c)' <=> Interested(c)
      BY <2>1, <3>1 DEF Interested
    <3>3. \A c : AwaitsMark(c) => AwaitsMark(c)'
      BY <2>1, AwaitingUnchanged
    <3> QED
      BY <2>1, <3>1, <3>2, <3>3, CountsUnchanged, AttentionKept DEF WriterInv
  <2> QED
    BY <2>3, <2>4
<1> QED
  BY <1>2, <1>3, <1>4, <1>5 DEF DrainDirty

LEMMA ReportOKAfterRead ==
  ASSUME WriterInv, HandleRead
  PROVE  ReportOK'
<1>1. Typed /\ IoTyped /\ ReportOK
  BY TypedIsWriterTypeOK DEF WriterInv
<1>2. current \in Connections /\ "io" \in Threads
  BY <1>1 DEF HandleRead, ReadAnswers, ReadBlocks, ReadCloses, FinishConnection, IoGoto, IoTyped,
     Threads
<1>3. CASE ReadAnswers /\ sessionOut[current] < OutboundCapacity
  <2>1. /\ npc["io"] = "idle" /\ StartNotifying("io", <<current>>)
        /\ sessionOut' = [sessionOut EXCEPT ![current] = @ + 1]
        /\ UNCHANGED <<outbound, encoded, interest, closed, dirty, ipc, current>>
    BY <1>3 DEF ReadAnswers, ioVars
  <2>2. PICK q \in Seq(Connections) : q = <<current>>
    <3>1. <<current>> \in Seq(Connections)
      BY <1>2
    <3> QED
      BY <3>1, Zenon
  <2>3. 1 \in DOMAIN q /\ q[1] = current
    BY <2>2
  <2>4. (\A c : AwaitsMark(c) => AwaitsMark(c)') /\ AwaitsMark(current)'
    BY <1>2, <2>1, <2>2, <2>3, StartKeepsAwaiting
  <2>5. ASSUME NEW c \in Connections, c # current
        PROVE  Unwritten(c)' = Unwritten(c)
    <3>1. sessionOut'[c] = sessionOut[c]
      BY <1>1, <2>1, <2>5 DEF Typed
    <3> QED
      BY <2>1, <3>1 DEF Unwritten, Waiting
  <2>6. \A c \in Connections : Interested(c)' <=> Interested(c)
    BY <2>1 DEF Interested
  <2> QED
    BY <1>1, <2>1, <2>4, <2>5, <2>6, AttentionKept
<1>4. CASE ReadAnswers /\ ~(sessionOut[current] < OutboundCapacity)
  BY <1>4, ReportOKAfterMove DEF ReadAnswers, ioVars, connVars
<1>5. CASE ReadBlocks
  BY <1>5, ReportOKAfterMove DEF ReadBlocks, FinishConnection, IoGoto, notifyVars
<1>6. CASE ReadCloses
  <2>1. /\ closed' = [closed EXCEPT ![current] = TRUE] /\ ipc' = "dispatch"
        /\ UNCHANGED <<outbound, sessionOut, encoded, interest, dirty, npc, notifying>>
    BY <1>6 DEF ReadCloses, FinishConnection, IoGoto, notifyVars
  <2>2. \A c \in Connections : closed[c] => closed'[c]
    BY <1>1, <2>1 DEF Typed
  <2>3. \A c \in Connections : Interested(c) => Interested(c)'
    BY <2>1 DEF Interested
  <2>4. \A c : AwaitsMark(c) => AwaitsMark(c)'
    BY <2>1, AwaitingUnchanged
  <2> QED
    BY <1>1, <2>1, <2>2, <2>3, <2>4, CountsUnchanged, AttentionKept
<1> QED
  BY <1>3, <1>4, <1>5, <1>6 DEF HandleRead

LEMMA ReportOKAfterWrite ==
  ASSUME WriterInv, HandleWrite
  PROVE  ReportOK'
<1>1. Typed /\ IoTyped /\ ReportOK
  BY TypedIsWriterTypeOK DEF WriterInv
<1>2. current \in Connections
  BY <1>1 DEF HandleWrite, PopOutbound, BatchReady, NothingToWrite, DisableWrite, SendBatch,
     SendBlocks, SendFails, IoGoto, IoTyped
<1>3. UNCHANGED <<dirty, npc, notifying>>
  BY DEF HandleWrite, PopOutbound, BatchReady, NothingToWrite, DisableWrite, SendBatch,
     SendBlocks, SendFails, notifyVars
<1>4. \A c \in Connections : AwaitsMark(c) => AwaitsMark(c)'
  BY <1>3, AwaitingUnchanged
<1>5. CASE PopOutbound
  <2>1. /\ encoded' = [encoded EXCEPT ![current] = @ + 1]
        /\ UNCHANGED <<interest, closed, ipc, current>>
        /\ \/ /\ sessionOut' = [sessionOut EXCEPT ![current] = @ - 1] /\ UNCHANGED outbound
           \/ /\ outbound' = [outbound EXCEPT ![current] = @ - 1] /\ UNCHANGED sessionOut
    BY <1>5 DEF PopOutbound, ioVars
  <2>2. ASSUME NEW c \in Connections
        PROVE  Unwritten(c)' = Unwritten(c)
    <3>1. outbound[c] \in Int /\ sessionOut[c] \in Int /\ encoded[c] \in Int
      BY <1>1 DEF Typed
    <3>2. CASE c = current
      <4>1. encoded'[c] = encoded[c] + 1
        BY <1>1, <2>1, <3>2 DEF Typed
      <4>2. sessionOut'[c] + outbound'[c] = sessionOut[c] + outbound[c] - 1
        BY <1>1, <2>1, <3>1, <3>2 DEF Typed
      <4>3. outbound'[c] \in Int /\ sessionOut'[c] \in Int
        BY <1>1, <2>1, <3>1, <3>2 DEF Typed
      <4> QED
        BY <3>1, <4>1, <4>2, <4>3 DEF Unwritten, Waiting
    <3>3. CASE c # current
      <4>1. encoded'[c] = encoded[c] /\ sessionOut'[c] = sessionOut[c] /\ outbound'[c] = outbound[c]
        BY <1>1, <2>1, <3>3 DEF Typed
      <4> QED
        BY <4>1 DEF Unwritten, Waiting
    <3> QED
      BY <3>2, <3>3
  <2>3. \A c \in Connections : Interested(c)' <=> Interested(c)
    BY <2>1 DEF Interested
  <2> QED
    BY <1>1, <1>3, <1>4, <2>1, <2>2, <2>3, AttentionKept
<1>6. CASE BatchReady
  BY <1>6, <1>3, ReportOKAfterMove DEF BatchReady, IoGoto
<1>7. CASE NothingToWrite
  <2>1. ~(Unwritten(current) > 0) /\ current' = current
    BY <1>7 DEF NothingToWrite, Unwritten
  <2>2. PICK k : k = current
    OBVIOUS
  <2>3. ~(Unwritten(k) > 0) /\ current' = k
    BY <2>1, <2>2
  <2> QED
    BY <1>3, <1>7, <2>3, ReportOKAfterMove DEF NothingToWrite
<1>8. CASE DisableWrite
  <2>1. /\ ipc = "disable" /\ ipc' = "dispatch" /\ UNCHANGED <<outbound, sessionOut, encoded>>
        /\ \/ interest' = [interest EXCEPT ![current] = FALSE] /\ UNCHANGED closed
           \/ closed' = [closed EXCEPT ![current] = TRUE] /\ UNCHANGED interest
    BY <1>8 DEF DisableWrite, IoGoto
  <2>2. \A c \in Connections : closed[c] => closed'[c]
    BY <1>1, <2>1 DEF Typed
  <2>3. \A c \in Connections : c # current /\ interest[c] => interest'[c]
    BY <1>1, <2>1 DEF Typed
  <2>4. \A c \in Connections : Interested(c) => Interested(c)'
    BY <2>1, <2>3 DEF Interested
  <2> QED
    BY <1>1, <1>3, <1>4, <2>1, <2>2, <2>4, CountsUnchanged, AttentionKept
<1>9. CASE SendBatch
  <2>1. /\ ipc' = "fill" /\ encoded' = [encoded EXCEPT ![current] = 0]
        /\ UNCHANGED <<outbound, sessionOut, interest, closed>>
    BY <1>9 DEF SendBatch, IoGoto
  <2>2. ASSUME NEW c \in Connections
        PROVE  Unwritten(c)' > 0 => Unwritten(c) > 0
    <3>1. outbound[c] \in Nat /\ sessionOut[c] \in Nat /\ encoded[c] \in Nat
      BY <1>1 DEF Typed
    <3>2. encoded'[c] = encoded[c] \/ encoded'[c] = 0
      BY <1>1, <2>1 DEF Typed
    <3> QED
      BY <2>1, <3>1, <3>2 DEF Unwritten, Waiting
  <2>3. \A c \in Connections : Interested(c) => Interested(c)'
    BY <2>1 DEF Interested
  <2> QED
    BY <1>1, <1>3, <1>4, <2>1, <2>2, <2>3, AttentionKept
<1>10. CASE SendBlocks
  <2>1. /\ ipc' = "dispatch" /\ EnableWrite(current) /\ UNCHANGED <<outbound, sessionOut>>
        /\ \/ \E n \in 1..(encoded[current] - 1) : encoded' = [encoded EXCEPT ![current] = n]
           \/ UNCHANGED encoded
    BY <1>10 DEF SendBlocks, IoGoto
  <2>2. ASSUME NEW c \in Connections
        PROVE  Unwritten(c)' > 0 => Unwritten(c) > 0
    <3>1. outbound[c] \in Nat /\ sessionOut[c] \in Nat /\ encoded[c] \in Nat
      BY <1>1 DEF Typed
    <3>2. encoded'[c] = encoded[c] \/ encoded[c] > 0
      <4>1. ASSUME NEW n \in 1..(encoded[current] - 1), encoded' = [encoded EXCEPT ![current] = n]
            PROVE  encoded'[c] = encoded[c] \/ encoded[c] > 0
        <5>1. CASE c = current
          BY <1>1, <3>1, <4>1, <5>1 DEF Typed
        <5>2. CASE c # current
          BY <1>1, <4>1, <5>2 DEF Typed
        <5> QED
          BY <5>1, <5>2
      <4> QED
        BY <2>1, <4>1
    <3> QED
      BY <2>1, <3>1, <3>2 DEF Unwritten, Waiting
  <2> QED
    BY <1>2, <1>3, <2>1, <2>2, ReportOKAfterEnable
<1>11. CASE SendFails
  <2>1. /\ closed' = [closed EXCEPT ![current] = TRUE] /\ ipc' = "dispatch"
        /\ UNCHANGED <<outbound, sessionOut, encoded, interest>>
    BY <1>11 DEF SendFails, IoGoto
  <2>2. \A c \in Connections : closed[c] => closed'[c]
    BY <1>1, <2>1 DEF Typed
  <2>3. \A c \in Connections : Interested(c) => Interested(c)'
    BY <2>1 DEF Interested
  <2> QED
    BY <1>1, <1>3, <1>4, <2>1, <2>2, <2>3, CountsUnchanged, AttentionKept
<1> QED
  BY <1>5, <1>6, <1>7, <1>8, <1>9, <1>10, <1>11 DEF HandleWrite

LEMMA ReportOKStep ==
  ASSUME WriterInv, [WriterNext]_writerVars
  PROVE  ReportOK'
<1>1. CASE PollWait \/ PollAgain
  BY <1>1, ReportOKAfterMove DEF PollWait, PollAgain, IoGoto, notifyVars
<1>2. ASSUME NEW e, StartDrain(e) \/ SkipClosed(e) \/ StartRead(e) \/ StartWrite(e)
      PROVE  ReportOK'
  <2>1. PICK to \in {"drain", "dispatch", "read", "send", "fill"} : \E c : Dispatch(e, to, c)
    BY <1>2 DEF StartDrain, SkipClosed, StartRead, StartWrite
  <2> QED
    BY <2>1, ReportOKAfterMove DEF Dispatch, IoGoto, notifyVars
<1>3. CASE RequestStop \/ Asleep \/ UNCHANGED writerVars \/ \E c \in Connections : Client(c)
  <2>1. UNCHANGED <<connVars, dirty, npc, notifying, ipc, current>>
    BY <1>3 DEF RequestStop, Asleep, writerVars, Client, ClientSends, ClientReads, ClientHangsUp,
       ioVars, notifyVars
  <2> QED
    BY <2>1, ReportOKAfterMove
<1> QED
  BY <1>1, <1>2, <1>3, ReportOKAfterNotify, ReportOKAfterRoute, ReportOKAfterDrain,
     ReportOKAfterRead, ReportOKAfterWrite
  DEF WriterNext, IoLoop
-----------------------------------------------------------------------------
(***************************************************************************)
(* WriterInv is inductive, and what it says.                               *)
(***************************************************************************)
LEMMA WriterInitOK == WriterInit => WriterInv
<1> SUFFICES ASSUME WriterInit PROVE WriterInv
  OBVIOUS
<1>1. Init
  BY DEF WriterInit
<1>2. RingInv
  BY <1>1, RingInit
<1>3. Typed /\ IoTyped /\ EnvTyped
  <2>1. 0 \in 0..OutboundCapacity /\ 0 \in 0..WriterBatch /\ 0 \in 0..MaxEvents /\ 0 \in 0..MaxFrames
    BY BoundsAssumption
  <2>2. << >> \in Seq(Connections)
    OBVIOUS
  <2>3. Typed
    BY <2>1, <2>2 DEF WriterInit, Typed
  <2>4. IoTyped
    BY DEF WriterInit, IoTyped, Steps
  <2>5. EnvTyped
    BY <2>1 DEF WriterInit, EnvTyped
  <2> QED
    BY <2>3, <2>4, <2>5
<1>4. WriterTypeOK
  BY <1>2, <1>3, TypedIsWriterTypeOK DEF RingInv
<1>5. \A t \in Threads : npc[t] = "idle" /\ notifying[t] = << >> /\ pc[t] = "idle"
  BY <1>1, ThreadsAreProducers DEF WriterInit, Init
<1>6. NotifyOK /\ LoopOK
  BY <1>1, <1>5 DEF WriterInit, Init, NotifyOK, LoopOK
<1>7. \A c \in Connections : ~dirty[c] /\ ~(Unwritten(c) > 0)
  BY DEF WriterInit, Unwritten, Waiting
<1>8. DirtyOK /\ ReportOK
  BY <1>7 DEF DirtyOK, ReportOK
<1>9. RousedOK
  BY <1>1 DEF WriterInit, Init, RousedOK
<1> QED
  BY <1>2, <1>4, <1>6, <1>8, <1>9 DEF WriterInv

LEMMA WriterStep ==
  ASSUME WriterInv, LonePusher, LonePusher', [WriterNext]_writerVars
  PROVE  WriterInv'
<1>1. RingInv' /\ TypeOK'
  <2>1. [RingNext]_vars
    BY WriterStepsTheRing DEF WriterInv
  <2> QED
    BY <2>1, RingStep DEF WriterInv, RingInv
<1>2. WriterTypeOK'
  BY <1>1, WriterTypeStep
<1>3. Typed'
  BY <1>2 DEF WriterTypeOK, Typed
<1> QED
  BY <1>1, <1>2, <1>3, NotifyOKStep, LoopOKStep, DirtyOKStep, ReportOKStep, RousedOKStep
  DEF WriterInv

\* As long as the calls of dirty_.try_push do not overlap, whichever threads
\* make them, WriterInv holds in every state the gateway can reach.
THEOREM WriterInvariant == WriterSpec /\ []LonePusher => []WriterInv
<1>1. WriterInv /\ LonePusher /\ LonePusher' /\ [WriterNext]_writerVars => WriterInv'
  BY WriterStep
<1> QED
  BY WriterInitOK, <1>1, PTL DEF WriterSpec

LEMMA AttendedMeansNotStranded == WriterInv => NoStrandedReport
<1> SUFFICES ASSUME WriterInv, ipc = "wait", ~wakeup, \A t \in Threads : npc[t] = "idle",
                    NEW c \in Connections, Unwritten(c) > 0, ~closed[c], ~interest[c]
             PROVE  FALSE
  BY DEF NoStrandedReport
<1>1. \A t \in Threads : notifying[t] = << >>
  BY DEF WriterInv, NotifyOK
<1>2. ready = {} /\ scanning = {}
  BY DEF WriterInv, LoopOK
<1>3. ~Roused /\ head = tail /\ ~overflow
  BY <1>2 DEF WriterInv, RousedOK, Roused
<1>4. ~AwaitsMark(c)
  BY <1>1 DEF AwaitsMark
<1>5. dirty[c]
  BY <1>4 DEF WriterInv, ReportOK, Interested
<1>6. ~Listed(c)
  BY <1>3 DEF Listed, Pending, WriterInv, RingInv, TypeOK
<1> QED
  BY <1>2, <1>3, <1>5, <1>6 DEF WriterInv, DirtyOK, OnRecord, Carries

\* A report can only be stranded by two threads inside dirty_.try_push at
\* once: while pushes do not overlap, the I/O thread never goes to sleep on an
\* open connection with something to write and no write interest.  The code
\* that mark_dirty runs on two threads does not see to that.
THEOREM StrandedOnlyByOverlap == WriterSpec /\ []LonePusher => []NoStrandedReport
  BY WriterInvariant, AttendedMeansNotStranded, PTL
=============================================================================
