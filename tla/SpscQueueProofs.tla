-------------------------- MODULE SpscQueueProofs --------------------------
(***************************************************************************)
(* Proofs about the SPSC ring, for any number of pushes and any capacity,  *)
(* as long as calls of try_push do not overlap: with SingleProducer they   *)
(* cannot; a ring that several threads push to needs LonePusher.           *)
(*                                                                         *)
(* The argument: the producer alone stores head_, so the value it loaded   *)
(* stays current; tail_ only grows, so the room it saw stays there.  The   *)
(* slot at head is therefore free from the check to the store of head_,    *)
(* and is never the slot the consumer is in.                               *)
(***************************************************************************)
EXTENDS SpscQueue, CommonLemmas

-----------------------------------------------------------------------------
\* No two threads are inside try_push.
LonePusher ==
  \A p, q \in Producers : pc[p] # "idle" /\ pc[q] # "idle" => p = q

\* A step of any of the threads, whatever bounds the number of pushes.
RingNext ==
  \/ \E p \in Producers : (\E item \in Items : PushBegin(p, item)) \/ PushStep(p)
  \/ PopStep

LEMMA NextIsRingNext == [Next]_vars => [RingNext]_vars
  BY DEF Next, RingNext, PopEmpty
-----------------------------------------------------------------------------
(***************************************************************************)
(* The inductive invariant.                                                *)
(***************************************************************************)
\* Past the check for room; past the construction.
Writing(p) == pc[p] \in {"construct", "raiseMark", "publish"}
Built(p) == pc[p] \in {"raiseMark", "publish"}

\* The indices that are published and not yet popped.
Pending == tail..(head - 1)

\* The histories agree with the counters.
CountersOK ==
  /\ tail <= head /\ head - tail <= Capacity
  /\ Len(log) = head
  /\ Len(received) = IF cpc = "advance" THEN tail + 1 ELSE tail
  /\ \A j \in 1..Len(received) : received[j] = log[j]
  /\ cpc # "idle" => tail < head

\* What the producer remembers is current enough.
ProducerOK ==
  \A p \in Producers :
    /\ pc[p] # "idle" => seenHead[p] = head /\ value[p] \in Items
    /\ Writing(p) => seenTail[p] <= tail /\ head - seenTail[p] < Capacity

\* A pending slot holds its item until the consumer has moved it out.
PendingOK ==
  \A i \in Pending :
    storage[SlotOf(i)] =
      IF cpc = "advance" /\ i = tail THEN Destroyed ELSE log[i + 1]

\* A live object is pending or about to be.
StorageOK ==
  \A s \in Slots : storage[s] # Destroyed =>
    \/ \E i \in Pending : SlotOf(i) = s
    \/ \E p \in Producers : Built(p) /\ SlotOf(head) = s

\* The object constructed and not yet published is the argument.
BuiltOK ==
  \A p \in Producers : Built(p) => storage[SlotOf(head)] = value[p]

\* The mark is raised before the occupancy is.
MarkOK ==
  /\ head - tail <= highWater /\ highWater <= Capacity
  /\ \A p \in Producers : pc[p] = "publish" => head + 1 - tail <= highWater

RingInv ==
  /\ TypeOK /\ CountersOK /\ ProducerOK
  /\ PendingOK /\ StorageOK /\ BuiltOK /\ MarkOK
-----------------------------------------------------------------------------
(***************************************************************************)
(* Slots.                                                                  *)
(***************************************************************************)
LEMMA SlotsDiffer ==
  ASSUME NEW a \in Nat, NEW b \in Nat, a # b,
         a - b < Capacity, b - a < Capacity
  PROVE  SlotOf(a) # SlotOf(b)
  BY CapacityAssumption, CloseIndicesDiffer DEF SlotOf

LEMMA SlotInRange ==
  ASSUME NEW a \in Nat
  PROVE  SlotOf(a) \in Slots
  BY CapacityAssumption, ModBounds DEF SlotOf, Slots

\* The consumer's slot holds the oldest item, and no other index shares it.
LEMMA OldestItem ==
  ASSUME RingInv, cpc = "take"
  PROVE  /\ tail \in Pending /\ tail + 1 \in 1..Len(log)
         /\ storage[SlotOf(tail)] = log[tail + 1]
         /\ storage[SlotOf(tail)] \in Items
<1> USE DEF RingInv, TypeOK
<1>1. tail \in Pending /\ tail + 1 \in 1..Len(log)
  BY DEF CountersOK, Pending
<1>2. storage[SlotOf(tail)] = log[tail + 1]
  BY <1>1 DEF PendingOK
<1> QED
  BY <1>1, <1>2

LEMMA PendingSlotsDiffer ==
  ASSUME RingInv, NEW i \in Pending, NEW k \in Pending, i # k
  PROVE  SlotOf(i) # SlotOf(k)
<1>1. i \in Nat /\ k \in Nat /\ i - k < Capacity /\ k - i < Capacity
  BY CapacityAssumption DEF RingInv, TypeOK, CountersOK, Pending
<1> QED
  BY <1>1, SlotsDiffer

\* A producer past its check has room, in a slot no pending index has.
LEMMA RoomAtHead ==
  ASSUME RingInv, NEW p \in Producers, Writing(p)
  PROVE  /\ seenHead[p] = head /\ head - tail < Capacity
         /\ value[p] \in Items
         /\ \A i \in Pending : SlotOf(i) # SlotOf(head)
<1> USE DEF RingInv, TypeOK
<1>1. seenHead[p] = head /\ value[p] \in Items
  BY DEF ProducerOK, Writing
<1>2. head - tail < Capacity
  BY CapacityAssumption DEF ProducerOK
<1>3. ASSUME NEW i \in Pending
      PROVE  SlotOf(i) # SlotOf(head)
  <2>1. i \in Nat /\ i # head /\ i - head < Capacity /\ head - i < Capacity
    BY <1>2, CapacityAssumption DEF Pending
  <2> QED
    BY <2>1, SlotsDiffer
<1> QED
  BY <1>1, <1>2, <1>3
-----------------------------------------------------------------------------
(***************************************************************************)
(* RingInv is inductive.                                                   *)
(***************************************************************************)
LEMMA RingInit == Init => RingInv
<1> SUFFICES ASSUME Init PROVE RingInv
  OBVIOUS
<1>1. TypeOK
  BY CapacityAssumption DEF Init, TypeOK, Slots
<1>2. CountersOK /\ MarkOK
  BY CapacityAssumption DEF Init, CountersOK, MarkOK
<1>3. ProducerOK /\ BuiltOK
  BY DEF Init, ProducerOK, BuiltOK, Writing, Built
<1>4. PendingOK
  <2>1. Pending = {}
    BY DEF Init, Pending
  <2> QED
    BY <2>1 DEF PendingOK
<1>5. StorageOK
  BY DEF Init, StorageOK
<1> QED
  BY <1>1, <1>2, <1>3, <1>4, <1>5 DEF RingInv

LEMMA TypeStep ==
  ASSUME RingInv, [RingNext]_vars
  PROVE  TypeOK'
<1> TypeOK
  BY DEF RingInv
<1> USE DEF TypeOK, Goto, ConsumerGoto, ringVars, producerVars
<1>1. ASSUME NEW p \in Producers, NEW item \in Items, PushBegin(p, item)
      PROVE  TypeOK'
  BY <1>1 DEF PushBegin
<1>2. ASSUME NEW p \in Producers, GiveUp(p) \/ HasRoom(p)
      PROVE  TypeOK'
  BY <1>2 DEF GiveUp, HasRoom
<1>3. ASSUME NEW p \in Producers, Construct(p)
      PROVE  TypeOK'
  BY <1>3 DEF Construct
<1>4. ASSUME NEW p \in Producers, RaiseMark(p)
      PROVE  TypeOK'
  <2>1. NewOccupancy(p) \in Int
    BY ModulusAssumption DEF NewOccupancy, Minus
  <2>2. highWater' \in Nat
    BY <1>4, <2>1 DEF RaiseMark
  <2> QED
    BY <1>4, <2>2 DEF RaiseMark
<1>5. ASSUME NEW p \in Producers, Publish(p)
      PROVE  TypeOK'
  <2>1. value[p] \in Items
    BY <1>5 DEF Publish, RingInv, ProducerOK
  <2>2. log' \in Seq(Items) /\ head' \in Nat
    BY <1>5, <2>1 DEF Publish
  <2> QED
    BY <1>5, <2>2 DEF Publish
<1>6. CASE PopBegin
  BY <1>6 DEF PopBegin
<1>7. CASE Take
  <2>1. storage[SlotOf(tail)] \in Items
    BY <1>7, OldestItem DEF Take
  <2>2. received' \in Seq(Items)
    BY <1>7, <2>1 DEF Take
  <2>3. storage' \in [Slots -> Items \cup {Destroyed}]
    BY <1>7 DEF Take
  <2> QED
    BY <1>7, <2>2, <2>3 DEF Take
<1>8. CASE AdvanceTail
  BY <1>8 DEF AdvanceTail, TailAfterPop
<1>9. CASE UNCHANGED vars
  BY <1>9 DEF vars
<1> QED
  BY <1>1, <1>2, <1>3, <1>4, <1>5, <1>6, <1>7, <1>8, <1>9
  DEF RingNext, PushStep, PopStep

\* While a producer is inside try_push, or enters it, the others are not.
LEMMA OthersIdle ==
  ASSUME LonePusher, LonePusher', TypeOK, NEW p \in Producers, NEW from, NEW to,
         Goto(p, from, to), from # "idle" \/ to # "idle"
  PROVE  \A q \in Producers : q # p => pc[q] = "idle" /\ pc'[q] = "idle"
<1>1. pc[p] = from /\ pc'[p] = to /\ \A q \in Producers : q # p => pc'[q] = pc[q]
  BY DEF Goto, TypeOK
<1> QED
  BY <1>1 DEF LonePusher

\* A step of the producer that touches neither the ring nor the histories
\* and leaves it before the construction.
LEMMA RingLooking ==
  ASSUME RingInv, TypeOK', NEW p \in Producers,
         \A q \in Producers : q # p => pc[q] = "idle" /\ pc'[q] = "idle",
         UNCHANGED <<head, tail, storage, highWater, cpc, log, received>>,
         ~Built(p), ~Built(p)',
         pc'[p] # "idle" => seenHead'[p] = head /\ value'[p] \in Items,
         Writing(p)' => seenTail'[p] <= tail /\ head - seenTail'[p] < Capacity
  PROVE  RingInv'
<1> USE DEF RingInv
<1>2. CountersOK'
  BY DEF CountersOK
<1>3. ProducerOK'
  BY DEF ProducerOK, Writing
<1>4. PendingOK'
  BY DEF PendingOK, Pending
<1>5. StorageOK'
  BY DEF StorageOK, Pending, Built
<1>6. BuiltOK'
  BY DEF BuiltOK, Built
<1>7. MarkOK'
  BY DEF MarkOK, Built
<1> QED
  BY <1>2, <1>3, <1>4, <1>5, <1>6, <1>7

LEMMA RingPushBegin ==
  ASSUME LonePusher, LonePusher', RingInv, TypeOK', NEW p \in Producers,
         NEW item \in Items, PushBegin(p, item)
  PROVE  RingInv'
<1>1. /\ pc[p] = "idle" /\ pc'[p] = "loadTail"
      /\ seenHead'[p] = head /\ value'[p] = item
  BY DEF PushBegin, Goto, RingInv, TypeOK
<1>2. \A q \in Producers : q # p => pc[q] = "idle" /\ pc'[q] = "idle"
  BY OthersIdle DEF PushBegin, RingInv
<1> QED
  BY <1>1, <1>2, RingLooking DEF PushBegin, ringVars, Built, Writing

LEMMA RingCheck ==
  ASSUME LonePusher, LonePusher', RingInv, TypeOK', NEW p \in Producers,
         GiveUp(p) \/ HasRoom(p)
  PROVE  RingInv'
<1> USE DEF RingInv, TypeOK
<1>1. pc[p] = "loadTail" /\ seenHead[p] = head /\ value[p] \in Items
  BY DEF GiveUp, HasRoom, Goto, ProducerOK
<1>4. \A q \in Producers : q # p => pc[q] = "idle" /\ pc'[q] = "idle"
  BY OthersIdle DEF GiveUp, HasRoom
<1>2. CASE GiveUp(p)
  <2>1. pc'[p] = "idle"
    BY <1>2 DEF GiveUp, Goto
  <2> QED
    BY <1>1, <1>2, <1>4, <2>1, RingLooking DEF GiveUp, ringVars, Built, Writing
<1>3. CASE HasRoom(p)
  <2>1. pc'[p] = "construct" /\ seenTail'[p] = tail
    BY <1>3 DEF HasRoom, Goto
  <2>2. head - tail < Capacity
    BY <1>1, <1>3, CapacityAssumption
    DEF HasRoom, LooksFull, Minus, CountersOK
  <2>3. seenHead'[p] = head /\ value'[p] \in Items
    BY <1>1, <1>3 DEF HasRoom
  <2>4. seenTail'[p] <= tail /\ head - seenTail'[p] < Capacity
    BY <2>1, <2>2
  <2>5. UNCHANGED <<head, tail, storage, highWater, cpc, log, received>>
    BY <1>3 DEF HasRoom, ringVars
  <2>6. ~Built(p) /\ ~Built(p)'
    BY <1>1, <2>1 DEF Built
  <2> HIDE DEF RingInv, TypeOK
  <2> QED
    BY <1>4, <2>3, <2>4, <2>5, <2>6, RingLooking
<1> QED
  BY <1>2, <1>3

LEMMA RingConstruct ==
  ASSUME LonePusher, LonePusher', RingInv, TypeOK', NEW p \in Producers, Construct(p)
  PROVE  RingInv'
<1> USE DEF RingInv, TypeOK
<1> DEFINE mine == SlotOf(head)
<1>1. \A q \in Producers : q # p => pc[q] = "idle" /\ pc'[q] = "idle"
  BY OthersIdle DEF Construct
<1>2. pc[p] = "construct" /\ pc'[p] = "raiseMark" /\ Writing(p)
  BY DEF Construct, Goto, Writing
<1>3. /\ seenHead[p] = head /\ mine \in Slots
      /\ \A i \in Pending : SlotOf(i) # mine
  BY <1>2, RoomAtHead, SlotInRange
<1>4. /\ storage' = [storage EXCEPT ![mine] = value[p]]
      /\ UNCHANGED <<head, tail, highWater, value, seenHead, seenTail, cpc,
                     log, received>>
  BY <1>3 DEF Construct
<1>5. storage'[mine] = value[p] /\ \A s \in Slots \ {mine} : storage'[s] = storage[s]
  BY <1>3, <1>4
<1>6. CountersOK'
  BY <1>4 DEF CountersOK
<1>7. ProducerOK'
  BY <1>1, <1>2, <1>4 DEF ProducerOK, Writing
<1>8. PendingOK'
  <2>1. \A i \in Pending : storage'[SlotOf(i)] = storage[SlotOf(i)]
    <3>1. \A i \in Pending : SlotOf(i) \in Slots
      BY SlotInRange DEF Pending
    <3> QED
      BY <1>3, <1>5, <3>1
  <2> QED
    BY <1>4, <2>1 DEF PendingOK, Pending
<1>9. StorageOK'
  <2>1. ASSUME NEW s \in Slots \ {mine}, storage[s] # Destroyed
        PROVE  \E i \in Pending : SlotOf(i) = s
    BY <1>1, <1>2, <2>1 DEF StorageOK, Built
  <2>2. Built(p)'
    BY <1>2 DEF Built
  <2>3. Pending' = Pending /\ head' = head
    BY <1>4 DEF Pending
  <2> QED
    BY <1>5, <2>1, <2>2, <2>3 DEF StorageOK
<1>10. BuiltOK'
  BY <1>1, <1>4, <1>5 DEF BuiltOK, Built
<1>11. MarkOK'
  BY <1>1, <1>2, <1>4 DEF MarkOK
<1> QED
  BY <1>6, <1>7, <1>8, <1>9, <1>10, <1>11

LEMMA RingRaiseMark ==
  ASSUME LonePusher, LonePusher', RingInv, TypeOK', NEW p \in Producers, RaiseMark(p)
  PROVE  RingInv'
<1> USE DEF RingInv, TypeOK
<1>1. \A q \in Producers : q # p => pc[q] = "idle" /\ pc'[q] = "idle"
  BY OthersIdle DEF RaiseMark
<1>2. /\ pc[p] = "raiseMark" /\ pc'[p] = "publish" /\ Writing(p)
      /\ UNCHANGED <<head, tail, storage, value, seenHead, seenTail, cpc, log,
                     received>>
  BY DEF RaiseMark, Goto, Writing
<1>3. /\ seenHead[p] = head /\ seenTail[p] <= tail
      /\ head - seenTail[p] < Capacity /\ tail <= head
  BY <1>2 DEF ProducerOK, CountersOK
<1> DEFINE t == seenTail[p]
<1>0. head \in Nat /\ tail \in Nat /\ t \in Nat
  OBVIOUS
<1>4. NewOccupancy(p) = head + 1 - t
  <2>1. NewOccupancy(p) = Minus(head + 1, t)
    BY <1>3 DEF NewOccupancy
  <2>2. head + 1 >= t
    BY <1>3, <1>0
  <2> HIDE DEF t, RingInv, TypeOK
  <2> QED
    BY <1>0, <2>1, <2>2 DEF Minus
<1>5. /\ NewOccupancy(p) \in Int /\ NewOccupancy(p) <= Capacity
      /\ head + 1 - tail <= NewOccupancy(p)
  <2> HIDE DEF t, RingInv, TypeOK
  <2>1. head - t < Capacity /\ t <= tail /\ t \in Nat
    BY <1>3, <1>0 DEF t
  <2> QED
    BY <1>0, <1>4, <2>1, CapacityAssumption
<1>6. highWater' = IF NewOccupancy(p) > highWater THEN NewOccupancy(p)
                                                  ELSE highWater
  BY DEF RaiseMark
<1>7. /\ head + 1 - tail <= highWater' /\ highWater' <= Capacity
      /\ head - tail <= highWater'
  BY SMTT(40), <1>5, <1>6, CapacityAssumption DEF MarkOK
<1>8. CountersOK' /\ PendingOK'
  BY <1>2 DEF CountersOK, PendingOK, Pending
<1>9. ProducerOK'
  BY <1>1, <1>2 DEF ProducerOK, Writing
<1>10. StorageOK' /\ BuiltOK'
  <2>1. Built(p) /\ Built(p)'
    BY <1>2 DEF Built
  <2>2. Pending' = Pending
    BY <1>2 DEF Pending
  <2> QED
    BY <1>1, <1>2, <2>1, <2>2 DEF StorageOK, BuiltOK, Built
<1>11. MarkOK'
  BY <1>2, <1>7 DEF MarkOK
<1> QED
  BY <1>8, <1>9, <1>10, <1>11

LEMMA RingPublish ==
  ASSUME LonePusher, LonePusher', RingInv, TypeOK', NEW p \in Producers, Publish(p)
  PROVE  RingInv'
<1> USE DEF RingInv, TypeOK
<1>1. \A q \in Producers : q # p => pc[q] = "idle" /\ pc'[q] = "idle"
  BY OthersIdle DEF Publish
<1>2. /\ pc[p] = "publish" /\ pc'[p] = "idle" /\ Writing(p) /\ Built(p)
      /\ log' = Append(log, value[p])
      /\ UNCHANGED <<tail, storage, highWater, value, seenHead, seenTail, cpc,
                     received>>
  BY DEF Publish, Goto, Writing, Built
<1>3. value[p] \in Items /\ head - tail < Capacity /\ head' = head + 1
  BY <1>2, RoomAtHead DEF Publish
<1>4. /\ Len(log) = head /\ Len(log') = head + 1
      /\ log'[head + 1] = value[p]
      /\ \A j \in 1..head : log'[j] = log[j]
  <2> DEFINE v == value[p]
  <2>1. /\ v \in Items /\ log \in Seq(Items)
        /\ log' = Append(log, v) /\ Len(log) = head
    BY <1>2, <1>3 DEF CountersOK
  <2> HIDE DEF v, RingInv, TypeOK
  <2>2. /\ Len(log') = Len(log) + 1 /\ log'[Len(log) + 1] = v
        /\ \A j \in 1..Len(log) : log'[j] = log[j]
    BY <2>1
  <2> QED
    BY <2>1, <2>2 DEF v
<1>5. CountersOK'
  <2>1. Len(received) \in 0..head
    <3>1. tail <= head /\ (cpc # "idle" => tail < head)
      BY DEF CountersOK
    <3>2. Len(received) = tail \/ (Len(received) = tail + 1 /\ cpc # "idle")
      BY DEF CountersOK
    <3> QED
      BY <3>1, <3>2
  <2>2. \A j \in 1..Len(received) : received[j] = log'[j]
    BY SMTT(40), <1>4, <2>1 DEF CountersOK
  <2>3. tail <= head + 1 /\ head + 1 - tail <= Capacity
    BY <1>3, CapacityAssumption DEF CountersOK
  <2>4. cpc # "idle" => tail < head + 1
    BY DEF CountersOK
  <2> QED
    BY <1>2, <1>3, <1>4, <2>2, <2>3, <2>4 DEF CountersOK
<1>6. ProducerOK' /\ BuiltOK'
  BY <1>1, <1>2 DEF ProducerOK, BuiltOK, Writing, Built
<1>7. \A i \in Pending' : i \in Pending \/ i = head
  BY <1>2, <1>3 DEF Pending
<1>8. PendingOK'
  <2>1. ASSUME NEW i \in Pending
        PROVE  log'[i + 1] = log[i + 1]
    <3>1. i + 1 \in 1..head
      BY BelowHead DEF Pending
    <3> QED
      BY <1>4, <3>1
  <2>2. storage[SlotOf(head)] = log'[head + 1]
    BY <1>2, <1>4 DEF BuiltOK
  <2>3. cpc = "advance" => head # tail
    BY DEF CountersOK
  <2> QED
    BY <1>2, <1>7, <2>1, <2>2, <2>3 DEF PendingOK
<1>9. StorageOK'
  <2>1. head \in Pending' /\ \A i \in Pending : i \in Pending'
    BY <1>2, <1>3 DEF Pending, CountersOK
  <2> QED
    BY <1>2, <2>1 DEF StorageOK
<1>10. MarkOK'
  BY <1>1, <1>2, <1>3 DEF MarkOK
<1> QED
  BY <1>5, <1>6, <1>8, <1>9, <1>10

LEMMA RingPopBegin ==
  ASSUME RingInv, TypeOK', PopBegin
  PROVE  RingInv'
<1> USE DEF RingInv, TypeOK
<1>1. /\ cpc = "idle" /\ cpc' = "take" /\ head # tail
      /\ UNCHANGED <<head, tail, storage, highWater, pc, value, seenHead,
                     seenTail, log, received>>
  BY DEF PopBegin, ConsumerGoto, IsEmpty, ringVars, producerVars
<1>2. CountersOK'
  BY <1>1 DEF CountersOK
<1>3. ProducerOK' /\ MarkOK' /\ BuiltOK'
  BY <1>1 DEF ProducerOK, MarkOK, BuiltOK, Writing, Built
<1>4. PendingOK' /\ StorageOK'
  BY <1>1 DEF PendingOK, StorageOK, Pending, Built
<1> QED
  BY <1>2, <1>3, <1>4

LEMMA RingTake ==
  ASSUME RingInv, TypeOK', Take
  PROVE  RingInv'
<1> USE DEF RingInv, TypeOK
<1> DEFINE mine == SlotOf(tail)
<1>1. /\ cpc = "take" /\ cpc' = "advance"
      /\ received' = Append(received, storage[mine])
      /\ storage' = [storage EXCEPT ![mine] = Destroyed]
      /\ UNCHANGED <<head, tail, highWater, pc, value, seenHead, seenTail, log>>
  BY DEF Take, ConsumerGoto, producerVars
<1>2. /\ tail \in Pending /\ mine \in Slots
      /\ storage[mine] = log[tail + 1] /\ storage[mine] \in Items
  BY <1>1, OldestItem, SlotInRange
<1>3. /\ storage'[mine] = Destroyed
      /\ \A s \in Slots \ {mine} : storage'[s] = storage[s]
  BY <1>1, <1>2
<1>4. Pending' = Pending
  BY <1>1 DEF Pending
<1>5. CountersOK'
  <2>1. Len(received) = tail /\ \A j \in 1..tail : received[j] = log[j]
    BY <1>1 DEF CountersOK
  <2>2. /\ Len(received') = tail + 1
        /\ received'[tail + 1] = storage[mine]
        /\ \A j \in 1..tail : received'[j] = received[j]
    <3> HIDE DEF mine
    <3> QED
      BY <1>1, <1>2, <2>1
  <2>3. \A j \in 1..(tail + 1) : j \in 1..tail \/ j = tail + 1
    OBVIOUS
  <2>4. \A j \in 1..(tail + 1) : received'[j] = log[j]
    BY <1>2, <2>1, <2>2, <2>3
  <2>5. tail < head
    BY <1>1 DEF CountersOK
  <2> QED
    BY <1>1, <2>2, <2>4, <2>5 DEF CountersOK
<1>6. ProducerOK' /\ MarkOK'
  BY <1>1 DEF ProducerOK, MarkOK, Writing
<1>7. PendingOK'
  <2>1. ASSUME NEW i \in Pending, i # tail
        PROVE  storage'[SlotOf(i)] = log[i + 1]
    <3>1. SlotOf(i) # mine
      BY <1>2, <2>1, PendingSlotsDiffer
    <3>2. SlotOf(i) \in Slots
      BY SlotInRange DEF Pending
    <3> QED
      BY <1>3, <2>1, <3>1, <3>2 DEF PendingOK
  <2> QED
    BY <1>1, <1>3, <1>4, <2>1 DEF PendingOK
<1>8. StorageOK'
  BY <1>1, <1>3, <1>4 DEF StorageOK, Built
<1>9. BuiltOK'
  <2>1. ASSUME NEW p \in Producers, Built(p)
        PROVE  storage'[SlotOf(head)] = value[p]
    <3>1. SlotOf(head) # mine
      BY <1>2, <2>1, RoomAtHead DEF Writing, Built
    <3> QED
      BY <1>3, <2>1, <3>1, SlotInRange DEF BuiltOK
  <2> QED
    BY <1>1, <2>1 DEF BuiltOK, Built
<1> QED
  BY <1>5, <1>6, <1>7, <1>8, <1>9

LEMMA RingAdvanceTail ==
  ASSUME RingInv, TypeOK', AdvanceTail
  PROVE  RingInv'
<1> USE DEF RingInv, TypeOK
<1>1. /\ cpc = "advance" /\ cpc' = "idle" /\ tail' = tail + 1
      /\ UNCHANGED <<head, storage, highWater, pc, value, seenHead, seenTail,
                     log, received>>
  BY DEF AdvanceTail, ConsumerGoto, TailAfterPop, producerVars
<1>2. tail < head /\ tail \in Pending
  BY <1>1 DEF CountersOK, Pending
<1>3. /\ \A i \in Pending : i # tail => i \in Pending'
      /\ \A i \in Pending' : i \in Pending /\ i # tail
  BY <1>1 DEF Pending
<1>4. CountersOK'
  BY <1>1, <1>2, CapacityAssumption DEF CountersOK
<1>5. ProducerOK'
  BY <1>1 DEF ProducerOK, Writing
<1>6. PendingOK'
  BY <1>1, <1>3 DEF PendingOK
<1>7. StorageOK'
  <2>1. storage[SlotOf(tail)] = Destroyed
    BY <1>1, <1>2 DEF PendingOK
  <2>2. ASSUME NEW s \in Slots, storage[s] # Destroyed,
               NEW i \in Pending, SlotOf(i) = s
        PROVE  i \in Pending'
    BY <1>3, <2>1, <2>2
  <2> QED
    BY <1>1, <2>2 DEF StorageOK, Built
<1>8. BuiltOK'
  BY <1>1 DEF BuiltOK, Built
<1>9. MarkOK'
  BY <1>1 DEF MarkOK
<1> QED
  BY <1>4, <1>5, <1>6, <1>7, <1>8, <1>9

LEMMA RingStep ==
  ASSUME LonePusher, LonePusher', RingInv, [RingNext]_vars
  PROVE  RingInv'
<1>1. TypeOK'
  BY TypeStep
<1>2. CASE UNCHANGED vars
  BY <1>2 DEF vars, ringVars, producerVars, RingInv, TypeOK, CountersOK,
     ProducerOK, PendingOK, StorageOK, BuiltOK, MarkOK, Pending, Writing, Built
<1>3. ASSUME NEW p \in Producers, NEW item \in Items, PushBegin(p, item)
      PROVE  RingInv'
  BY <1>1, <1>3, RingPushBegin
<1>4. ASSUME NEW p \in Producers, PushStep(p)
      PROVE  RingInv'
  BY <1>1, <1>4, RingCheck, RingConstruct, RingRaiseMark, RingPublish
  DEF PushStep
<1>5. CASE PopStep
  BY <1>1, <1>5, RingPopBegin, RingTake, RingAdvanceTail DEF PopStep
<1> QED
  BY <1>2, <1>3, <1>4, <1>5 DEF RingNext

\* RingInv holds in every state the ring can reach with one producer.
THEOREM RingInvariant == ASSUME SingleProducer PROVE Spec => []RingInv
<1>0. LonePusher /\ LonePusher'
  BY DEF SingleProducer, LonePusher
<1>1. RingInv /\ [Next]_vars => RingInv'
  BY <1>0, RingStep, NextIsRingNext
<1> QED
  BY RingInit, <1>1, PTL DEF Spec
-----------------------------------------------------------------------------
(***************************************************************************)
(* What the ring promises.                                                 *)
(***************************************************************************)
\* Every variable keeps its type; in particular try_pop never returns a
\* destroyed object.
THEOREM TypeCorrect == ASSUME SingleProducer PROVE Spec => []TypeOK
<1>1. RingInv => TypeOK
  BY DEF RingInv
<1> QED
  BY <1>1, RingInvariant, PTL

\* try_push constructs only over a destroyed object and never in the slot
\* try_pop is in, although neither takes a lock or a CAS.
THEOREM SlotExclusion == ASSUME SingleProducer PROVE Spec => []NoSlotRace
<1>1. RingInv => NoSlotRace
  <2> SUFFICES ASSUME RingInv, NEW p \in Producers, Writing(p)
               PROVE  /\ pc[p] = "construct" =>
                           storage[SlotOf(seenHead[p])] = Destroyed
                      /\ cpc # "idle" => SlotOf(seenHead[p]) # SlotOf(tail)
    BY DEF NoSlotRace, Writing
  <2>1. seenHead[p] = head /\ \A i \in Pending : SlotOf(i) # SlotOf(head)
    BY RoomAtHead
  <2>2. ASSUME pc[p] = "construct"
        PROVE  storage[SlotOf(head)] = Destroyed
    <3>1. \A q \in Producers : ~Built(q)
      BY <2>2 DEF SingleProducer, Built
    <3>2. SlotOf(head) \in Slots
      BY SlotInRange DEF RingInv, TypeOK
    <3> QED
      BY <2>1, <3>1, <3>2 DEF RingInv, StorageOK
  <2>3. cpc # "idle" => tail \in Pending
    BY DEF RingInv, TypeOK, CountersOK, Pending
  <2> QED
    BY <2>1, <2>2, <2>3
<1> QED
  BY <1>1, RingInvariant, PTL

\* high_water_mark() is at least the occupancy and at most the capacity.
THEOREM MarkBounds == ASSUME SingleProducer PROVE Spec => []HighWaterBounds
<1>1. RingInv => HighWaterBounds
  BY DEF RingInv, MarkOK, HighWaterBounds
<1> QED
  BY <1>1, RingInvariant, PTL

\* try_push returns false only when the ring is full at that moment.
THEOREM RefusalMeansFull == ASSUME SingleProducer PROVE Spec => FullMeansFull
<1>1. ASSUME RingInv, NEW p \in Producers, GiveUp(p)
      PROVE  head - tail = Capacity
  <2>1. /\ head \in Nat /\ tail \in Nat /\ tail <= head
        /\ head - tail <= Capacity
    BY <1>1 DEF RingInv, TypeOK, CountersOK
  <2>2. seenHead[p] = head
    BY <1>1 DEF RingInv, ProducerOK, GiveUp, Goto
  <2>3. head - tail >= Capacity
    BY <1>1, <2>1, <2>2 DEF GiveUp, LooksFull, Minus
  <2> QED
    BY <2>1, <2>3, CapacityAssumption
<1>2. RingInv /\ [Next]_vars =>
        [\A p \in Producers : GiveUp(p) => head - tail = Capacity]_vars
  BY <1>1
<1> QED
  BY <1>2, RingInvariant, PTL DEF Spec, FullMeansFull
-----------------------------------------------------------------------------
(***************************************************************************)
(* The ring implements the bounded FIFO.                                   *)
(***************************************************************************)
LEMMA PublishIsPush ==
  ASSUME RingInv, NEW p \in Producers, Publish(p)
  PROVE  Fifo!FifoPush(value[p]) /\ value[p] \in Items
<1> USE DEF RingInv, TypeOK
<1> DEFINE v == value[p]
<1>1. v \in Items /\ head - tail < Capacity
  BY RoomAtHead DEF Publish, Goto, Writing
<1>2. log' = Append(log, v) /\ received' = received
  BY DEF Publish
<1> HIDE DEF v
<1>3. Len(log) = head /\ Len(received) \in tail..head
  BY DEF CountersOK
<1>4. Len(log') = Len(log) + 1
  BY <1>1, <1>2, AppendProperties
<1>5. Inside' = Append(Inside, v)
  <2> DEFINE m == Len(received) + 1
  <2>1. m \in 1..(Len(log) + 1)
    BY <1>3
  <2>2. SubSeq(Append(log, v), m, Len(log) + 1) =
          Append(SubSeq(log, m, Len(log)), v)
    <3> HIDE DEF m
    <3> QED
      BY <1>1, <2>1, SubSeqOfAppend
  <2> QED
    BY <1>2, <1>4, <2>2 DEF Inside
<1>6. Len(Inside) < Capacity
  <2>1. \A i \in (Len(received) + 1)..Len(log) : log[i] \in Items
    OBVIOUS
  <2>2. Len(Inside) = IF Len(received) + 1 <= Len(log)
                      THEN Len(log) - (Len(received) + 1) + 1 ELSE 0
    BY <2>1, SubSeqProperties DEF Inside
  <2> QED
    BY <1>1, <1>3, <2>2, CapacityAssumption
<1> QED
  BY <1>1, <1>2, <1>5, <1>6 DEF Fifo!FifoPush, v

LEMMA TakeIsPop ==
  ASSUME RingInv, Take
  PROVE  Fifo!FifoPop
<1> USE DEF RingInv, TypeOK
<1>1. /\ cpc = "take" /\ log' = log
      /\ received' = Append(received, storage[SlotOf(tail)])
  BY DEF Take, ConsumerGoto
<1>2. Len(received) = tail /\ Len(log) = head /\ tail + 1 \in 1..head
  BY <1>1 DEF CountersOK
<1>3. /\ storage[SlotOf(tail)] = log[tail + 1]
      /\ storage[SlotOf(tail)] \in Items
  BY <1>1, OldestItem
<1>4. Len(received') = tail + 1
  BY <1>1, <1>2, <1>3, AppendProperties
<1>5. /\ Inside # << >>
      /\ Head(Inside) = log[tail + 1]
      /\ Tail(Inside) = SubSeq(log, tail + 2, head)
  <2> DEFINE m == tail + 1
  <2>1. m \in 1..Len(log) /\ Len(log) \in m..Len(log) /\ m + 1 = tail + 2
    BY <1>2
  <2>2. Inside = SubSeq(log, m, Len(log))
    BY <1>2 DEF Inside
  <2> HIDE DEF m
  <2>3. Head(Inside) = log[m] /\ Tail(Inside) = SubSeq(log, m + 1, Len(log))
    BY <2>1, <2>2, HeadTailOfSubSeq
  <2>4. \A i \in m..Len(log) : log[i] \in Items
    BY <2>1
  <2>5. Len(Inside) = Len(log) - m + 1
    BY <2>1, <2>2, <2>4, SubSeqProperties
  <2>6. Inside # << >>
    BY <2>1, <2>5
  <2> QED
    BY <1>2, <2>1, <2>3, <2>6 DEF m
<1>6. Inside' = Tail(Inside)
  BY <1>1, <1>2, <1>4, <1>5 DEF Inside
<1> QED
  BY <1>1, <1>3, <1>5, <1>6 DEF Fifo!FifoPop

\* Seen at the store of head_ and at the move-out, the ring is a bounded FIFO.
THEOREM ImplementsBoundedFifo == ASSUME SingleProducer PROVE Spec => ImplementsFifo
<1>1. Init => Fifo!FifoInit
  BY SubSeqEmpty DEF Init, Fifo!FifoInit, Inside
<1>2. RingInv /\ [Next]_vars => [Fifo!FifoNext]_<<Inside, received>>
  <2> SUFFICES ASSUME RingInv, [Next]_vars
               PROVE  [Fifo!FifoNext]_<<Inside, received>>
    OBVIOUS
  <2>1. ASSUME NEW p \in Producers, Publish(p)
        PROVE  Fifo!FifoNext
    BY <2>1, PublishIsPush DEF Fifo!FifoNext
  <2>2. CASE Take
    BY <2>2, TakeIsPop DEF Fifo!FifoNext
  <2>3. CASE UNCHANGED <<log, received>>
    BY <2>3 DEF Inside
  <2>4. ASSUME NEW p \in Producers, NEW item \in Items, PushBegin(p, item)
        PROVE  UNCHANGED <<log, received>>
    BY <2>4 DEF PushBegin
  <2>5. ASSUME NEW p \in Producers, PushStep(p), ~Publish(p)
        PROVE  UNCHANGED <<log, received>>
    BY <2>5 DEF PushStep, GiveUp, HasRoom, Construct, RaiseMark
  <2>6. PopStep /\ ~Take => UNCHANGED <<log, received>>
    BY DEF PopStep, PopBegin, AdvanceTail
  <2> QED
    BY <2>1, <2>2, <2>3, <2>4, <2>5, <2>6 DEF Next, PopEmpty, vars
<1> QED
  BY <1>1, <1>2, RingInvariant, PTL DEF Spec, ImplementsFifo, Fifo!FifoSpec
=============================================================================
