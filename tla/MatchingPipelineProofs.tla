----------------------- MODULE MatchingPipelineProofs -----------------------
(***************************************************************************)
(* Proofs about the MPSC ring and the matching pipeline around it, for any *)
(* number of producers and calls and any capacity.                         *)
(*                                                                         *)
(* The argument: the tickets between tail and head are at most Capacity    *)
(* consecutive numbers, so they fall into different slots (SlotsDiffer).   *)
(* Each of those slots is in the hands of the producer that reserved the   *)
(* ticket until it publishes, then of the consumer until it advances tail; *)
(* every other slot is empty and unpublished.  RingInv says this.  Every   *)
(* step of the pipeline is a step of the ring or leaves it alone, so what  *)
(* is proved of the ring holds inside the pipeline; LoopInv relates the    *)
(* matching thread's loop to the ring's tail.                              *)
(***************************************************************************)
EXTENDS MatchingPipeline, CommonLemmas

-----------------------------------------------------------------------------
(***************************************************************************)
(* The inductive invariant.                                                *)
(***************************************************************************)
\* A producer inside try_push has a value to push.
CallOK == \A p \in Producers : pc[p] # "idle" => pushes[p] > 0

TypeInv == TypeOK /\ CallOK

\* The tickets that are reserved and not yet popped.
Pending == tail..(head - 1)

\* The histories agree with the counters.
CountersOK ==
  /\ tail <= head /\ head - tail <= Capacity
  /\ Len(log) = head
  /\ Len(received) = IF cpc \in {"clear", "advance"} THEN tail + 1 ELSE tail
  /\ \A j \in 1..Len(received) : received[j] = log[j]

\* A producer about to CAS can only win with a ticket that fits the ring.
CasOK ==
  \A p \in Producers :
    pc[p] = "cas" => ticket[p] < tail \/ ticket[p] - tail < Capacity

\* A producer between its CAS and its publish owns its slot.
WritersOK ==
  \A p \in Producers : Writing(p) =>
    /\ ticket[p] \in Pending
    /\ log[ticket[p] + 1] = Item(p)
    /\ published[SlotOf(ticket[p])] = 0
    /\ storage[SlotOf(ticket[p])] =
         IF pc[p] = "construct" THEN Destroyed ELSE Item(p)
    /\ cpc # "idle" => ticket[p] # tail
    /\ \A q \in Producers \ {p} : Writing(q) => ticket[q] # ticket[p]

\* A published slot belongs to a pending ticket and holds its item, until
\* the consumer has moved it out.
PublishedOK ==
  \A s \in Slots : published[s] # 0 =>
    /\ published[s] - 1 \in Pending
    /\ SlotOf(published[s] - 1) = s
    /\ storage[s] = IF cpc = "clear" /\ published[s] - 1 = tail
                    THEN Destroyed ELSE log[published[s]]

\* A live object is published or about to be.
StorageOK ==
  \A s \in Slots : storage[s] # Destroyed =>
    \/ published[s] # 0
    \/ \E p \in Producers : pc[p] = "publish" /\ SlotOf(ticket[p]) = s

\* Where the consumer is in try_pop says what it has done to its slot.
ConsumerOK ==
  /\ cpc # "idle" => tail < head
  /\ cpc \in {"take", "clear"} => published[SlotOf(tail)] = tail + 1
  /\ cpc = "advance" => published[SlotOf(tail)] = 0

RingInv ==
  /\ TypeInv /\ CountersOK /\ CasOK /\ WritersOK
  /\ PublishedOK /\ StorageOK /\ ConsumerOK
-----------------------------------------------------------------------------
(***************************************************************************)
(* Slot arithmetic.                                                        *)
(***************************************************************************)
LEMMA SlotsDiffer ==
  ASSUME NEW a \in Nat, NEW b \in Nat, a < b, b - a < Capacity
  PROVE  SlotOf(a) # SlotOf(b)
  BY CapacityAssumption, RemaindersDiffer DEF SlotOf

LEMMA SlotInRange ==
  ASSUME NEW a \in Nat
  PROVE  SlotOf(a) \in Slots
  BY CapacityAssumption, ModBounds DEF SlotOf, Slots

LEMMA PendingSlotsDiffer ==
  ASSUME NEW a \in Nat, NEW b \in Nat, a # b,
         a - b < Capacity, b - a < Capacity
  PROVE  SlotOf(a) # SlotOf(b)
  BY CapacityAssumption, CloseIndicesDiffer DEF SlotOf

LEMMA MinusType ==
  ASSUME NEW a \in Nat, NEW b \in Nat
  PROVE  Minus(a, b) \in Int
  BY ModulusAssumption DEF Minus
-----------------------------------------------------------------------------
(***************************************************************************)
(* Type correctness.                                                       *)
(***************************************************************************)
LEMMA ItemType ==
  ASSUME TypeInv, NEW p \in Producers, pc[p] # "idle"
  PROVE  Item(p) \in Items
  BY PushesAssumption DEF TypeInv, TypeOK, CallOK, Item, Items

LEMMA TypeInvInit == Init => TypeInv
  BY CapacityAssumption, PushesAssumption
  DEF Init, TypeInv, TypeOK, CallOK, PushStates, Slots

\* What the consumer moves out is the item reserved with its ticket.
LEMMA TakesTheReservedItem ==
  ASSUME RingInv, cpc = "take"
  PROVE  /\ tail \in Pending /\ SlotOf(tail) \in Slots
         /\ storage[SlotOf(tail)] = log[tail + 1]
<1> USE DEF RingInv, TypeInv, TypeOK
<1>1. tail \in Pending
  BY DEF ConsumerOK, Pending
<1>2. SlotOf(tail) \in Slots
  BY SlotInRange
<1>3. published[SlotOf(tail)] = tail + 1 /\ published[SlotOf(tail)] # 0
  BY DEF ConsumerOK
<1> QED
  BY <1>1, <1>2, <1>3 DEF PublishedOK

LEMMA TypeInvStep ==
  ASSUME RingInv, [Next]_vars
  PROVE  TypeInv'
<1> TypeInv
  BY DEF RingInv
<1> USE DEF TypeInv, TypeOK, CallOK, PushStates
<1>1. ASSUME NEW p \in Producers, LoadHead(p)
      PROVE  TypeInv'
  BY <1>1, PushesAssumption DEF LoadHead, Goto, queueVars
<1>2. ASSUME NEW p \in Producers, GiveUp(p) \/ HasRoom(p) \/ Retry(p)
      PROVE  TypeInv'
  <2>1. CASE GiveUp(p)
    BY <2>1 DEF GiveUp, Goto, queueVars
  <2>2. CASE HasRoom(p)
    BY <2>2 DEF HasRoom, Goto, queueVars
  <2>3. CASE Retry(p)
    BY <2>3 DEF Retry, Goto, queueVars
  <2> QED
    BY <1>2, <2>1, <2>2, <2>3
<1>3. ASSUME NEW p \in Producers, Reserve(p)
      PROVE  TypeInv'
  <2>1. Item(p) \in Items
    BY <1>3, ItemType DEF Reserve, Goto
  <2> QED
    BY <1>3, <2>1 DEF Reserve, Goto
<1>4. ASSUME NEW p \in Producers, Construct(p)
      PROVE  TypeInv'
  <2>1. Item(p) \in Items
    BY <1>4, ItemType DEF Construct, Goto
  <2>2. storage' \in [Slots -> Items \cup {Destroyed}]
    BY <1>4, <2>1 DEF Construct
  <2>3. pc' \in [Producers -> PushStates] /\ CallOK'
    BY <1>4 DEF Construct, Goto
  <2> QED
    BY <1>4, <2>2, <2>3 DEF Construct
<1>5. ASSUME NEW p \in Producers, Publish(p)
      PROVE  TypeInv'
  <2> DEFINE next == ticket[p] + 1
  <2>1. next \in Nat
    OBVIOUS
  <2>2. published' = [published EXCEPT ![SlotOf(ticket[p])] = next]
    BY <1>5 DEF Publish
  <2> HIDE DEF next
  <2>3. published' \in [Slots -> Nat]
    BY <2>1, <2>2
  <2>4. pc' \in [Producers -> PushStates] /\ CallOK'
    BY <1>5 DEF Publish, Goto
  <2> QED
    BY <1>5, <2>3, <2>4 DEF Publish
<1>6. ASSUME NEW p \in Producers, LoadOccupancy(p)
      PROVE  TypeInv'
  <2>1. Minus(ticket[p] + 1, tail) \in Int
    BY SMTT(40), MinusType
  <2> QED
    BY <1>6, <2>1 DEF LoadOccupancy, Goto, queueVars
<1>7. ASSUME NEW p \in Producers, RaiseMark(p)
      PROVE  TypeInv'
  BY <1>7 DEF RaiseMark, Goto
<1>8. CASE PopBegin
  BY <1>8 DEF PopBegin, ConsumerGoto, queueVars, producerVars
<1>9. CASE Take
  <2>1. storage[SlotOf(tail)] \in Items
    <3>1. tail \in Pending /\ storage[SlotOf(tail)] = log[tail + 1]
      BY <1>9, TakesTheReservedItem DEF Take, ConsumerGoto
    <3>2. tail + 1 \in 1..Len(log)
      BY <3>1 DEF Pending, RingInv, CountersOK
    <3> QED
      BY <3>1, <3>2
  <2>2. storage' \in [Slots -> Items \cup {Destroyed}]
    BY <1>9 DEF Take
  <2>3. received' \in Seq(Items)
    BY <1>9, <2>1 DEF Take
  <2> QED
    BY <1>9, <2>2, <2>3 DEF Take, ConsumerGoto, producerVars
<1>10. CASE ClearTicket
  BY <1>10 DEF ClearTicket, ConsumerGoto, producerVars
<1>11. CASE AdvanceTail
  BY <1>11 DEF AdvanceTail, ConsumerGoto, producerVars
<1>12. CASE UNCHANGED vars
  BY <1>12 DEF vars, queueVars, producerVars
<1> QED
  BY <1>1, <1>2, <1>3, <1>4, <1>5, <1>6, <1>7, <1>8, <1>9, <1>10, <1>11, <1>12
  DEF Next, PushStep, PopStep, PopEmpty
-----------------------------------------------------------------------------
(***************************************************************************)
(* RingInv is inductive.                                                   *)
(***************************************************************************)
LEMMA RingInit == Init => RingInv
<1> SUFFICES ASSUME Init PROVE RingInv
  OBVIOUS
<1>1. TypeInv
  BY TypeInvInit
<1>2. CountersOK
  BY CapacityAssumption DEF Init, CountersOK
<1>3. CasOK /\ WritersOK
  BY DEF Init, CasOK, WritersOK, Writing
<1>4. PublishedOK /\ StorageOK
  BY DEF Init, PublishedOK, StorageOK
<1>5. ConsumerOK
  BY DEF Init, ConsumerOK
<1> QED
  BY <1>1, <1>2, <1>3, <1>4, <1>5 DEF RingInv

\* A step of a producer that owns no slot before or after it.
LEMMA RingBystander ==
  ASSUME RingInv, TypeInv', NEW p \in Producers,
         UNCHANGED <<head, tail, storage, published, cpc, log, received>>,
         ~Writing(p), ~Writing(p)',
         \A q \in Producers \ {p} :
           pc'[q] = pc[q] /\ ticket'[q] = ticket[q] /\ pushes'[q] = pushes[q],
         pc'[p] = "cas" => ticket'[p] < tail \/ ticket'[p] - tail < Capacity
  PROVE  RingInv'
<1> USE DEF RingInv
<1>1. CountersOK' /\ ConsumerOK'
  BY DEF CountersOK, ConsumerOK
<1>2. CasOK'
  BY DEF CasOK
<1>3. WritersOK'
  BY DEF WritersOK, Writing, Pending, Item
<1>4. PublishedOK'
  BY DEF PublishedOK, Pending
<1>5. StorageOK'
  BY DEF StorageOK, Writing
<1> QED
  BY <1>1, <1>2, <1>3, <1>4, <1>5

LEMMA RingLookingForRoom ==
  ASSUME RingInv, TypeInv', NEW p \in Producers,
         LoadHead(p) \/ GiveUp(p) \/ HasRoom(p) \/ Retry(p)
  PROVE  RingInv'
<1> USE DEF RingInv, TypeInv, TypeOK, Goto, queueVars, Writing
<1>1. CASE LoadHead(p)
  BY <1>1, RingBystander DEF LoadHead
<1>2. CASE GiveUp(p)
  BY <1>2, RingBystander DEF GiveUp
<1>3. CASE HasRoom(p)
  <2>1. ticket[p] < tail \/ ticket[p] - tail < Capacity
    BY <1>3, CapacityAssumption DEF HasRoom, LooksFull, Minus
  <2> QED
    BY <1>3, <2>1, RingBystander DEF HasRoom
<1>4. CASE Retry(p)
  BY <1>4, RingBystander DEF Retry
<1> QED
  BY <1>1, <1>2, <1>3, <1>4

LEMMA RingRaisingMark ==
  ASSUME RingInv, TypeInv', NEW p \in Producers,
         LoadOccupancy(p) \/ RaiseMark(p)
  PROVE  RingInv'
<1> USE DEF RingInv, TypeInv, TypeOK, Goto, queueVars, Writing
<1>1. CASE LoadOccupancy(p)
  BY <1>1, RingBystander DEF LoadOccupancy
<1>2. CASE RaiseMark(p)
  BY <1>2, RingBystander DEF RaiseMark
<1> QED
  BY <1>1, <1>2

\* The slot of the next ticket is empty while the ring has room.
LEMMA NextSlotIsFree ==
  ASSUME RingInv, head - tail < Capacity
  PROVE  /\ published[SlotOf(head)] = 0
         /\ storage[SlotOf(head)] = Destroyed
<1> USE DEF RingInv, TypeInv, TypeOK
<1>1. SlotOf(head) \in Slots
  BY SlotInRange
<1>2. ASSUME NEW t \in Pending
      PROVE  SlotOf(t) # SlotOf(head)
  <2>1. t \in Nat /\ t < head /\ head - t < Capacity
    BY CapacityAssumption DEF Pending
  <2> QED
    BY <2>1, SlotsDiffer
<1>3. published[SlotOf(head)] = 0
  BY <1>1, <1>2 DEF PublishedOK
<1>4. \A p \in Producers : pc[p] = "publish" => SlotOf(ticket[p]) # SlotOf(head)
  BY <1>2 DEF WritersOK, Writing
<1> QED
  BY <1>1, <1>3, <1>4 DEF StorageOK

LEMMA RingReserve ==
  ASSUME RingInv, TypeInv', NEW p \in Producers, Reserve(p)
  PROVE  RingInv'
<1> USE DEF RingInv, TypeInv, TypeOK
<1>1. /\ head = ticket[p] /\ head' = head + 1
      /\ pc[p] = "cas" /\ pc' = [pc EXCEPT ![p] = "construct"]
      /\ log' = Append(log, Item(p))
      /\ UNCHANGED <<tail, storage, published, ticket, pushes, cpc, received>>
  BY DEF Reserve, Goto
<1>2. head - tail < Capacity
  BY <1>1 DEF CasOK, CountersOK
<1>3. Item(p) \in Items
  BY <1>1, ItemType
<1>4. /\ Len(log) = head /\ Len(log') = head + 1
      /\ log'[head + 1] = Item(p)
      /\ \A j \in 1..head : log'[j] = log[j]
  BY SMTT(40), <1>1, <1>3 DEF CountersOK
<1>5. CountersOK'
  <2>1. Len(received) \in 0..head
    <3>1. tail <= head /\ (cpc # "idle" => tail < head)
      BY DEF CountersOK, ConsumerOK
    <3>2. Len(received) = tail \/ (Len(received) = tail + 1 /\ cpc # "idle")
      BY DEF CountersOK
    <3> QED
      BY SMTT(40), <3>1, <3>2
  <2>2. \A j \in 1..Len(received) : received[j] = log'[j]
    BY SMTT(40), <1>4, <2>1 DEF CountersOK
  <2>3. tail' <= head' /\ head' - tail' <= Capacity
    BY SMTT(40), <1>1, <1>2, CapacityAssumption DEF CountersOK
  <2>4. Len(received') = IF cpc' \in {"clear", "advance"}
                         THEN tail' + 1 ELSE tail'
    BY <1>1 DEF CountersOK
  <2>5. \A j \in 1..Len(received') : received'[j] = log'[j]
    BY <1>1, <2>2
  <2>6. Len(log') = head'
    BY <1>1, <1>4
  <2> QED
    BY <2>3, <2>4, <2>5, <2>6 DEF CountersOK
<1>6. CasOK'
  BY <1>1 DEF CasOK
<1>7. WritersOK'
  <2>1. ASSUME NEW q \in Producers, Writing(q), q # p
        PROVE  /\ ticket[q] \in Pending' /\ ticket[q] # head
               /\ log'[ticket[q] + 1] = log[ticket[q] + 1]
    <3>1. ticket[q] \in tail..(head - 1)
      BY <2>1 DEF WritersOK, Pending
    <3>2. ticket[q] \in tail..head /\ ticket[q] # head /\ ticket[q] + 1 \in 1..head
      BY <3>1, BelowHead
    <3> QED
      BY SMTT(40), <1>1, <1>4, <3>2 DEF Pending
  <2>2. published[SlotOf(head)] = 0 /\ storage[SlotOf(head)] = Destroyed
    BY <1>2, NextSlotIsFree
  <2>3. head \in Pending' /\ (cpc # "idle" => head # tail)
    BY <1>1 DEF Pending, CountersOK, ConsumerOK
  <2>4. \A q \in Producers : Item(q)' = Item(q)
    BY <1>1 DEF Item
  <2>5. /\ Writing(p)'
        /\ \A q \in Producers \ {p} : Writing(q)' <=> Writing(q)
    BY <1>1 DEF Writing
  <2>6. \A q \in Producers \ {p} : pc'[q] = pc[q]
    BY <1>1
  <2>7. pc'[p] = "construct" /\ ticket'[p] = head
    BY <1>1
  <2> SUFFICES ASSUME NEW q \in Producers, Writing(q)'
               PROVE  /\ ticket'[q] \in Pending'
                      /\ log'[ticket'[q] + 1] = Item(q)'
                      /\ published'[SlotOf(ticket'[q])] = 0
                      /\ storage'[SlotOf(ticket'[q])] =
                           IF pc'[q] = "construct" THEN Destroyed ELSE Item(q)'
                      /\ cpc' # "idle" => ticket'[q] # tail'
                      /\ \A r \in Producers \ {q} :
                           Writing(r)' => ticket'[r] # ticket'[q]
    BY DEF WritersOK, SlotOf
  <2>8. CASE q = p
    BY <1>1, <1>4, <2>1, <2>2, <2>3, <2>4, <2>5, <2>7, <2>8
  <2>9. CASE q # p
    <3>1. Writing(q) /\ ticket'[q] = ticket[q] /\ pc'[q] = pc[q]
      BY <1>1, <2>5, <2>6, <2>9
    <3>2. /\ ticket'[q] \in Pending' /\ ticket'[q] # head
          /\ log'[ticket'[q] + 1] = log[ticket[q] + 1]
      BY <2>1, <2>9, <3>1
    <3>3. \A r \in Producers \ {q} : Writing(r)' => ticket'[r] # ticket'[q]
      BY <1>1, <2>5, <2>7, <3>1, <3>2 DEF WritersOK
    <3> QED
      BY <1>1, <2>4, <3>1, <3>2, <3>3 DEF WritersOK
  <2> QED
    BY <2>8, <2>9
<1>8. PublishedOK'
  <2>1. ASSUME NEW s \in Slots, published[s] # 0
        PROVE  published[s] - 1 \in Pending' /\ log'[published[s]] = log[published[s]]
    BY <1>1, <1>4, <2>1 DEF PublishedOK, Pending
  <2> QED
    BY <1>1, <2>1 DEF PublishedOK
<1>9. StorageOK'
  BY <1>1 DEF StorageOK
<1>10. ConsumerOK'
  BY <1>1 DEF ConsumerOK
<1> QED
  BY <1>5, <1>6, <1>7, <1>8, <1>9, <1>10

\* The slots of pending tickets are all different.
LEMMA OwnSlots ==
  ASSUME RingInv, NEW t \in Pending, NEW u \in Pending, t # u
  PROVE  SlotOf(t) # SlotOf(u)
<1>1. t \in Nat /\ u \in Nat /\ t - u < Capacity /\ u - t < Capacity
  BY CapacityAssumption DEF RingInv, TypeInv, TypeOK, CountersOK, Pending
<1> QED
  BY <1>1, PendingSlotsDiffer

LEMMA RingConstruct ==
  ASSUME RingInv, TypeInv', NEW p \in Producers, Construct(p)
  PROVE  RingInv'
<1> USE DEF RingInv, TypeInv, TypeOK
<1> DEFINE mine == SlotOf(ticket[p])
<1>1. /\ pc[p] = "construct" /\ pc' = [pc EXCEPT ![p] = "publish"]
      /\ storage' = [storage EXCEPT ![mine] = Item(p)]
      /\ UNCHANGED <<head, tail, published, ticket, pushes, cpc, log, received>>
  BY DEF Construct, Goto
<1>2. /\ mine \in Slots /\ published[mine] = 0
      /\ ticket[p] \in Pending /\ log[ticket[p] + 1] = Item(p)
  BY <1>1, SlotInRange DEF WritersOK, Writing
<1>3. \A q \in Producers \ {p} : Writing(q) => SlotOf(ticket[q]) # mine
  BY <1>1, OwnSlots DEF WritersOK, Writing
<1> HIDE DEF mine
<1>4. CountersOK' /\ CasOK' /\ ConsumerOK'
  BY <1>1 DEF CountersOK, CasOK, ConsumerOK
<1>5. WritersOK'
  <2>1. Pending' = Pending /\ \A q \in Producers : Item(q)' = Item(q)
    BY <1>1 DEF Pending, Item
  <2>2. \A q \in Producers : Writing(q)' <=> Writing(q)
    BY <1>1 DEF Writing
  <2>3. storage'[mine] = Item(p)
    BY <1>1, <1>2
  <2>4. \A q \in Producers \ {p} :
          Writing(q) => storage'[SlotOf(ticket[q])] = storage[SlotOf(ticket[q])]
    BY <1>1, <1>3
  <2> QED
    BY SMTT(40), <1>1, <1>2, <2>1, <2>2, <2>3, <2>4 DEF WritersOK, mine, Writing
<1>6. PublishedOK'
  BY <1>1, <1>2 DEF PublishedOK, Pending
<1>7. StorageOK'
  BY <1>1, <1>2 DEF StorageOK, mine
<1> QED
  BY <1>4, <1>5, <1>6, <1>7

LEMMA RingPublish ==
  ASSUME RingInv, TypeInv', NEW p \in Producers, Publish(p)
  PROVE  RingInv'
<1> USE DEF RingInv, TypeInv, TypeOK
<1> DEFINE mine == SlotOf(ticket[p])
<1>1. /\ pc[p] = "publish" /\ pc' = [pc EXCEPT ![p] = "loadOccupancy"]
      /\ published' = [published EXCEPT ![mine] = ticket[p] + 1]
      /\ UNCHANGED <<head, tail, storage, ticket, pushes, cpc, log, received>>
  BY DEF Publish, Goto
<1>2. /\ mine \in Slots /\ published[mine] = 0 /\ storage[mine] = Item(p)
      /\ ticket[p] \in Pending /\ log[ticket[p] + 1] = Item(p)
      /\ cpc # "idle" => ticket[p] # tail
  BY <1>1, SlotInRange DEF WritersOK, Writing
<1>3. \A q \in Producers \ {p} : Writing(q) => SlotOf(ticket[q]) # mine
  BY <1>1, OwnSlots DEF WritersOK, Writing
<1>4. /\ published'[mine] = ticket[p] + 1
      /\ \A s \in Slots \ {mine} : published'[s] = published[s]
  BY <1>1, <1>2
<1>5. CountersOK' /\ CasOK'
  BY <1>1 DEF CountersOK, CasOK
<1>6. WritersOK'
  <2>1. ASSUME NEW q \in Producers, Writing(q)'
        PROVE  /\ q # p /\ Writing(q) /\ pc'[q] = pc[q]
               /\ SlotOf(ticket[q]) \in Slots \ {mine}
    BY <1>1, <1>3, <2>1, SlotInRange DEF Writing
  <2>2. Pending' = Pending /\ \A q \in Producers : Item(q)' = Item(q)
    BY <1>1 DEF Pending, Item
  <2> HIDE DEF mine
  <2> QED
    BY SMTT(40), <1>1, <1>4, <2>1, <2>2 DEF WritersOK
<1>7. PublishedOK'
  <2>1. Pending' = Pending /\ ticket[p] + 1 - 1 = ticket[p]
    BY <1>1, <1>2 DEF Pending
  <2>2. ~(cpc = "clear" /\ ticket[p] = tail)
    BY <1>2
  <2>3. ASSUME NEW s \in Slots, published'[s] # 0
        PROVE  /\ published'[s] - 1 \in Pending
               /\ SlotOf(published'[s] - 1) = s
               /\ storage[s] = IF cpc = "clear" /\ published'[s] - 1 = tail
                               THEN Destroyed ELSE log[published'[s]]
    <3>1. CASE s = mine
      <4>1. published'[s] = ticket[p] + 1 /\ published'[s] - 1 = ticket[p]
        BY <1>4, <2>1, <3>1
      <4>2. SlotOf(published'[s] - 1) = s
        BY <3>1, <4>1
      <4>3. storage[s] = log[published'[s]]
        BY <1>2, <3>1, <4>1
      <4> QED
        BY <1>2, <2>2, <4>1, <4>2, <4>3
    <3>2. CASE s # mine
      BY <1>4, <2>3, <3>2 DEF PublishedOK
    <3> QED
      BY <3>1, <3>2
  <2> QED
    BY <1>1, <2>1, <2>3 DEF PublishedOK, SlotOf
<1>8. StorageOK'
  <2>1. ASSUME NEW s \in Slots, storage[s] # Destroyed, s # mine, published[s] = 0
        PROVE  \E q \in Producers : pc'[q] = "publish" /\ SlotOf(ticket[q]) = s
    BY <1>1, <2>1 DEF StorageOK
  <2>2. published'[mine] # 0
    BY <1>4
  <2> QED
    BY <1>1, <1>4, <2>1, <2>2 DEF StorageOK, SlotOf
<1>9. ConsumerOK'
  <2>1. cpc # "idle" => SlotOf(tail) # mine
    <3>1. cpc # "idle" => tail \in Pending
      BY DEF ConsumerOK, Pending
    <3> QED
      BY <1>2, <3>1, OwnSlots
  <2>2. cpc # "idle" => published'[SlotOf(tail)] = published[SlotOf(tail)]
    BY <1>4, <2>1, SlotInRange
  <2> QED
    BY <1>1, <2>2 DEF ConsumerOK
<1> QED
  BY <1>5, <1>6, <1>7, <1>8, <1>9

LEMMA RingPopBegin ==
  ASSUME RingInv, TypeInv', PopBegin
  PROVE  RingInv'
<1> USE DEF RingInv, TypeInv, TypeOK
<1>1. /\ cpc = "idle" /\ cpc' = "take"
      /\ published[SlotOf(tail)] = tail + 1
      /\ UNCHANGED <<head, tail, storage, published, pc, ticket, pushes, log,
                     received>>
  BY DEF PopBegin, ConsumerGoto, IsPublished, queueVars, producerVars
<1>2. SlotOf(tail) \in Slots
  BY SlotInRange
<1>3. tail \in Pending
  <2>1. published[SlotOf(tail)] # 0 /\ published[SlotOf(tail)] - 1 = tail
    BY <1>1
  <2>2. published[SlotOf(tail)] - 1 \in Pending
    BY <1>2, <2>1 DEF PublishedOK
  <2> QED
    BY <2>1, <2>2
<1>4. CountersOK' /\ CasOK' /\ StorageOK'
  BY <1>1 DEF CountersOK, CasOK, StorageOK
<1>5. WritersOK'
  <2>1. ASSUME NEW q \in Producers, Writing(q)
        PROVE  ticket[q] # tail
    BY <1>1, <2>1 DEF WritersOK
  <2> QED
    BY <1>1, <2>1 DEF WritersOK, Writing, Pending, Item
<1>6. PublishedOK'
  BY <1>1 DEF PublishedOK, Pending
<1>7. ConsumerOK'
  BY <1>1, <1>3 DEF ConsumerOK, Pending
<1> QED
  BY <1>4, <1>5, <1>6, <1>7

LEMMA RingTake ==
  ASSUME RingInv, TypeInv', Take
  PROVE  RingInv'
<1> USE DEF RingInv, TypeInv, TypeOK
<1> DEFINE mine == SlotOf(tail)
<1>1. /\ cpc = "take" /\ cpc' = "clear"
      /\ received' = Append(received, storage[mine])
      /\ storage' = [storage EXCEPT ![mine] = Destroyed]
      /\ UNCHANGED <<head, tail, published, pc, ticket, pushes, log>>
  BY DEF Take, ConsumerGoto, producerVars
<1>2. tail \in Pending /\ mine \in Slots /\ storage[mine] = log[tail + 1]
  BY <1>1, TakesTheReservedItem
<1>3. \A q \in Producers : Writing(q) => SlotOf(ticket[q]) # mine
  BY <1>1, <1>2, OwnSlots DEF WritersOK
<1>4. /\ storage'[mine] = Destroyed
      /\ \A s \in Slots \ {mine} : storage'[s] = storage[s]
  BY <1>1, <1>2
<1>5. Pending' = Pending /\ \A q \in Producers : Item(q)' = Item(q)
  BY <1>1 DEF Pending, Item
<1>6. CountersOK'
  <2>1. Len(received) = tail /\ \A j \in 1..tail : received[j] = log[j]
    BY <1>1 DEF CountersOK
  <2>2. /\ Len(received') = tail + 1
        /\ received'[tail + 1] = storage[mine]
        /\ \A j \in 1..tail : received'[j] = received[j]
    <3>1. storage[mine] \in Items
      BY <1>2 DEF Pending, CountersOK
    <3> HIDE DEF mine
    <3> QED
      BY <1>1, <2>1, <3>1
  <2>3. received'[tail + 1] = log[tail + 1]
    BY <1>2, <2>2
  <2>4. \A j \in 1..(tail + 1) : j \in 1..tail \/ j = tail + 1
    OBVIOUS
  <2>5. \A j \in 1..(tail + 1) : received'[j] = log[j]
    BY <2>1, <2>2, <2>3, <2>4
  <2> QED
    BY <1>1, <2>2, <2>5 DEF CountersOK
<1>7. CasOK' /\ ConsumerOK'
  BY <1>1 DEF CasOK, ConsumerOK
<1>8. WritersOK'
  <2>1. \A q \in Producers : Writing(q) =>
          storage'[SlotOf(ticket[q])] = storage[SlotOf(ticket[q])]
    BY <1>3, <1>4, SlotInRange
  <2> HIDE DEF mine
  <2> QED
    BY <1>1, <1>5, <2>1 DEF WritersOK, Writing
<1>9. PublishedOK'
  <2>1. published[mine] - 1 = tail
    BY <1>1 DEF ConsumerOK
  <2>2. ASSUME NEW s \in Slots, published[s] # 0
        PROVE  storage'[s] = IF published[s] - 1 = tail
                             THEN Destroyed ELSE log[published[s]]
    <3>1. CASE s = mine
      BY <1>4, <2>1, <3>1
    <3>2. CASE s # mine
      <4>1. published[s] - 1 # tail
        BY <2>2, <3>2 DEF PublishedOK
      <4> QED
        BY <1>1, <1>4, <2>2, <3>2, <4>1 DEF PublishedOK
    <3> QED
      BY <3>1, <3>2
  <2> QED
    BY <1>1, <1>5, <2>2 DEF PublishedOK
<1>10. StorageOK'
  BY <1>1, <1>4 DEF StorageOK
<1> QED
  BY <1>6, <1>7, <1>8, <1>9, <1>10

LEMMA RingClearTicket ==
  ASSUME RingInv, TypeInv', ClearTicket
  PROVE  RingInv'
<1> USE DEF RingInv, TypeInv, TypeOK
<1> DEFINE mine == SlotOf(tail)
<1>1. /\ cpc = "clear" /\ cpc' = "advance"
      /\ published' = [published EXCEPT ![mine] = 0]
      /\ UNCHANGED <<head, tail, storage, pc, ticket, pushes, log, received>>
  BY DEF ClearTicket, ConsumerGoto, producerVars
<1>2. mine \in Slots
  BY SlotInRange
<1>3. /\ published'[mine] = 0
      /\ \A s \in Slots \ {mine} : published'[s] = published[s]
  BY <1>1, <1>2
<1>4. Pending' = Pending /\ \A q \in Producers : Item(q)' = Item(q)
  BY <1>1 DEF Pending, Item
<1>5. storage[mine] = Destroyed
  <2>1. published[mine] # 0 /\ published[mine] - 1 = tail
    BY <1>1 DEF ConsumerOK
  <2> QED
    BY <1>1, <1>2, <2>1 DEF PublishedOK
<1>6. CountersOK' /\ CasOK' /\ ConsumerOK'
  BY <1>1, <1>3 DEF CountersOK, CasOK, ConsumerOK
<1>7. WritersOK'
  <2>1. \A q \in Producers : Writing(q) => published'[SlotOf(ticket[q])] = 0
    BY <1>3, SlotInRange DEF WritersOK
  <2> HIDE DEF mine
  <2> QED
    BY <1>1, <1>4, <2>1 DEF WritersOK, Writing
<1>8. PublishedOK'
  <2>1. ASSUME NEW s \in Slots, published'[s] # 0
        PROVE  /\ s # mine /\ published'[s] = published[s]
               /\ published[s] - 1 # tail
    <3>1. s # mine /\ published'[s] = published[s]
      BY <1>3, <2>1
    <3> QED
      BY <2>1, <3>1 DEF PublishedOK
  <2> QED
    BY <1>1, <1>4, <2>1 DEF PublishedOK
<1>9. StorageOK'
  BY <1>1, <1>3, <1>5 DEF StorageOK
<1> QED
  BY <1>6, <1>7, <1>8, <1>9

LEMMA RingAdvanceTail ==
  ASSUME RingInv, TypeInv', AdvanceTail
  PROVE  RingInv'
<1> USE DEF RingInv, TypeInv, TypeOK
<1>1. /\ cpc = "advance" /\ cpc' = "idle" /\ tail' = tail + 1
      /\ UNCHANGED <<head, storage, published, pc, ticket, pushes, log,
                     received>>
  BY DEF AdvanceTail, ConsumerGoto, producerVars
<1>2. tail < head
  BY <1>1 DEF ConsumerOK
<1>3. \A t \in Pending : t # tail => t \in Pending'
  BY <1>1 DEF Pending
<1>4. CountersOK'
  BY <1>1, <1>2, CapacityAssumption DEF CountersOK
<1>5. CasOK'
  <2>1. ASSUME NEW q \in Producers, pc[q] = "cas"
        PROVE  ticket[q] < tail + 1 \/ ticket[q] - (tail + 1) < Capacity
    <3>1. ticket[q] < tail \/ ticket[q] - tail < Capacity
      BY <2>1 DEF CasOK
    <3> QED
      BY SMTT(40), <3>1, CapacityAssumption
  <2> QED
    BY <1>1, <2>1 DEF CasOK
<1>6. WritersOK'
  <2>1. \A q \in Producers : Item(q)' = Item(q)
    BY <1>1 DEF Item
  <2>2. \A q \in Producers : Writing(q) => ticket[q] \in Pending'
    BY <1>1, <1>3 DEF WritersOK
  <2> QED
    BY <1>1, <2>1, <2>2 DEF WritersOK, Writing
<1>7. PublishedOK'
  <2>1. ASSUME NEW s \in Slots, published[s] # 0
        PROVE  published[s] - 1 \in Pending'
    <3>1. published[s] - 1 # tail
      BY <1>1, <2>1 DEF PublishedOK, ConsumerOK
    <3> QED
      BY <1>3, <2>1, <3>1 DEF PublishedOK
  <2> QED
    BY <1>1, <2>1 DEF PublishedOK
<1>8. StorageOK' /\ ConsumerOK'
  BY <1>1 DEF StorageOK, ConsumerOK
<1> QED
  BY <1>4, <1>5, <1>6, <1>7, <1>8

LEMMA RingStep ==
  ASSUME RingInv, [Next]_vars
  PROVE  RingInv'
<1>1. TypeInv'
  BY TypeInvStep
<1>2. CASE UNCHANGED vars
  BY <1>2 DEF vars, queueVars, producerVars, RingInv, TypeInv, TypeOK, CallOK,
     CountersOK, CasOK, WritersOK, PublishedOK, StorageOK, ConsumerOK, Writing,
     Pending, Item
<1>3. ASSUME NEW p \in Producers, LoadHead(p) \/ PushStep(p)
      PROVE  RingInv'
  BY <1>1, <1>3, RingLookingForRoom, RingReserve, RingConstruct, RingPublish,
     RingRaisingMark DEF PushStep
<1>4. CASE PopStep
  BY <1>1, <1>4, RingPopBegin, RingTake, RingClearTicket, RingAdvanceTail
  DEF PopStep
<1> QED
  BY <1>2, <1>3, <1>4 DEF Next, PopEmpty

\* RingInv holds in every state the ring can reach.
THEOREM RingInvariant == Spec => []RingInv
<1>1. RingInv /\ [Next]_vars => RingInv'
  BY RingStep
<1> QED
  BY RingInit, <1>1, PTL DEF Spec
-----------------------------------------------------------------------------
(***************************************************************************)
(* What the ring promises.                                                 *)
(***************************************************************************)
\* Every variable keeps its type; in particular try_pop never returns a
\* destroyed object.
THEOREM TypeCorrect == Spec => []TypeOK
<1>1. RingInv => TypeOK
  BY DEF RingInv, TypeInv
<1> QED
  BY <1>1, RingInvariant, PTL

\* No two threads are ever inside the same slot, and no live object is
\* constructed over: try_push's CAS and the published tickets are enough.
THEOREM SlotExclusion == Spec => []NoSlotRace
<1>1. RingInv => NoSlotRace
  <2> SUFFICES ASSUME RingInv PROVE NoSlotRace
    OBVIOUS
  <2>1. \A p \in Producers : pc[p] = "construct" =>
          storage[SlotOf(ticket[p])] = Destroyed
    BY DEF RingInv, WritersOK, Writing
  <2>2. cpc = "take" => tail \in Pending
    BY TakesTheReservedItem
  <2>3. ASSUME NEW p \in Producers, Writing(p), cpc = "take"
        PROVE  SlotOf(ticket[p]) # SlotOf(tail)
    BY <2>2, <2>3, OwnSlots DEF RingInv, WritersOK
  <2>4. ASSUME NEW p \in Producers, Writing(p),
               NEW q \in Producers \ {p}, Writing(q)
        PROVE  SlotOf(ticket[p]) # SlotOf(ticket[q])
    BY <2>4, OwnSlots DEF RingInv, WritersOK
  <2> QED
    BY <2>1, <2>3, <2>4 DEF NoSlotRace
<1> QED
  BY <1>1, RingInvariant, PTL

\* A refused push means a full ring, unless another producer was faster: with
\* one producer, as the gateway uses the queue, it means a full ring.
THEOREM RefusalJustified == Spec => RefusedOnlyIfFullOrRaced
<1>1. ASSUME RingInv, NEW p \in Producers, GiveUp(p), head = ticket[p]
      PROVE  head - tail = Capacity
  <2>1. head \in Nat /\ tail \in Nat /\ tail <= head /\ head - tail <= Capacity
    BY <1>1 DEF RingInv, TypeInv, TypeOK, CountersOK
  <2>2. head - tail >= Capacity
    BY <1>1, <2>1 DEF GiveUp, LooksFull, Minus
  <2> QED
    BY <2>1, <2>2, CapacityAssumption
<1>2. RingInv /\ [Next]_vars =>
        [\A p \in Producers :
           GiveUp(p) => head - tail = Capacity \/ head # ticket[p]]_vars
  BY <1>1
<1> QED
  BY <1>2, RingInvariant, PTL DEF Spec, RefusedOnlyIfFullOrRaced
-----------------------------------------------------------------------------
(***************************************************************************)
(* The ring implements the bounded FIFO.                                   *)
(***************************************************************************)
LEMMA ReserveIsPush ==
  ASSUME RingInv, NEW p \in Producers, Reserve(p)
  PROVE  Fifo!FifoPush(Item(p)) /\ Item(p) \in Items
<1> USE DEF RingInv, TypeInv, TypeOK
<1>1. Item(p) \in Items
  BY ItemType DEF Reserve, Goto
<1>2. log' = Append(log, Item(p)) /\ received' = received
  BY DEF Reserve
<1>3. /\ Len(log) = head /\ head - tail < Capacity
      /\ Len(received) \in tail..head
  BY DEF Reserve, Goto, CasOK, CountersOK, ConsumerOK
<1>4. Len(log') = Len(log) + 1
  BY <1>1, <1>2, AppendProperties
<1>5. Inside' = Append(Inside, Item(p))
  <2> DEFINE m == Len(received) + 1
  <2>1. m \in 1..(Len(log) + 1)
    BY <1>3
  <2>2. SubSeq(Append(log, Item(p)), m, Len(log) + 1) =
          Append(SubSeq(log, m, Len(log)), Item(p))
    <3> HIDE DEF m
    <3> QED
      BY <1>1, <2>1, SubSeqOfAppend
  <2> QED
    BY <1>2, <1>4, <2>2 DEF Inside
<1>6. Len(Inside) < Capacity
  <2>1. \A i \in (Len(received) + 1)..Len(log) : log[i] \in Items
    OBVIOUS
  <2>2. Len(Inside) = IF Len(received) + 1 <= Len(log)
                      THEN Len(log) - (Len(received) + 1) + 1 ELSE 0
    BY <2>1, SubSeqProperties DEF Inside
  <2> QED
    BY <1>3, <2>2, CapacityAssumption
<1> QED
  BY <1>1, <1>2, <1>5, <1>6 DEF Fifo!FifoPush

LEMMA TakeIsPop ==
  ASSUME RingInv, Take
  PROVE  Fifo!FifoPop
<1> USE DEF RingInv, TypeInv, TypeOK
<1>1. /\ cpc = "take" /\ log' = log
      /\ received' = Append(received, storage[SlotOf(tail)])
  BY DEF Take, ConsumerGoto
<1>2. Len(received) = tail /\ Len(log) = head /\ tail + 1 \in 1..head
  BY <1>1 DEF CountersOK, ConsumerOK
<1>3. Len(received') = tail + 1
  <2>1. storage[SlotOf(tail)] \in Items
    BY <1>1, <1>2, TakesTheReservedItem
  <2> QED
    BY <1>1, <1>2, <2>1, AppendProperties
<1>4. /\ Inside # << >>
      /\ Head(Inside) = log[tail + 1]
      /\ Tail(Inside) = SubSeq(log, tail + 2, head)
  <2> DEFINE m == tail + 1
  <2>1. m \in 1..Len(log) /\ Len(log) \in m..Len(log) /\ m + 1 = tail + 2
    BY <1>2
  <2>2. Inside = SubSeq(log, m, Len(log))
    BY <1>2 DEF Inside
  <2> HIDE DEF m
  <2>3. Head(Inside) = log[m] /\ Tail(Inside) = SubSeq(log, m + 1, Len(log))
    BY <2>1, <2>2, HeadTailOfSubSeq
  <2>4. \A i \in m..Len(log) : log[i] \in Items
    BY <2>1
  <2>5. Len(Inside) = Len(log) - m + 1
    BY <2>1, <2>2, <2>4, SubSeqProperties
  <2>6. Inside # << >>
    BY <2>1, <2>5
  <2> QED
    BY <1>2, <2>1, <2>3, <2>6 DEF m
<1>5. storage[SlotOf(tail)] = log[tail + 1]
  BY <1>1, TakesTheReservedItem
<1>6. Inside' = Tail(Inside)
  BY SMTT(40), <1>1, <1>2, <1>3, <1>4 DEF Inside
<1> QED
  BY <1>1, <1>4, <1>5, <1>6 DEF Fifo!FifoPop

\* Seen at the winning CAS and at the move-out, the ring is a bounded FIFO.
THEOREM ImplementsBoundedFifo == Spec => ImplementsFifo
<1>1. Init => Fifo!FifoInit
  BY SubSeqEmpty DEF Init, Fifo!FifoInit, Inside
<1>2. RingInv /\ [Next]_vars => [Fifo!FifoNext]_<<Inside, received>>
  <2> SUFFICES ASSUME RingInv, [Next]_vars
               PROVE  [Fifo!FifoNext]_<<Inside, received>>
    OBVIOUS
  <2>1. ASSUME NEW p \in Producers, Reserve(p)
        PROVE  Fifo!FifoNext
    BY <2>1, ReserveIsPush DEF Fifo!FifoNext
  <2>2. CASE Take
    BY <2>2, TakeIsPop DEF Fifo!FifoNext
  <2>3. CASE UNCHANGED <<log, received>>
    BY <2>3 DEF Inside
  <2>4. ASSUME NEW p \in Producers, LoadHead(p) \/ PushStep(p), ~Reserve(p)
        PROVE  UNCHANGED <<log, received>>
    BY <2>4 DEF PushStep, LoadHead, GiveUp, HasRoom, Retry, Construct, Publish,
       LoadOccupancy, RaiseMark
  <2>5. PopStep /\ ~Take => UNCHANGED <<log, received>>
    BY DEF PopStep, PopBegin, ClearTicket, AdvanceTail
  <2> QED
    BY <2>1, <2>2, <2>3, <2>4, <2>5 DEF Next, PopEmpty, vars
<1> QED
  BY <1>1, <1>2, RingInvariant, PTL DEF Spec, ImplementsFifo, Fifo!FifoSpec
-----------------------------------------------------------------------------
(***************************************************************************)
(* The pipeline.                                                           *)
(***************************************************************************)
\* The matching thread outside try_pop has popped one command more than it
\* has processed exactly when it is about to process it.
LoopInv ==
  /\ mpc \in {"poll", "process", "check", "exited"}
  /\ mpc # "poll" => cpc = "idle"
  /\ processed \in Seq([item : Items, sequence : Nat])
  /\ tail = Len(processed) + (IF mpc = "process" THEN 1 ELSE 0)
  /\ SequencedInAdmissionOrder

CountsInv ==
  /\ rejected \in Nat
  /\ admitted \subseteq Items
  /\ stopRequested \in BOOLEAN
  /\ queuedAtStop \subseteq Items

\* Every step of the pipeline is one step of the ring, or none.
LEMMA PipelineStepIsRingStep ==
  ASSUME [PipelineNext]_pipelineVars
  PROVE  [Next]_vars
<1>1. ASSUME NEW p \in Producers, SubmitBegin(p) \/ SubmitContinues(p)
      PROVE  Next
  BY <1>1 DEF SubmitBegin, SubmitContinues, SubmitStep, SubmitAdmitted,
              SubmitRejected, Next, PushStep
<1>2. CASE PopCommand \/ PopReturns
  BY <1>2 DEF PopCommand, PopReturns, Next, PopStep
<1>3. CASE ProcessCommand \/ PollFindsNothing \/ CheckStop \/ RequestStop
  BY <1>3 DEF ProcessCommand, PollFindsNothing, CheckStop, RequestStop, PopEmpty
<1>4. CASE UNCHANGED pipelineVars
  BY <1>4 DEF pipelineVars
<1> QED
  BY <1>1, <1>2, <1>3, <1>4 DEF PipelineNext, MatchingThread, Finished

\* A producer inside try_push has an item in hand.
LEMMA ItemInHand ==
  ASSUME RingInv, NEW p \in Producers, pc[p] # "idle"
  PROVE  Item(p) \in Items
<1>1. pushes[p] \in 0..MaxPushes /\ pushes[p] > 0
  BY DEF RingInv, TypeInv, TypeOK, CallOK
<1>2. pushes[p] \in 1..MaxPushes
  BY <1>1, PushesAssumption
<1> QED
  BY <1>2 DEF Item, Items

\* A reservation appends to the log, and no step of the ring does more to it.
LEMMA LogGrows ==
  ASSUME RingInv, [Next]_vars
  PROVE  Len(log) <= Len(log') /\ \A n \in 1..Len(log) : log'[n] = log[n]
<1>0. log \in Seq(Items)
  BY DEF RingInv, TypeInv, TypeOK
<1>1. ASSUME NEW p \in Producers, Reserve(p)
      PROVE  Len(log) <= Len(log') /\ \A n \in 1..Len(log) : log'[n] = log[n]
  <2>1. log' = Append(log, Item(p)) /\ Item(p) \in Items
    BY <1>1, ItemInHand DEF Reserve, Goto
  <2> QED
    BY <1>0, <2>1
<1>2. CASE UNCHANGED log
  BY <1>0, <1>2
<1> QED
  BY <1>1, <1>2 DEF Next, PushStep, PopStep, LoadHead, GiveUp, HasRoom, Retry,
     Construct, Publish, LoadOccupancy, RaiseMark, PopBegin, Take, ClearTicket,
     AdvanceTail, PopEmpty, vars, queueVars, producerVars

\* The matching thread's loop: between two steps of it, and in each of them.
LEMMA LoopStep ==
  ASSUME RingInv, LoopInv, [PipelineNext]_pipelineVars
  PROVE  LoopInv'
<1>0. /\ Len(log) <= Len(log') /\ \A n \in 1..Len(log) : log'[n] = log[n]
      /\ log \in Seq(Items) /\ received \in Seq(Items) /\ tail \in Nat
      /\ Len(log) = head /\ tail <= head /\ head \in Nat
  BY LogGrows, PipelineStepIsRingStep DEF RingInv, TypeInv, TypeOK, CountersOK
<1>1. CASE UNCHANGED <<loopVars, tail, cpc>>
  <2>1. Len(processed) <= Len(log) /\ Len(processed) \in Nat
    BY <1>0 DEF LoopInv
  <2> QED
    BY <1>0, <1>1, <2>1 DEF LoopInv, loopVars, SequencedInAdmissionOrder
<1>2. ASSUME NEW p \in Producers, SubmitBegin(p) \/ SubmitContinues(p)
      PROVE  LoopInv'
  <2>1. UNCHANGED <<loopVars, tail, cpc>>
    BY <1>2 DEF SubmitBegin, SubmitContinues, SubmitStep, SubmitAdmitted,
                SubmitRejected, LoadHead, GiveUp, HasRoom, Reserve, Retry,
                Construct, Publish, LoadOccupancy, RaiseMark, queueVars
  <2> QED
    BY <1>1, <2>1
<1>3. CASE PopCommand
  <2>1. mpc = "poll" /\ UNCHANGED <<loopVars, tail, log>>
    BY <1>3 DEF PopCommand, PopBegin, Take, ClearTicket, queueVars
  <2> QED
    BY <2>1 DEF LoopInv, loopVars, SequencedInAdmissionOrder
<1>4. CASE PopReturns
  <2>1. /\ mpc = "poll" /\ mpc' = "process" /\ tail' = tail + 1 /\ cpc' = "idle"
        /\ UNCHANGED <<nextSequence, processed, log>>
    BY <1>4 DEF PopReturns, AdvanceTail, ConsumerGoto
  <2> QED
    BY <2>1 DEF LoopInv, SequencedInAdmissionOrder
<1>5. CASE ProcessCommand
  <2> DEFINE n == Len(processed) + 1
             entry == [item |-> received[Len(received)], sequence |-> nextSequence]
  <2>1. /\ mpc = "process" /\ mpc' = "poll" /\ processed' = Append(processed, entry)
        /\ nextSequence' = nextSequence + 1 /\ cpc = "idle"
        /\ UNCHANGED <<tail, cpc, log, received>>
    BY <1>5 DEF ProcessCommand, LoopInv, vars, queueVars
  <2>2. /\ processed \in Seq([item : Items, sequence : Nat]) /\ n \in Nat
        /\ tail = n /\ nextSequence = n
    BY <2>1 DEF LoopInv, SequencedInAdmissionOrder
  <2>3. Len(received) = n /\ received[n] = log[n] /\ received[n] \in Items
    BY <1>0, <2>1, <2>2 DEF RingInv, CountersOK
  <2>4. entry \in [item : Items, sequence : Nat] /\ entry.item = log[n]
        /\ entry.sequence = n
    BY <2>2, <2>3
  <2> HIDE DEF entry
  <2>5. /\ processed' \in Seq([item : Items, sequence : Nat])
        /\ Len(processed') = n /\ processed'[n] = entry
        /\ \A j \in 1..Len(processed) : processed'[j] = processed[j]
    BY <2>1, <2>2, <2>4
  <2>6. SequencedInAdmissionOrder'
    BY <2>1, <2>2, <2>4, <2>5 DEF LoopInv, SequencedInAdmissionOrder
  <2> QED
    BY <2>1, <2>2, <2>5, <2>6 DEF LoopInv
<1>6. CASE PollFindsNothing \/ CheckStop
  <2>1. /\ UNCHANGED <<tail, cpc, log, nextSequence, processed>>
        /\ mpc # "process" /\ mpc' \in {"poll", "check", "exited"}
        /\ cpc = "idle"
    BY <1>6 DEF PollFindsNothing, CheckStop, PopEmpty, vars, queueVars, LoopInv
  <2> QED
    BY <2>1 DEF LoopInv, SequencedInAdmissionOrder
<1>7. CASE RequestStop \/ UNCHANGED pipelineVars
  <2>1. UNCHANGED <<loopVars, tail, cpc>>
    BY <1>7 DEF RequestStop, pipelineVars, vars, queueVars
  <2> QED
    BY <1>1, <2>1
<1> QED
  BY <1>2, <1>3, <1>4, <1>5, <1>6, <1>7
  DEF PipelineNext, MatchingThread, Finished

\* The counters and histories of submit() and stop().
LEMMA CountsStep ==
  ASSUME RingInv, CountsInv, [PipelineNext]_pipelineVars
  PROVE  CountsInv'
<1>1. ASSUME NEW p \in Producers, SubmitAdmitted(p)
      PROVE  CountsInv'
  <2>1. Item(p) \in Items
    BY <1>1, ItemInHand DEF SubmitAdmitted, RaiseMark, Goto
  <2> QED
    BY <1>1, <2>1 DEF SubmitAdmitted, CountsInv, stopVars
<1>2. ASSUME NEW p \in Producers, SubmitBegin(p) \/ SubmitStep(p) \/ SubmitRejected(p)
      PROVE  CountsInv'
  BY <1>2 DEF SubmitBegin, SubmitStep, SubmitRejected, CountsInv, stopVars
<1>3. CASE MatchingThread \/ RequestStop \/ UNCHANGED pipelineVars
  BY <1>3 DEF MatchingThread, PopCommand, PopReturns, ProcessCommand,
              PollFindsNothing, CheckStop, RequestStop, pipelineVars, CountsInv,
              stopVars
<1> QED
  BY <1>1, <1>2, <1>3 DEF PipelineNext, SubmitContinues, Finished

\* What is proved of the ring alone holds of the ring in the pipeline.
THEOREM PipelineRunsTheRing == PipelineSpec => Spec
<1>1. PipelineInit => Init
  BY DEF PipelineInit
<1>2. [PipelineNext]_pipelineVars => [Next]_vars
  BY PipelineStepIsRingStep
<1> QED
  BY <1>1, <1>2, PTL DEF PipelineSpec, Spec

\* Every variable of the pipeline keeps its type, and the loop its invariant.
LEMMA PipelineInvariant == PipelineSpec => [](RingInv /\ LoopInv /\ CountsInv)
<1>1. PipelineInit => RingInv /\ LoopInv /\ CountsInv
  <2> SUFFICES ASSUME PipelineInit PROVE RingInv /\ LoopInv /\ CountsInv
    OBVIOUS
  <2>1. RingInv
    BY RingInit DEF PipelineInit
  <2>2. CountsInv
    BY DEF PipelineInit, CountsInv
  <2>3. processed = << >> /\ Len(processed) = 0 /\ nextSequence = 1
    BY DEF PipelineInit
  <2>4. SequencedInAdmissionOrder
    BY <2>3 DEF SequencedInAdmissionOrder
  <2>5. LoopInv
    BY <2>3, <2>4 DEF PipelineInit, Init, LoopInv
  <2> QED
    BY <2>1, <2>2, <2>5
<1>2. RingInv /\ LoopInv /\ CountsInv /\ [PipelineNext]_pipelineVars
        => (RingInv /\ LoopInv /\ CountsInv)'
  BY PipelineStepIsRingStep, RingStep, LoopStep, CountsStep
<1> QED
  BY <1>1, <1>2, PTL DEF PipelineSpec

\* Every variable of the pipeline keeps its type.
THEOREM PipelineTyped == PipelineSpec => []PipelineTypeOK
<1>1. RingInv /\ LoopInv /\ CountsInv => PipelineTypeOK
  BY DEF RingInv, TypeInv, LoopInv, CountsInv, PipelineTypeOK,
         SequencedInAdmissionOrder
<1> QED
  BY <1>1, PipelineInvariant, PTL

\* Command sequence numbers are gapless from 1 and follow the order in which
\* submit() won its reservations, whatever the producers interleave, however
\* often the queue is full, and whenever stop() is called.
THEOREM CommandsFollowAdmission == PipelineSpec => []SequencedInAdmissionOrder
<1>1. LoopInv => SequencedInAdmissionOrder
  BY DEF LoopInv
<1> QED
  BY <1>1, PipelineInvariant, PTL

\* Inside the pipeline, too, no two threads are ever in one slot.
THEOREM PipelineSlotExclusion == PipelineSpec => []NoSlotRace
  BY PipelineRunsTheRing, SlotExclusion, PTL

\* Inside the pipeline, too, the ring is a bounded FIFO.
THEOREM PipelineQueueIsFifo == PipelineSpec => ImplementsFifo
  BY PipelineRunsTheRing, ImplementsBoundedFifo, PTL

\* Inside the pipeline, too, submit() refuses only when all slots are reserved
\* or another producer has overtaken the caller.
THEOREM PipelineRefusalJustified == PipelineSpec => RefusedOnlyIfFullOrRaced
  BY PipelineRunsTheRing, RefusalJustified, PTL
=============================================================================
