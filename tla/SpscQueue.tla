----------------------------- MODULE SpscQueue -----------------------------
(***************************************************************************)
(* The bounded single-producer single-consumer ring that carries reports   *)
(* and dirty connections to the gateway's I/O thread and market data to    *)
(* the routing thread.  Every access to an atomic is a step of its own.    *)
(*                                                                         *)
(* try_push: load head_; load tail_ and give up if the ring is full;       *)
(* construct the value; raise the high-water mark; store head_.  No CAS:   *)
(* that only one thread pushes is a promise of the caller, so Producers is *)
(* a parameter here and SingleProducer says that the promise is kept.      *)
(*                                                                         *)
(* try_pop: load head_; give up if the ring is empty; move the value out   *)
(* and destroy it; store tail_.                                            *)
(***************************************************************************)
EXTENDS Integers, Sequences

CONSTANTS
  Producers,   \* threads that call try_push
  Items,       \* values pushed
  MaxPushes,   \* bound: items pushed in all
  Capacity,    \* number of slots, a power of two
  SizeModulus, \* 2^64 in the code
  Destroyed    \* a slot whose storage holds no live object

ASSUME CapacityAssumption == Capacity \in Nat \ {0}

ASSUME PushesAssumption == MaxPushes \in Nat

ASSUME ModulusAssumption == SizeModulus \in Nat /\ SizeModulus > Capacity

ASSUME DestroyedAssumption == Destroyed \notin Items

SingleProducer == \A p, q \in Producers : p = q

VARIABLES
  head, tail, \* head_, tail_
  storage,    \* slot -> the object in it
  highWater,  \* high_water_mark_
  pc,         \* where each producer is in try_push
  value,      \* its argument
  seenHead,   \* its local `head`
  seenTail,   \* its local `tail`
  cpc,        \* where the consumer is in try_pop
  log,        \* history: items in the order of the stores of head_
  received    \* history: what try_pop moved out

ringVars == <<head, tail, storage, highWater>>
producerVars == <<pc, value, seenHead, seenTail>>
vars == <<ringVars, producerVars, cpc, log, received>>

Slots == 0..(Capacity - 1)

SlotOf(i) == i % Capacity

\* size_t subtraction.
Minus(a, b) == IF a >= b THEN a - b ELSE a - b + SizeModulus

Init ==
  /\ head = 0 /\ tail = 0
  /\ storage = [s \in Slots |-> Destroyed]
  /\ highWater = 0
  /\ pc = [p \in Producers |-> "idle"]
  /\ value = [p \in Producers |-> Destroyed]
  /\ seenHead = [p \in Producers |-> 0]
  /\ seenTail = [p \in Producers |-> 0]
  /\ cpc = "idle"
  /\ log = << >>
  /\ received = << >>
-----------------------------------------------------------------------------
(***************************************************************************)
(* try_push.                                                               *)
(***************************************************************************)
Goto(p, from, to) == pc[p] = from /\ pc' = [pc EXCEPT ![p] = to]

PushBegin(p, item) ==
  /\ Goto(p, "idle", "loadTail")
  /\ value' = [value EXCEPT ![p] = item]
  /\ seenHead' = [seenHead EXCEPT ![p] = head]
  /\ UNCHANGED <<ringVars, seenTail, cpc, log, received>>

\* Mutants of LooksFull: one slot too late, one slot too early.
LooksFullLate(p) == Minus(seenHead[p], tail) > Capacity

LooksFullEarly(p) == Minus(seenHead[p], tail) >= Capacity - 1

LooksFull(p) == Minus(seenHead[p], tail) >= Capacity

\* Returns false.
GiveUp(p) ==
  /\ Goto(p, "loadTail", "idle")
  /\ LooksFull(p)
  /\ seenTail' = [seenTail EXCEPT ![p] = tail]
  /\ UNCHANGED <<ringVars, value, seenHead, cpc, log, received>>

HasRoom(p) ==
  /\ Goto(p, "loadTail", "construct")
  /\ ~LooksFull(p)
  /\ seenTail' = [seenTail EXCEPT ![p] = tail]
  /\ UNCHANGED <<ringVars, value, seenHead, cpc, log, received>>

Construct(p) ==
  /\ Goto(p, "construct", "raiseMark")
  /\ storage' = [storage EXCEPT ![SlotOf(seenHead[p])] = value[p]]
  /\ UNCHANGED <<head, tail, highWater, value, seenHead, seenTail, cpc, log,
                 received>>

NewOccupancy(p) == Minus(seenHead[p] + 1, seenTail[p])

RaiseMark(p) ==
  /\ Goto(p, "raiseMark", "publish")
  /\ highWater' = IF NewOccupancy(p) > highWater THEN NewOccupancy(p)
                                                 ELSE highWater
  /\ UNCHANGED <<head, tail, storage, value, seenHead, seenTail, cpc, log,
                 received>>

\* Stores head_, which hands the slot to the consumer; returns true.
Publish(p) ==
  /\ Goto(p, "publish", "idle")
  /\ head' = seenHead[p] + 1
  /\ log' = Append(log, value[p])
  /\ UNCHANGED <<tail, storage, highWater, value, seenHead, seenTail, cpc,
                 received>>
-----------------------------------------------------------------------------
(***************************************************************************)
(* try_pop, on the one consumer thread.                                    *)
(***************************************************************************)
ConsumerGoto(from, to) == cpc = from /\ cpc' = to

IsEmpty == head = tail

PopEmpty == cpc = "idle" /\ IsEmpty /\ UNCHANGED vars

PopBegin ==
  /\ ConsumerGoto("idle", "take")
  /\ ~IsEmpty
  /\ UNCHANGED <<ringVars, producerVars, log, received>>

\* Moves the value out and destroys the object.
Take ==
  /\ ConsumerGoto("take", "advance")
  /\ received' = Append(received, storage[SlotOf(tail)])
  /\ storage' = [storage EXCEPT ![SlotOf(tail)] = Destroyed]
  /\ UNCHANGED <<head, tail, highWater, producerVars, log>>

\* Mutant of TailAfterPop: everything published in the meantime is skipped.
TailCatchesUp == head

TailAfterPop == tail + 1

\* Stores tail_, which gives the slot back to the producer.
AdvanceTail ==
  /\ ConsumerGoto("advance", "idle")
  /\ tail' = TailAfterPop
  /\ UNCHANGED <<head, storage, highWater, producerVars, log, received>>
-----------------------------------------------------------------------------
PushStep(p) ==
  \/ GiveUp(p) \/ HasRoom(p) \/ Construct(p) \/ RaiseMark(p) \/ Publish(p)

PopStep == PopBegin \/ Take \/ AdvanceTail

Next ==
  \/ \E p \in Producers :
       \/ Len(log) < MaxPushes /\ \E item \in Items : PushBegin(p, item)
       \/ PushStep(p)
  \/ PopStep
  \/ PopEmpty

Spec == Init /\ [][Next]_vars
-----------------------------------------------------------------------------
(***************************************************************************)
(* Properties.                                                             *)
(***************************************************************************)
TypeOK ==
  /\ head \in Nat /\ tail \in Nat
  /\ storage \in [Slots -> Items \cup {Destroyed}]
  /\ highWater \in Nat
  /\ pc \in [Producers -> {"idle", "loadTail", "construct", "raiseMark",
                           "publish"}]
  /\ value \in [Producers -> Items \cup {Destroyed}]
  /\ seenHead \in [Producers -> Nat]
  /\ seenTail \in [Producers -> Nat]
  /\ cpc \in {"idle", "take", "advance"}
  /\ log \in Seq(Items)
  /\ received \in Seq(Items)

\* "The consumer never observes a slot before it's fully constructed -- and
\* symmetrically": the producer constructs only over a destroyed object, in a
\* slot the consumer is not moving out of.
NoSlotRace ==
  \A p \in Producers :
    /\ pc[p] = "construct" => storage[SlotOf(seenHead[p])] = Destroyed
    /\ pc[p] \in {"construct", "raiseMark", "publish"} /\ cpc # "idle"
         => SlotOf(seenHead[p]) # SlotOf(tail)

Inside == SubSeq(log, Len(received) + 1, Len(log))

Fifo == INSTANCE BoundedFifo WITH queue <- Inside, delivered <- received

\* Seen at the store of head_ and at the move-out, the ring is a bounded FIFO:
\* nothing is lost, duplicated, torn or reordered.
ImplementsFifo == Fifo!FifoSpec

\* The high-water mark has seen every occupancy the consumer could have left
\* behind: it is at least the current one and never more than the capacity.
HighWaterBounds == head - tail <= highWater /\ highWater <= Capacity

\* "Returns false ... if the queue is currently full", and only then.
FullMeansFull ==
  [][\A p \in Producers : GiveUp(p) => head - tail = Capacity]_vars
=============================================================================
