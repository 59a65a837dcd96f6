----------------------------- MODULE MpscQueue -----------------------------
(***************************************************************************)
(* The bounded multi-producer single-consumer ring that carries commands   *)
(* from the gateway to the matching thread.  Every atomic access is a step *)
(* of its own, so producers and the consumer interleave anywhere.          *)
(*                                                                         *)
(* try_push: load head_; load tail_ and give up if the ring looks full;    *)
(* claim the ticket with a CAS; construct the value; publish the slot's    *)
(* ticket; then update the high-water mark.  try_pop: read the published   *)
(* ticket, move the value out, clear the ticket, advance tail_.            *)
(*                                                                         *)
(* Tickets are size_t; they never get near 2^64, but a difference of two   *)
(* tickets is taken modulo 2^64 and does wrap.                             *)
(***************************************************************************)
EXTENDS Integers, Sequences, FiniteSets

CONSTANTS
  Producers,  \* threads that call try_push
  MaxPushes,  \* bound: calls of try_push per producer
  Capacity,   \* number of slots, a power of two
  SizeModulus,\* 2^64 in the code
  Destroyed   \* a slot whose storage holds no live object

ASSUME CapacityAssumption == Capacity \in Nat \ {0}

ASSUME PushesAssumption == MaxPushes \in Nat

ASSUME ModulusAssumption == SizeModulus \in Nat /\ SizeModulus > Capacity

\* The n-th value producer p hands to try_push.
Items == Producers \X (1..MaxPushes)

ASSUME DestroyedAssumption == Destroyed \notin Items

VARIABLES
  head, tail,  \* head_, tail_
  storage,     \* slot -> the object constructed in it
  published,   \* slot -> ticket + 1, or 0
  highWater,   \* high_water_mark_
  pc,          \* where each producer is in try_push
  ticket,      \* its local `head`
  occupancy,   \* its local `occupancy`
  pushes,      \* try_push calls it has begun
  cpc,         \* where the consumer is in try_pop
  log,         \* history: items in the order of successful reservations
  received     \* history: items in the order try_pop returned them

queueVars == <<head, tail, storage, published, highWater>>
producerVars == <<pc, ticket, occupancy, pushes>>
vars == <<queueVars, producerVars, cpc, log, received>>

Slots == 0..(Capacity - 1)

SlotOf(t) == t % Capacity

\* size_t subtraction of two tickets.
Minus(a, b) == IF a >= b THEN a - b ELSE a - b + SizeModulus

Item(p) == <<p, pushes[p]>>

Init ==
  /\ head = 0 /\ tail = 0
  /\ storage = [s \in Slots |-> Destroyed]
  /\ published = [s \in Slots |-> 0]
  /\ highWater = 0
  /\ pc = [p \in Producers |-> "idle"]
  /\ ticket = [p \in Producers |-> 0]
  /\ occupancy = [p \in Producers |-> 0]
  /\ pushes = [p \in Producers |-> 0]
  /\ cpc = "idle"
  /\ log = << >>
  /\ received = << >>
-----------------------------------------------------------------------------
(***************************************************************************)
(* try_push.                                                               *)
(***************************************************************************)
Goto(p, from, to) == pc[p] = from /\ pc' = [pc EXCEPT ![p] = to]

LoadHead(p) ==
  /\ Goto(p, "idle", "loadTail")
  /\ pushes[p] < MaxPushes
  /\ pushes' = [pushes EXCEPT ![p] = @ + 1]
  /\ ticket' = [ticket EXCEPT ![p] = head]
  /\ UNCHANGED <<queueVars, occupancy, cpc, log, received>>

\* Mutants of LooksFull: one slot too late, one slot too early.
LooksFullLate(p) == Minus(ticket[p], tail) > Capacity

LooksFullEarly(p) == Minus(ticket[p], tail) >= Capacity - 1

LooksFull(p) == Minus(ticket[p], tail) >= Capacity

\* Returns false; the value stays with the caller.
GiveUp(p) ==
  /\ Goto(p, "loadTail", "idle")
  /\ LooksFull(p)
  /\ UNCHANGED <<queueVars, ticket, occupancy, pushes, cpc, log, received>>

HasRoom(p) ==
  /\ Goto(p, "loadTail", "cas")
  /\ ~LooksFull(p)
  /\ UNCHANGED <<queueVars, ticket, occupancy, pushes, cpc, log, received>>

\* Mutant of Reserve: a plain store instead of the CAS.
ReserveByStore(p) ==
  /\ Goto(p, "cas", "construct")
  /\ head' = ticket[p] + 1
  /\ log' = Append(log, Item(p))
  /\ UNCHANGED <<tail, storage, published, highWater, ticket, occupancy,
                 pushes, cpc, received>>

\* compare_exchange_weak succeeds: ticket[p] is p's, and p's alone.
Reserve(p) ==
  /\ Goto(p, "cas", "construct")
  /\ head = ticket[p]
  /\ head' = head + 1
  /\ log' = Append(log, Item(p))
  /\ UNCHANGED <<tail, storage, published, highWater, ticket, occupancy,
                 pushes, cpc, received>>

\* It fails, because head_ moved or spuriously, and reloads head.
Retry(p) ==
  /\ Goto(p, "cas", "loadTail")
  /\ ticket' = [ticket EXCEPT ![p] = head]
  /\ UNCHANGED <<queueVars, occupancy, pushes, cpc, log, received>>

Construct(p) ==
  /\ Goto(p, "construct", "publish")
  /\ storage' = [storage EXCEPT ![SlotOf(ticket[p])] = Item(p)]
  /\ UNCHANGED <<head, tail, published, highWater, ticket, occupancy, pushes,
                 cpc, log, received>>

Publish(p) ==
  /\ Goto(p, "publish", "loadOccupancy")
  /\ published' = [published EXCEPT ![SlotOf(ticket[p])] = ticket[p] + 1]
  /\ UNCHANGED <<head, tail, storage, highWater, ticket, occupancy, pushes,
                 cpc, log, received>>

LoadOccupancy(p) ==
  /\ Goto(p, "loadOccupancy", "raiseMark")
  /\ occupancy' = [occupancy EXCEPT ![p] = Minus(ticket[p] + 1, tail)]
  /\ UNCHANGED <<queueVars, ticket, pushes, cpc, log, received>>

\* The CAS loop on high_water_mark_ amounts to an atomic maximum.
RaiseMark(p) ==
  /\ Goto(p, "raiseMark", "idle")
  /\ highWater' = IF occupancy[p] > highWater THEN occupancy[p] ELSE highWater
  /\ UNCHANGED <<head, tail, storage, published, ticket, occupancy, pushes,
                 cpc, log, received>>
-----------------------------------------------------------------------------
(***************************************************************************)
(* try_pop, on the one consumer thread.                                    *)
(***************************************************************************)
ConsumerGoto(from, to) == cpc = from /\ cpc' = to

IsPublished == published[SlotOf(tail)] = tail + 1

\* Returns nullopt: nothing reserved, or the reservation is not published.
PopEmpty == cpc = "idle" /\ ~IsPublished /\ UNCHANGED vars

PopBegin ==
  /\ ConsumerGoto("idle", "take")
  /\ IsPublished
  /\ UNCHANGED <<queueVars, producerVars, log, received>>

\* Moves the value out and destroys the object.
Take ==
  /\ ConsumerGoto("take", "clear")
  /\ received' = Append(received, storage[SlotOf(tail)])
  /\ storage' = [storage EXCEPT ![SlotOf(tail)] = Destroyed]
  /\ UNCHANGED <<head, tail, published, highWater, producerVars, log>>

ClearTicket ==
  /\ ConsumerGoto("clear", "advance")
  /\ published' = [published EXCEPT ![SlotOf(tail)] = 0]
  /\ UNCHANGED <<head, tail, storage, highWater, producerVars, log, received>>

AdvanceTail ==
  /\ ConsumerGoto("advance", "idle")
  /\ tail' = tail + 1
  /\ UNCHANGED <<head, storage, published, highWater, producerVars, log,
                 received>>
-----------------------------------------------------------------------------
PushStep(p) ==
  \/ GiveUp(p) \/ HasRoom(p) \/ Reserve(p) \/ Retry(p)
  \/ Construct(p) \/ Publish(p) \/ LoadOccupancy(p) \/ RaiseMark(p)

PopStep == PopBegin \/ Take \/ ClearTicket \/ AdvanceTail

Next ==
  \/ \E p \in Producers : LoadHead(p) \/ PushStep(p)
  \/ PopStep
  \/ PopEmpty

Spec == Init /\ [][Next]_vars
-----------------------------------------------------------------------------
(***************************************************************************)
(* Properties.                                                             *)
(***************************************************************************)
PushStates == {"idle", "loadTail", "cas", "construct", "publish",
               "loadOccupancy", "raiseMark"}

TypeOK ==
  /\ head \in Nat /\ tail \in Nat
  /\ storage \in [Slots -> Items \cup {Destroyed}]
  /\ published \in [Slots -> Nat]
  /\ highWater \in Nat
  /\ pc \in [Producers -> PushStates]
  /\ ticket \in [Producers -> Nat]
  /\ occupancy \in [Producers -> Int]
  /\ pushes \in [Producers -> 0..MaxPushes]
  /\ cpc \in {"idle", "take", "clear", "advance"}
  /\ log \in Seq(Items)
  /\ received \in Seq(Items)

\* A producer that holds a ticket but has not published it.
Writing(p) == pc[p] \in {"construct", "publish"}

\* No producer constructs over a live object, and nobody else -- producer or
\* consumer -- is inside the slot it is writing.
NoSlotRace ==
  \A p \in Producers :
    /\ pc[p] = "construct" => storage[SlotOf(ticket[p])] = Destroyed
    /\ Writing(p) =>
         /\ cpc = "take" => SlotOf(ticket[p]) # SlotOf(tail)
         /\ \A q \in Producers \ {p} :
              Writing(q) => SlotOf(ticket[p]) # SlotOf(ticket[q])

Inside == SubSeq(log, Len(received) + 1, Len(log))

Fifo == INSTANCE BoundedFifo WITH queue <- Inside, delivered <- received

\* "FIFO order is the order of successful reservations": the ring, seen at the
\* reservation and at the move-out, is a bounded FIFO; nothing is lost,
\* duplicated, torn or reordered.
ImplementsFifo == Fifo!FifoSpec

\* "Returns false ... if the queue is currently full": try_push gives up only
\* when all slots are reserved, or when another producer has pushed since it
\* loaded head_ (then head - tail may even have wrapped).
RefusedOnlyIfFullOrRaced ==
  [][\A p \in Producers :
       GiveUp(p) => head - tail = Capacity \/ head # ticket[p]]_vars
=============================================================================
