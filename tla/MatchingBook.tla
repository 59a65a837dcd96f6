---------------------------- MODULE MatchingBook ----------------------------
(***************************************************************************)
(* MatchingBook as it is built: one slab of orders linked by index into    *)
(* the queues of their price levels, freed slots threaded into a free      *)
(* list, and per side a tick ladder over a band of prices with a bitmap of *)
(* three levels, and a map for the prices outside the band.                *)
(*                                                                         *)
(* A word of the bitmap has WordBits bits, a power of two (64 in the       *)
(* code), and is the set of its set bits.  A ladder entry exists only      *)
(* while its tick is occupied: the code leaves the rest uninitialised, so  *)
(* reading one is an error here; so is reading what a freed slot held.     *)
(* Slots count from 1 and kNil is 0.  The caller holds the handle of every *)
(* resting order and only uses live ones.                                  *)
(*                                                                         *)
(* The variable queues of PriceTimeBook runs in step with the operations:  *)
(* it is the book that was promised, and the code never reads it.          *)
(***************************************************************************)
EXTENDS PriceTimeBook, Functions

CONSTANTS
  Ids,         \* client order ids
  Quantities,
  Bands,       \* the widths band_for() may have chosen; 0 is no ladder
  WordBits

ASSUME BookAssumption ==
  /\ Prices \subseteq Nat \ {0} /\ Quantities \subseteq Nat \ {0}
  /\ Bands \subseteq Nat /\ WordBits \in Nat \ {0, 1}

VARIABLES
  slab,      \* slab_: slot -> [order, next, prev]
  freeHead,  \* free_head_
  liveCount, \* live_count_
  band,      \* band_ticks_, fixed when the book is made
  index      \* side -> SideIndex

bookVars == <<slab, freeHead, liveCount, band, index>>

vars == <<bookVars, queues>>

Sides == {"Buy", "Sell"}

Nil == 0

NoOrder == [id |-> Nil]

EmptyIndex ==
  [anchored |-> FALSE, base |-> 0, occupancy |-> {}, mid_summary |-> {},
   summary |-> {}, ladder |-> << >>, overflow |-> << >>]

Init ==
  /\ slab = << >> /\ freeHead = Nil /\ liveCount = 0
  /\ band \in Bands
  /\ index = [side \in Sides |-> EmptyIndex]
  /\ QueuesInit
-----------------------------------------------------------------------------
(***************************************************************************)
(* The occupancy bitmap.  "First" is the best price of the side, "past" is *)
(* worse than: bids search it downwards, asks upwards.                     *)
(***************************************************************************)
Word(n) == n \div WordBits

First(side, S) == IF side = "Buy" THEN Max(S) ELSE Min(S)

Past(side, S, n) == {m \in S : IF side = "Buy" THEN m < n ELSE m > n}

\* The ticks set in one bottom word, and the words set in one middle word.
Bits(S, word) == {n \in S : Word(n) = word}

SetOccupied(s, tick) ==
  [s EXCEPT !.occupancy = @ \cup {tick},
            !.mid_summary = @ \cup {Word(tick)},
            !.summary = @ \cup {Word(Word(tick))}]

\* Mutant of ClearOccupied: emptying any word clears the whole summary bit.
ClearOccupiedTooFar(s, tick) ==
  LET occupancy == s.occupancy \ {tick}
      emptied   == Bits(occupancy, Word(tick)) = {}
  IN  [s EXCEPT
         !.occupancy = occupancy,
         !.mid_summary = IF emptied THEN @ \ {Word(tick)} ELSE @,
         !.summary = IF emptied THEN @ \ {Word(Word(tick))} ELSE @]

ClearOccupied(s, tick) ==
  LET occupancy == s.occupancy \ {tick}
      emptied   == Bits(occupancy, Word(tick)) = {}
      middle    == IF emptied THEN s.mid_summary \ {Word(tick)} ELSE s.mid_summary
  IN  [s EXCEPT
         !.occupancy = occupancy,
         !.mid_summary = middle,
         !.summary = IF emptied /\ Bits(middle, Word(Word(tick))) = {}
                     THEN @ \ {Word(Word(tick))} ELSE @]

\* highest_occupied and lowest_occupied below a non-empty set of middle words.
DescendFrom(side, s, mids) ==
  LET word == First(side, Bits(s.mid_summary, First(side, mids)))
  IN  First(side, Bits(s.occupancy, word))

BestOccupied(side, s) == IF s.summary = {} THEN band
                         ELSE DescendFrom(side, s, s.summary)

\* highest_occupied_below and lowest_occupied_above.
NextOccupied(side, s, tick) ==
  LET inWord == Past(side, Bits(s.occupancy, Word(tick)), tick)
      inMid  == Past(side, Bits(s.mid_summary, Word(Word(tick))), Word(tick))
      mids   == Past(side, s.summary, Word(Word(tick)))
  IN  IF inWord # {} THEN First(side, inWord)
      ELSE IF inMid # {}
      THEN First(side, Bits(s.occupancy, First(side, inMid)))
      ELSE IF mids = {} THEN band ELSE DescendFrom(side, s, mids)
-----------------------------------------------------------------------------
(***************************************************************************)
(* SideIndex.                                                              *)
(***************************************************************************)
IsEmpty(s) == s.summary = {} /\ DOMAIN s.overflow = {}

InBand(s, p) == s.anchored /\ p - s.base \in 0..(band - 1)

Tick(s, p) == p - s.base

Anchor(s, p) == [s EXCEPT !.base = p - (band \div 2), !.anchored = TRUE]

Insert(map, k, v) == [x \in DOMAIN map \cup {k} |-> IF x = k THEN v ELSE map[x]]

Without(map, k) == [x \in DOMAIN map \ {k} |-> map[x]]

PutLevel(s, p, level) ==
  IF InBand(s, p) THEN [s EXCEPT !.ladder = Insert(@, Tick(s, p), level)]
                  ELSE [s EXCEPT !.overflow = Insert(@, p, level)]

LevelAt(s, p) == IF InBand(s, p) THEN s.ladder[Tick(s, p)] ELSE s.overflow[p]

HasLevel(s, p) == IF InBand(s, p) THEN Tick(s, p) \in s.occupancy
                                  ELSE p \in DOMAIN s.overflow

\* Mutant of LevelFor: a price outside the band moves the band to it.
LevelForSliding(s, p) ==
  LET a == IF band # 0 /\ ~InBand(s, p) THEN Anchor(s, p) ELSE s
      b == IF InBand(a, p) THEN SetOccupied(a, Tick(a, p)) ELSE a
  IN  IF HasLevel(a, p) THEN a ELSE PutLevel(b, p, [head |-> Nil, tail |-> Nil])

\* level_for: an empty side anchors its band on the price, then the level is
\* created if the price has none.
LevelFor(s, p) ==
  LET a == IF band # 0 /\ (~s.anchored \/ IsEmpty(s)) THEN Anchor(s, p) ELSE s
      b == IF InBand(a, p) THEN SetOccupied(a, Tick(a, p)) ELSE a
  IN  IF HasLevel(a, p) THEN a ELSE PutLevel(b, p, [head |-> Nil, tail |-> Nil])

EraseLevel(s, p) ==
  IF InBand(s, p)
  THEN [ClearOccupied(s, Tick(s, p)) EXCEPT !.ladder = Without(@, Tick(s, p))]
  ELSE [s EXCEPT !.overflow = Without(@, p)]

\* Mutant of BestPrice: the ladder is preferred to the map.
BestPriceInBand(side) ==
  LET s == index[side]
      tick == BestOccupied(side, s)
  IN  IF tick = band THEN First(side, DOMAIN s.overflow) ELSE s.base + tick

BestPrice(side) ==
  LET s == index[side]
      tick == BestOccupied(side, s)
  IN  First(side, DOMAIN s.overflow
                    \cup (IF tick = band THEN {} ELSE {s.base + tick}))

\* next_price: the nearer of the next level in the ladder and in the map.
\* The result is empty when the walk is over.
NextPrice(side, p) ==
  LET s    == index[side]
      last == s.base + band - 1
      tick ==
        IF ~s.anchored \/ s.summary = {} THEN band
        ELSE IF (IF side = "Buy" THEN p > last ELSE p < s.base)
        THEN BestOccupied(side, s)
        ELSE IF (IF side = "Buy" THEN p <= s.base ELSE p >= last) THEN band
        ELSE NextOccupied(side, s, Tick(s, p))
      candidates == Past(side, DOMAIN s.overflow, p)
                      \cup (IF tick = band THEN {} ELSE {s.base + tick})
  IN  IF candidates = {} THEN {} ELSE {First(side, candidates)}
-----------------------------------------------------------------------------
(***************************************************************************)
(* The slab, the free list and the queues.                                 *)
(***************************************************************************)
LinkBack(orders, level, slot) ==
  [n \in DOMAIN orders |->
     CASE n = slot -> [orders[n] EXCEPT !.next = Nil, !.prev = level.tail]
       [] n = level.tail -> [orders[n] EXCEPT !.next = slot]
       [] OTHER -> orders[n]]

\* add(): the slot first, then the level.
Add(order) ==
  LET reuse == freeHead # Nil
      slot  == IF reuse THEN freeHead ELSE Len(slab) + 1
      taken == IF reuse THEN [slab EXCEPT ![slot].order = order]
               ELSE Append(slab, [order |-> order, next |-> Nil, prev |-> Nil])
      side  == LevelFor(index[order.side], order.price)
      level == LevelAt(side, order.price)
  IN  /\ slab' = LinkBack(taken, level, slot)
      /\ freeHead' = IF reuse THEN slab[slot].next ELSE Nil
      /\ liveCount' = liveCount + 1
      /\ index' = [index EXCEPT ![order.side] =
                     PutLevel(side, order.price,
                       [head |-> IF level.tail = Nil THEN slot ELSE level.head,
                        tail |-> slot])]
      /\ UNCHANGED band

UnlinkedLevel(level, slot) ==
  [head |-> IF slab[slot].prev = Nil THEN slab[slot].next ELSE level.head,
   tail |-> IF slab[slot].next = Nil THEN slab[slot].prev ELSE level.tail]

\* unlink and release_slot, on the slab.
Released(slot) ==
  LET gone == slab[slot]
  IN  [n \in DOMAIN slab |->
         CASE n = slot -> [order |-> NoOrder, next |-> freeHead, prev |-> Nil]
           [] n # slot /\ n = gone.prev -> [slab[n] EXCEPT !.next = gone.next]
           [] n # slot /\ n = gone.next -> [slab[n] EXCEPT !.prev = gone.prev]
           [] OTHER -> slab[n]]

\* Mutant of Remove: the slot is not put on the free list.
RemoveAndLeak(side, price, slot) ==
  LET s     == index[side]
      level == UnlinkedLevel(LevelAt(s, price), slot)
  IN  /\ slab' = Released(slot)
      /\ UNCHANGED freeHead
      /\ liveCount' = liveCount - 1
      /\ index' = [index EXCEPT ![side] =
                     IF level.head = Nil THEN EraseLevel(s, price)
                                         ELSE PutLevel(s, price, level)]
      /\ UNCHANGED band

Remove(side, price, slot) ==
  LET s     == index[side]
      level == UnlinkedLevel(LevelAt(s, price), slot)
  IN  /\ slab' = Released(slot)
      /\ freeHead' = slot
      /\ liveCount' = liveCount - 1
      /\ index' = [index EXCEPT ![side] =
                     IF level.head = Nil THEN EraseLevel(s, price)
                                         ELSE PutLevel(s, price, level)]
      /\ UNCHANGED band

RemoveAt(slot) == Remove(slab[slot].order.side, slab[slot].order.price, slot)

FrontOfBest(side) == LevelAt(index[side], BestPrice(side)).head

RemoveFront(side) ==
  /\ ~IsEmpty(index[side])
  /\ Remove(side, BestPrice(side), FrontOfBest(side))

\* reduce_at and set_client_order_id_at: the queue position is kept.
EditAt(slot, id, q) ==
  /\ slab' = [slab EXCEPT ![slot].order.id = id, ![slot].order.quantity = q]
  /\ UNCHANGED <<freeHead, liveCount, band, index>>

ReduceFront(side, q) ==
  /\ ~IsEmpty(index[side])
  /\ q < slab[FrontOfBest(side)].order.quantity
  /\ EditAt(FrontOfBest(side), slab[FrontOfBest(side)].order.id, q)
-----------------------------------------------------------------------------
(***************************************************************************)
(* Walks over the links, at most as long as the slab.                      *)
(***************************************************************************)
Chain(start) ==
  LET nth[n \in 1..Len(slab)] ==
        IF n = 1 THEN start
        ELSE LET slot == nth[n - 1] IN IF slot = Nil THEN Nil ELSE slab[slot].next
  IN  IF slab = << >> THEN << >> ELSE SelectSeq(nth, LAMBDA slot : slot # Nil)

Queue(side, p) ==
  IF HasLevel(index[side], p) THEN Chain(LevelAt(index[side], p).head) ELSE << >>

Live == UNION {Range(Queue(side, p)) : side \in Sides, p \in Prices}

\* crossable_quantity: level by level until the price no longer crosses or
\* the quantity is covered.
CrossableQuantity(side, limit, quantity) ==
  LET Sum(p) == MapThenSumSet(LAMBDA slot : slab[slot].order.quantity,
                              Range(Queue(side, p)))
      walk[n \in 0..Cardinality(Prices)] ==
        IF n = 0 THEN [total |-> 0, at |-> {BestPrice(side)}]
        ELSE LET w == walk[n - 1]
             IN  IF \/ w.at = {} \/ w.total >= quantity
                    \/ Past(side, w.at, limit) # {}
                 THEN w
                 ELSE [total |-> w.total + MapThenSumSet(Sum, w.at),
                       at    |-> UNION {NextPrice(side, p) : p \in w.at}]
  IN  IF IsEmpty(index[side]) THEN 0 ELSE walk[Cardinality(Prices)].total

FreeIds == Ids \ {slab[slot].order.id : slot \in Live}

Order == [id : Ids, side : Sides, price : Prices, quantity : Quantities]

Next ==
  \/ \E order \in Order :
       /\ order.id \in FreeIds
       /\ Add(order)
       /\ Join(<<order.side, order.price>>, order.id, order.quantity)
  \/ \E slot \in Live : RemoveAt(slot) /\ Leave(slab[slot].order.id)
  \/ \E slot \in Live, q \in Quantities :
       \E id \in FreeIds \cup {slab[slot].order.id} :
         /\ q <= slab[slot].order.quantity
         /\ EditAt(slot, id, q)
         /\ Edit(slab[slot].order.id, [id |-> id, quantity |-> q])
  \/ \E side \in Sides :
       \/ RemoveFront(side) /\ LeaveFront(side)
       \/ \E q \in Quantities : ReduceFront(side, q) /\ ReduceFirst(side, q)

Spec == Init /\ [][Next]_vars
-----------------------------------------------------------------------------
(***************************************************************************)
(* Properties.                                                             *)
(***************************************************************************)
\* Slots, links, ladder, bitmap and map together are price-time priority: the
\* chain of every level holds the orders of its queue, first come first.
ChainsAreQueues ==
  \A side \in Sides, p \in Prices :
    LET chain == Queue(side, p)
    IN  queues[<<side, p>>] =
          [j \in DOMAIN chain |-> [id       |-> slab[chain[j]].order.id,
                                   quantity |-> slab[chain[j]].order.quantity]]

\* best_price and next_price, through the bitmap's summaries and the merge of
\* ladder and map, visit exactly the prices at which orders rest, best first,
\* wherever the band was anchored.
WalkVisitsEveryLevel ==
  \A side \in Sides :
    /\ IsEmpty(index[side]) <=> Occupied(side) = {}
    /\ Occupied(side) # {} => BestPrice(side) = Best(side)[2]
    /\ \A p \in Occupied(side) :
         LET worse == Past(side, Occupied(side), p)
         IN  NextPrice(side, p) =
               IF worse = {} THEN {} ELSE {First(side, worse)}

\* "A book that cancels as fast as it rests reuses a bounded set of slots
\* forever": every slot is in one queue or once on the free list, and the
\* slab is no longer than the most orders that ever rested together.
SlotsAccounted ==
  /\ Live \cap Range(Chain(freeHead)) = {}
  /\ Live \cup Range(Chain(freeHead)) = DOMAIN slab
  /\ liveCount = Cardinality(Live)
  /\ Len(slab) <= Cardinality(Ids)

\* FOK's pre-check, which walks levels and stops early, covers a quantity
\* exactly when the orders at the limit or better do.
FokCheckIsExact ==
  \A side \in Sides, limit \in Prices, q \in Quantities :
    LET Quantity(p) == FoldFunction(LAMBDA o, n : o.quantity + n, 0, queues[<<side, p>>])
        crossing == {p \in Prices : p = limit \/ Past(side, {limit}, p) # {}}
    IN  CrossableQuantity(side, limit, q) >= q
          <=> MapThenSumSet(Quantity, crossing) >= q
=============================================================================
