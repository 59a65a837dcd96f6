------------------------ MODULE RiskGatedEngineProofs ------------------------
(***************************************************************************)
(* Proofs about the exchange core - the matching engine, the risk check    *)
(* before it and the ledger behind it - for any accounts, ids,             *)
(* instruments, prices and quantities.                                     *)
(*                                                                         *)
(* The engine: each level queue is the strictly ascending sequence of the  *)
(* handles of the slab at that level (Linked), which the three edits of a  *)
(* book - append, unlink, pop the front - keep.  The book then stays       *)
(* uncrossed because an order rests only when the loop is over, and the    *)
(* loop is over only when no contra order is within its limit.  For a      *)
(* fill-or-kill order FokCovered carries the pre-check through the loop:   *)
(* an iteration takes the same quantity from the order and from the sum of *)
(* what it can still trade with.  EngineInv is inductive whatever ids      *)
(* clients reuse; DirectoryInv needs FreshReplaceIds, in one place: the    *)
(* key a replaced order moves to must not be another live order's.         *)
(*                                                                         *)
(* The ledger: its handlers are first reduced to their effect              *)
(* on what is free, what is reserved and the table of holds (ReserveEffect *)
(* to TradeEffect); reserved balances are sums over the table, and follow  *)
(* it by the lemmas of CommonLemmas.  LedgerInv then says that the table   *)
(* mirrors the live GTC orders, that nothing free is negative, and that    *)
(* the order being matched, if no hold stands behind it, is covered by     *)
(* what is free (IncomingCovered).  Without that last part NeverOverdrawn  *)
(* is not inductive: the risk check is made once, before a loop of trades. *)
(***************************************************************************)
EXTENDS RiskGatedEngine, CommonLemmas

-----------------------------------------------------------------------------
(***************************************************************************)
(* Queues of handles.                                                      *)
(***************************************************************************)
Members(queue) == {queue[j] : j \in DOMAIN queue}

Sorted(queue) == \A j, k \in DOMAIN queue : j < k => queue[j] < queue[k]

\* A queue is empty exactly when nothing is in it; its head is in it.
LEMMA QueueMembers ==
  ASSUME NEW S, NEW queue \in Seq(S)
  PROVE  /\ Members(queue) \subseteq S
         /\ queue = << >> <=> Members(queue) = {}
         /\ queue # << >> => Head(queue) \in Members(queue)
<1>1. DOMAIN queue = 1..Len(queue) /\ Len(queue) \in Nat
  BY LenProperties
<1>2. queue # << >> => Len(queue) > 0 /\ Head(queue) = queue[1] /\ 1 \in DOMAIN queue
  BY <1>1, EmptySeq, HeadTailProperties
<1>3. \A j \in DOMAIN queue : queue[j] \in S
  BY <1>1, ElementOfSeq
<1>4. queue = << >> => DOMAIN queue = {}
  BY <1>1
<1> QED
  BY <1>2, <1>3, <1>4 DEF Members

\* Taking the head off a sorted queue removes that handle only.
LEMMA TailQueue ==
  ASSUME NEW S, S \subseteq Int, NEW queue \in Seq(S), Sorted(queue),
         queue # << >>
  PROVE  /\ Tail(queue) \in Seq(S)
         /\ Sorted(Tail(queue))
         /\ Members(Tail(queue)) = Members(queue) \ {Head(queue)}
<1> DEFINE shorter == Tail(queue)
           n == Len(queue)
<1>1. /\ shorter \in Seq(S) /\ n \in Nat /\ n > 0
      /\ DOMAIN queue = 1..n /\ DOMAIN shorter = 1..(n - 1)
      /\ \A j \in 1..n : queue[j] \in S
      /\ \A j \in 1..(n - 1) : shorter[j] = queue[j + 1]
      /\ Head(queue) = queue[1]
  BY HeadTailProperties, LenProperties, ElementOfSeq, EmptySeq
<1> HIDE DEF shorter, n
<1>2. Sorted(shorter)
  <2> SUFFICES ASSUME NEW i \in 1..(n - 1), NEW j \in 1..(n - 1), i < j
               PROVE  shorter[i] < shorter[j]
    BY <1>1 DEF Sorted
  <2>1. i + 1 \in 1..n /\ j + 1 \in 1..n /\ i + 1 < j + 1
    BY <1>1
  <2> QED
    BY <1>1, <2>1 DEF Sorted
<1>3. ASSUME NEW x
      PROVE  x \in Members(shorter) <=> x \in Members(queue) \ {queue[1]}
  <2>1. ASSUME x \in Members(shorter)
        PROVE  x \in Members(queue) \ {queue[1]}
    <3>1. PICK j \in 1..(n - 1) : x = queue[j + 1]
      BY <1>1, <2>1 DEF Members
    <3>2. 1 \in 1..n /\ j + 1 \in 1..n /\ 1 < j + 1
      BY <1>1
    <3>3. queue[1] < queue[j + 1] /\ queue[1] \in Int /\ queue[j + 1] \in Int
      BY <1>1, <3>2 DEF Sorted
    <3>4. x \in Members(queue)
      BY <1>1, <3>1, <3>2 DEF Members
    <3> QED
      BY <3>1, <3>3, <3>4
  <2>2. ASSUME x \in Members(queue) \ {queue[1]}
        PROVE  x \in Members(shorter)
    <3>1. PICK j \in 1..n : x = queue[j]
      BY <1>1, <2>2 DEF Members
    <3>2. j - 1 \in 1..(n - 1) /\ x = shorter[j - 1]
      BY <1>1, <2>2, <3>1
    <3> QED
      BY <1>1, <3>2 DEF Members
  <2> QED
    BY <2>1, <2>2
<1> QED
  BY <1>1, <1>2, <1>3 DEF shorter

\* Unlinking removes one handle and keeps the others in order.
LEMMA UnlinkQueue ==
  ASSUME NEW S, S \subseteq Int, NEW queue \in Seq(S), Sorted(queue),
         NEW h \in Members(queue)
  PROVE  /\ Unlink(queue, h) \in Seq(S)
         /\ Sorted(Unlink(queue, h))
         /\ Members(Unlink(queue, h)) = Members(queue) \ {h}
<1> DEFINE n == Len(queue)
           k == CHOOSE j \in DOMAIN queue : queue[j] = h
           shorter == [j \in 1..(n - 1) |->
                         IF j < k THEN queue[j] ELSE queue[j + 1]]
<1>1. n \in Nat /\ DOMAIN queue = 1..n /\ \A j \in 1..n : queue[j] \in S
  BY LenProperties, ElementOfSeq
<1>2. k \in 1..n /\ queue[k] = h
  BY <1>1 DEF Members
<1>3. shorter = Unlink(queue, h)
  BY DEF Unlink
<1> HIDE DEF k
<1>4. shorter \in Seq(S)
  <2>1. n - 1 \in Nat /\ \A j \in 1..(n - 1) : shorter[j] \in S
    BY <1>1, <1>2
  <2> QED
    BY <2>1, IsASeq
<1>5. /\ DOMAIN shorter = 1..(n - 1)
      /\ \A j \in 1..(n - 1) : j < k => shorter[j] = queue[j]
      /\ \A j \in 1..(n - 1) : j >= k => shorter[j] = queue[j + 1]
  BY <1>1, <1>2
<1> HIDE DEF n, shorter
<1>6. \A i, j \in 1..n : i < j => queue[i] < queue[j]
  BY <1>1 DEF Sorted
<1>7. Sorted(shorter)
  <2> SUFFICES ASSUME NEW i \in 1..(n - 1), NEW j \in 1..(n - 1), i < j
               PROVE  shorter[i] < shorter[j]
    BY <1>5 DEF Sorted
  <2>1. i \in 1..n /\ i + 1 \in 1..n /\ j \in 1..n /\ j + 1 \in 1..n
    BY <1>1
  <2>2. CASE j < k
    BY <1>2, <1>5, <1>6, <2>1, <2>2
  <2>3. CASE j >= k /\ i < k
    BY <1>2, <1>5, <1>6, <2>1, <2>3
  <2>4. CASE i >= k
    BY <1>2, <1>5, <1>6, <2>1, <2>4
  <2> QED
    BY <1>2, <2>2, <2>3, <2>4
<1>8. ASSUME NEW x
      PROVE  x \in Members(shorter) <=> x \in Members(queue) \ {h}
  <2>1. ASSUME x \in Members(shorter)
        PROVE  x \in Members(queue) \ {h}
    <3>1. PICK j \in 1..(n - 1) : x = shorter[j]
      BY <1>5, <2>1 DEF Members
    <3>2. PICK i \in 1..n : i # k /\ x = queue[i]
      <4>1. j \in 1..n /\ j + 1 \in 1..n
        BY <1>1
      <4> QED
        BY <1>2, <1>5, <3>1, <4>1
    <3>3. queue[i] # queue[k]
      <4>1. i < k \/ k < i
        BY <1>2, <3>2
      <4>2. queue[i] \in Int /\ queue[k] \in Int
        BY <1>1, <1>2
      <4> QED
        BY <1>2, <1>6, <4>1, <4>2
    <3> QED
      BY <1>1, <1>2, <3>2, <3>3 DEF Members
  <2>2. ASSUME x \in Members(queue) \ {h}
        PROVE  x \in Members(shorter)
    <3>1. PICK i \in 1..n : x = queue[i] /\ i # k
      BY <1>1, <1>2, <2>2 DEF Members
    <3>2. CASE i < k
      BY <1>1, <1>2, <1>5, <3>1, <3>2 DEF Members
    <3>3. CASE i > k
      <4>1. i - 1 \in 1..(n - 1) /\ shorter[i - 1] = x
        BY <1>1, <1>2, <1>5, <3>1, <3>3
      <4> QED
        BY <1>5, <4>1 DEF Members
    <3> QED
      BY <1>2, <3>1, <3>2, <3>3
  <2> QED
    BY <2>1, <2>2
<1> QED
  BY <1>3, <1>4, <1>7, <1>8
-----------------------------------------------------------------------------
(***************************************************************************)
(* The inductive invariant of the engine's actions.  The level queues are  *)
(* determined by the slab up to order (Linked), so everything else is said *)
(* of the slab.                                                            *)
(***************************************************************************)
HandlesAt(b) == {h \in DOMAIN slab : LevelOf(slab[h]) = b}

Linked ==
  \A b \in BookKeys : Sorted(levels[b]) /\ Members(levels[b]) = HandlesAt(b)

NotCrossed ==
  \A g, h \in DOMAIN slab :
    /\ slab[g].instrument = slab[h].instrument
    /\ slab[g].side = "Buy" /\ slab[h].side = "Sell"
    => slab[g].price < slab[h].price

\* An entry of the directory leads to the resting order with its key.
EntriesLead ==
  \A k \in DOMAIN orders :
    /\ orders[k].handle \in DOMAIN slab
    /\ slab[orders[k].handle].key = k
    /\ slab[orders[k].handle].instrument = orders[k].instrument

RestingGtc == \A h \in DOMAIN slab : slab[h].time_in_force = "GTC"

\* The order being matched is younger than every resting order.
IdsFresh ==
  /\ \A h \in DOMAIN slab : h < nextOrderId
  /\ ~Idle => /\ incoming[1].id < nextOrderId
              /\ \A h \in DOMAIN slab : h < incoming[1].id

\* What the pre-check of a fill-or-kill order counted is still there.
FokCovered ==
  ~Idle /\ incoming[1].time_in_force = "FOK" =>
    incoming[1].remaining <= CrossableQuantity(incoming[1].instrument,
                               incoming[1].side, incoming[1].price)

EngineInv ==
  /\ EngineTypeOK /\ Linked /\ NotCrossed /\ EntriesLead
  /\ RestingGtc /\ IdsFresh /\ FokCovered
-----------------------------------------------------------------------------
(***************************************************************************)
(* What the invariant says of a state.                                     *)
(***************************************************************************)
LEMMA IncomingTyped ==
  ASSUME EngineTypeOK, ~Idle
  PROVE  incoming \in [{1} -> IncomingForm] /\ incoming[1] \in IncomingForm
  BY DEF EngineTypeOK, Idle

\* A resting order and its level are of the declared types.
LEMMA LevelTyped ==
  ASSUME EngineTypeOK, NEW h \in DOMAIN slab
  PROVE  /\ slab[h] \in BookOrder /\ h \in OrderIds /\ h \in Nat
         /\ LevelOf(slab[h]) \in BookKeys
  BY BoundAssumption DEF EngineTypeOK, LevelOf, BookKeys, BookOrder, OrderIds

\* A resting order is found in the queue of its level.
LEMMA RestingIsQueued ==
  ASSUME EngineTypeOK, Linked, NEW h \in DOMAIN slab
  PROVE  /\ h \in Members(levels[LevelOf(slab[h])])
         /\ levels[LevelOf(slab[h])] \in Seq(OrderIds)
         /\ levels[LevelOf(slab[h])] # << >>
         /\ Sorted(levels[LevelOf(slab[h])])
<1>1. LevelOf(slab[h]) \in BookKeys
  BY LevelTyped
<1>2. levels[LevelOf(slab[h])] \in Seq(OrderIds)
  BY <1>1 DEF EngineTypeOK
<1>3. h \in Members(levels[LevelOf(slab[h])]) /\ Sorted(levels[LevelOf(slab[h])])
  BY <1>1 DEF Linked, HandlesAt
<1> QED
  BY <1>2, <1>3, QueueMembers

\* A queue that is not empty starts with an order resting at that level.
LEMMA FrontIsResting ==
  ASSUME EngineTypeOK, Linked, NEW i \in Instruments, NEW side \in Sides,
         NEW p \in Prices, levels[<<i, side, p>>] # << >>
  PROVE  /\ FrontOf(i, side, p) \in DOMAIN slab
         /\ LevelOf(slab[FrontOf(i, side, p)]) = <<i, side, p>>
<1> DEFINE b == <<i, side, p>>
<1>1. b \in BookKeys
  BY DEF BookKeys
<1>2. levels[b] \in Seq(OrderIds) /\ Members(levels[b]) = HandlesAt(b)
  BY <1>1 DEF EngineTypeOK, Linked
<1>3. Head(levels[b]) \in HandlesAt(b)
  <2> HIDE DEF b
  <2>1. levels[b] # << >>
    BY DEF b
  <2> QED
    BY <1>2, <2>1, QueueMembers
<1> QED
  BY <1>3 DEF FrontOf, HandlesAt

\* The properties follow from the invariant.
LEMMA LinkedIsOrdered ==
  ASSUME EngineTypeOK, Linked
  PROVE  QueuesLinkTheSlab /\ TimePriority
<1>1. ASSUME NEW h \in DOMAIN slab
      PROVE  \E j \in DOMAIN levels[LevelOf(slab[h])] :
               levels[LevelOf(slab[h])][j] = h
  BY RestingIsQueued DEF Members
<1>2. ASSUME NEW b \in BookKeys, NEW j \in DOMAIN levels[b]
      PROVE  levels[b][j] \in DOMAIN slab /\ LevelOf(slab[levels[b][j]]) = b
  <2>1. levels[b][j] \in Members(levels[b])
    BY DEF Members
  <2> QED
    BY <2>1 DEF Linked, HandlesAt
<1>3. TimePriority
  BY DEF Linked, Sorted, TimePriority
<1> QED
  BY <1>1, <1>2, <1>3 DEF QueuesLinkTheSlab

\* NotCrossed, told of the slab, is BookNeverCrossed, told of the levels.
LEMMA NotCrossedBook ==
  ASSUME EngineTypeOK, Linked, NotCrossed
  PROVE  BookNeverCrossed
<1> SUFFICES ASSUME NEW i \in Instruments, NEW p \in Prices, NEW q \in Prices,
                    levels[<<i, "Buy", p>>] # << >>,
                    levels[<<i, "Sell", q>>] # << >>
             PROVE  p < q
  BY DEF BookNeverCrossed
<1> DEFINE g == FrontOf(i, "Buy", p)
           h == FrontOf(i, "Sell", q)
<1>1. g \in DOMAIN slab /\ LevelOf(slab[g]) = <<i, "Buy", p>>
  BY FrontIsResting DEF Sides
<1>2. h \in DOMAIN slab /\ LevelOf(slab[h]) = <<i, "Sell", q>>
  BY FrontIsResting DEF Sides
<1> HIDE DEF g, h
<1> QED
  BY <1>1, <1>2 DEF NotCrossed, LevelOf

\* A side with an order on it has a best price.
LEMMA BestPriceExists ==
  ASSUME NEW i, NEW side \in Sides, NEW q \in Prices, levels[<<i, side, q>>] # << >>
  PROVE  \E p \in Prices : IsBestPrice(i, side, p) /\ AtLeastAsGood(side, p, q)
<1> DEFINE S == {p \in Prices : levels[<<i, side, p>>] # << >>}
<1>1. S \in SUBSET Prices /\ q \in S
  OBVIOUS
<1>2. CASE side = "Buy"
  <2>1. PICK m \in S : \A p \in S : p <= m
    <3> HIDE DEF S
    <3> QED BY <1>1, PriceAssumption
  <2> QED
    BY <1>1, <1>2, <2>1, PriceAssumption DEF IsBestPrice, AtLeastAsGood
<1>3. CASE side # "Buy"
  <2>1. PICK m \in S : \A p \in S : m <= p
    <3> HIDE DEF S
    <3> QED BY <1>1, PriceAssumption
  <2> QED
    BY <1>1, <1>3, <2>1, PriceAssumption DEF IsBestPrice, AtLeastAsGood
<1> QED
  BY <1>2, <1>3

\* When the loop is over and something is left, nothing left can trade.
LEMMA DoneMeansNoTrade ==
  ASSUME EngineTypeOK, Linked, MatchingDone, incoming[1].remaining > 0,
         NEW h \in DOMAIN slab
  PROVE  ~CanTradeWith(h, incoming[1].instrument, incoming[1].side,
                       incoming[1].price)
<1> DEFINE i == incoming[1].instrument
           s == incoming[1].side
           limit == incoming[1].price
           q == slab[h].price
<1> SUFFICES ASSUME CanTradeWith(h, i, s, limit)
             PROVE  FALSE
  OBVIOUS
<1>1. ~Idle
  BY DEF MatchingDone
<1>2. i \in Instruments /\ s \in Sides /\ limit \in Prices
  BY <1>1, IncomingTyped DEF IncomingForm
<1>3. Contra(s) \in Sides
  BY <1>2 DEF Contra, Sides
<1>4. q \in Prices /\ LevelOf(slab[h]) = <<i, Contra(s), q>>
  BY LevelTyped DEF CanTradeWith, LevelOf, BookOrder
<1>5. levels[<<i, Contra(s), q>>] # << >>
  BY <1>4, RestingIsQueued
<1>6. PICK p \in Prices : /\ IsBestPrice(i, Contra(s), p)
                          /\ AtLeastAsGood(Contra(s), p, q)
  <2> HIDE DEF i, s, q
  <2> QED
    BY <1>3, <1>4, <1>5, BestPriceExists
<1>7. p \in Int /\ q \in Int /\ limit \in Int
  <2> HIDE DEF limit, q
  <2> QED
    BY <1>2, <1>4, PriceAssumption
<1>8. Crosses(s, limit, q)
  BY DEF CanTradeWith
<1>9. Crosses(s, limit, p)
  <2> HIDE DEF s, limit, q
  <2> QED
    BY <1>2, <1>6, <1>7, <1>8 DEF Crosses, AtLeastAsGood, Contra, Sides
<1> QED
  BY <1>1, <1>6, <1>9 DEF MatchingDone, MatchesAt

\* When the loop is over nothing that could trade rests, so the quantity
\* FokCovered promises a fill-or-kill order is 0.
LEMMA FokNeverLeavesARemainder ==
  ASSUME EngineTypeOK, Linked, FokCovered
  PROVE  FokFillsCompletely
<1> SUFFICES ASSUME MatchingDone, incoming[1].time_in_force = "FOK",
                    incoming[1].remaining # 0
             PROVE  FALSE
  BY DEF FokFillsCompletely
<1>1. ~Idle
  BY DEF MatchingDone
<1>2. incoming[1].remaining \in Nat
  BY <1>1, IncomingTyped DEF IncomingForm
<1> DEFINE S == {h \in DOMAIN slab : CanTradeWith(h, incoming[1].instrument,
                                        incoming[1].side, incoming[1].price)}
<1>3. S = {}
  BY <1>2, DoneMeansNoTrade
<1>4. CrossableQuantity(incoming[1].instrument, incoming[1].side,
                        incoming[1].price) = 0
  BY <1>3, SumEmpty DEF CrossableQuantity
<1> QED
  BY <1>1, <1>2, <1>4 DEF FokCovered
-----------------------------------------------------------------------------
(***************************************************************************)
(* The three ways the book changes: an order leaves, is edited in place,   *)
(* or joins the end of its level.                                          *)
(***************************************************************************)
\* The orders that stay keep their level and their time in force.
SlabKeeps ==
  \A g \in DOMAIN slab' :
    /\ g \in DOMAIN slab
    /\ slab'[g].instrument = slab[g].instrument
    /\ slab'[g].side = slab[g].side
    /\ slab'[g].price = slab[g].price
    /\ slab'[g].time_in_force = slab[g].time_in_force

\* A step after which every resting order is one that rested before, unmoved,
\* keeps what is said of the slab alone.
LEMMA KeepingPreserves ==
  ASSUME NotCrossed, RestingGtc, SlabKeeps
  PROVE  NotCrossed' /\ RestingGtc'
  BY DEF NotCrossed, RestingGtc, SlabKeeps

\* An order leaves the slab and the queue of its level.
LEMMA OrderLeaves ==
  ASSUME EngineTypeOK, Linked, NEW h \in DOMAIN slab, NEW shorter,
         shorter \in Seq(OrderIds), Sorted(shorter),
         Members(shorter) = Members(levels[LevelOf(slab[h])]) \ {h},
         slab' = Erase(slab, h),
         levels' = [levels EXCEPT ![LevelOf(slab[h])] = shorter]
  PROVE  /\ DOMAIN slab' = DOMAIN slab \ {h}
         /\ \A g \in DOMAIN slab' : slab'[g] = slab[g]
         /\ slab' = [g \in DOMAIN slab' |-> slab'[g]]
         /\ levels' \in [BookKeys -> Seq(OrderIds)]
         /\ SlabKeeps /\ Linked'
<1>1. /\ DOMAIN slab' = DOMAIN slab \ {h}
      /\ \A g \in DOMAIN slab' : slab'[g] = slab[g]
      /\ slab' = [g \in DOMAIN slab' |-> slab'[g]]
  BY DEF Erase
<1>2. levels' \in [BookKeys -> Seq(OrderIds)]
  BY LevelTyped DEF EngineTypeOK
<1>3. SlabKeeps
  BY <1>1 DEF SlabKeeps
<1>4. ASSUME NEW b \in BookKeys
      PROVE  Sorted(levels'[b]) /\ Members(levels'[b]) = HandlesAt(b)'
  <2>1. HandlesAt(b)' = HandlesAt(b) \ {h}
    BY <1>1 DEF HandlesAt, LevelOf
  <2>2. CASE b = LevelOf(slab[h])
    <3>1. levels'[b] = shorter
      BY <2>2 DEF EngineTypeOK
    <3>2. Members(levels[b]) = HandlesAt(b)
      BY DEF Linked
    <3> QED
      BY <2>1, <2>2, <3>1, <3>2
  <2>3. CASE b # LevelOf(slab[h])
    <3>1. levels'[b] = levels[b]
      BY <2>3 DEF EngineTypeOK
    <3>2. h \notin HandlesAt(b)
      BY <2>3 DEF HandlesAt
    <3> QED
      BY <2>1, <3>1, <3>2 DEF Linked
  <2> QED
    BY <2>2, <2>3
<1>5. Linked'
  BY <1>4 DEF Linked
<1> QED
  BY <1>1, <1>2, <1>3, <1>5

\* An order is edited where it stands: its level and its place stay.
LEMMA OrderIsEdited ==
  ASSUME Linked, levels' = levels, SlabKeeps, DOMAIN slab' = DOMAIN slab
  PROVE  Linked'
<1>1. ASSUME NEW b
      PROVE  HandlesAt(b)' = HandlesAt(b)
  BY DEF HandlesAt, SlabKeeps, LevelOf
<1> QED
  BY <1>1 DEF Linked

\* The youngest handle goes to the end of its level.
LEMMA AppendHandle ==
  ASSUME NEW queue \in Seq(OrderIds), Sorted(queue), NEW h \in OrderIds,
         \A x \in Members(queue) : x < h
  PROVE  /\ Append(queue, h) \in Seq(OrderIds)
         /\ Sorted(Append(queue, h))
         /\ Members(Append(queue, h)) = Members(queue) \cup {h}
<1> DEFINE longer == Append(queue, h)
           n == Len(queue)
<1>0. OrderIds \subseteq Int
  BY BoundAssumption DEF OrderIds
<1>1. /\ longer \in Seq(OrderIds) /\ n \in Nat
      /\ DOMAIN queue = 1..n /\ DOMAIN longer = 1..(n + 1)
      /\ \A j \in 1..n : longer[j] = queue[j] /\ queue[j] \in OrderIds
      /\ longer[n + 1] = h
  BY AppendProperties, LenProperties, ElementOfSeq
<1> HIDE DEF longer, n
<1>2. Sorted(longer)
  <2>1. \A j \in 1..(n + 1) : j \in 1..n \/ j = n + 1
    BY <1>1
  <2>2. ASSUME NEW j \in 1..(n + 1), NEW k \in 1..(n + 1), j < k
        PROVE  longer[j] < longer[k]
    <3>1. j \in 1..n
      BY <1>1, <2>2
    <3>2. CASE k \in 1..n
      BY <1>1, <2>2, <3>1, <3>2 DEF Sorted
    <3>3. CASE k = n + 1
      <4>1. queue[j] < h
        BY <1>1, <3>1 DEF Members
      <4> QED BY <1>1, <3>1, <3>3, <4>1
    <3> QED BY <2>1, <3>2, <3>3
  <2> QED BY <1>1, <2>2 DEF Sorted
<1>3. Members(longer) = Members(queue) \cup {h}
  BY <1>1 DEF Members
<1> QED
  BY <1>1, <1>2, <1>3 DEF longer

\* A new order joins the slab and the back of the queue of its level.
LEMMA OrderJoins ==
  ASSUME EngineTypeOK, Linked, NEW h \in OrderIds, NEW order \in BookOrder,
         \A g \in DOMAIN slab : g < h, BookAdd(h, order)
  PROVE  /\ DOMAIN slab' = DOMAIN slab \cup {h}
         /\ slab'[h] = order /\ \A g \in DOMAIN slab : slab'[g] = slab[g]
         /\ slab' = [g \in DOMAIN slab' |-> slab'[g]]
         /\ levels' \in [BookKeys -> Seq(OrderIds)]
         /\ Linked'
<1> DEFINE l == LevelOf(order)
<1>0. l \in BookKeys /\ OrderIds \subseteq Int
  BY BoundAssumption DEF LevelOf, BookKeys, BookOrder, OrderIds
<1>1. h \notin DOMAIN slab
  BY <1>0, LevelTyped
<1>2. /\ DOMAIN slab' = DOMAIN slab \cup {h}
      /\ slab'[h] = order /\ \A g \in DOMAIN slab : slab'[g] = slab[g]
      /\ slab' = [g \in DOMAIN slab' |-> slab'[g]]
  BY <1>1 DEF BookAdd, InsertOrAssign
<1>3. levels[l] \in Seq(OrderIds) /\ Sorted(levels[l]) /\ Members(levels[l]) = HandlesAt(l)
  BY <1>0 DEF EngineTypeOK, Linked
<1>4. \A x \in Members(levels[l]) : x < h
  BY <1>3 DEF HandlesAt
<1>5. /\ Append(levels[l], h) \in Seq(OrderIds)
      /\ Sorted(Append(levels[l], h))
      /\ Members(Append(levels[l], h)) = Members(levels[l]) \cup {h}
  <2> HIDE DEF l
  <2> QED
    BY <1>3, <1>4, AppendHandle
<1>6. levels' = [levels EXCEPT ![l] = Append(levels[l], h)]
  BY DEF BookAdd
<1> HIDE DEF l
<1>7. levels' \in [BookKeys -> Seq(OrderIds)]
  BY <1>0, <1>5, <1>6 DEF EngineTypeOK
<1>8. ASSUME NEW b \in BookKeys
      PROVE  Sorted(levels'[b]) /\ Members(levels'[b]) = HandlesAt(b)'
  <2>1. CASE b = l
    <3>1. levels'[b] = Append(levels[l], h)
      BY <1>0, <1>6, <2>1 DEF EngineTypeOK
    <3>2. HandlesAt(b)' = HandlesAt(b) \cup {h}
      BY <1>1, <1>2, <2>1 DEF HandlesAt, LevelOf, l
    <3> QED
      BY <1>3, <1>5, <2>1, <3>1, <3>2
  <2>2. CASE b # l
    <3>1. levels'[b] = levels[b]
      BY <1>6, <2>2 DEF EngineTypeOK
    <3>2. HandlesAt(b)' = HandlesAt(b)
      BY <1>1, <1>2, <2>2 DEF HandlesAt, LevelOf, l
    <3> QED
      BY <3>1, <3>2 DEF Linked
  <2> QED
    BY <2>1, <2>2
<1>9. Linked'
  BY <1>8 DEF Linked
<1> QED
  BY <1>2, <1>7, <1>9
-----------------------------------------------------------------------------
(***************************************************************************)
(* The actions, one by one.                                                *)
(***************************************************************************)
LEMMA EngineInitially == EngineInit => EngineInv
<1> SUFFICES ASSUME EngineInit PROVE EngineInv
  OBVIOUS
<1>1. DOMAIN slab = {} /\ DOMAIN orders = {} /\ Idle
  BY DEF EngineInit, Idle
<1>2. EngineTypeOK
  <2>1. levels \in [BookKeys -> Seq(OrderIds)]
    BY EmptySeq DEF EngineInit
  <2>2. slab = [h \in DOMAIN slab |-> slab[h]]
    BY <1>1 DEF EngineInit
  <2> QED
    BY <1>1, <2>1, <2>2, BoundAssumption DEF EngineInit, EngineTypeOK
<1>3. Linked
  <2>1. \A b \in BookKeys : levels[b] = << >> /\ HandlesAt(b) = {}
    BY <1>1 DEF EngineInit, HandlesAt
  <2> QED
    BY <2>1 DEF Linked, Sorted, Members
<1> QED
  BY <1>1, <1>2, <1>3 DEF EngineInv, NotCrossed, EntriesLead, RestingGtc,
     IdsFresh, FokCovered

\* A sequence of one element is a function on {1}.
LEMMA TupleTyped ==
  ASSUME NEW S, NEW x \in S
  PROVE  <<x>> \in [{1} -> S] /\ <<x>>[1] = x /\ <<x>> # << >>
<1>1. DOMAIN <<x>> = {1}
  OBVIOUS
<1> QED
  BY <1>1

\* An idle engine that stays idle owes nothing to an incoming order.
LEMMA IdleOwesNothing ==
  ASSUME Idle
  PROVE  FokCovered /\ (IdsFresh <=> \A h \in DOMAIN slab : h < nextOrderId)
  BY DEF FokCovered, IdsFresh

\* process_new_order, up to its matching loop.
LEMMA NewOrderKeeps ==
  ASSUME EngineInv, NEW cmd \in NewOrderCommand, ProcessNewOrder(cmd)
  PROVE  EngineInv'
<1> DEFINE order == IncomingOrder(cmd.key, cmd.instrument, cmd.side, cmd.price,
                                  cmd.quantity, cmd.time_in_force)
<1> USE DEF EngineInv
<1>1. order \in IncomingForm
  <2>1. cmd.price \in Prices /\ cmd.quantity \in Quantities /\ cmd.quantity \in Nat
    <3>1. cmd.price > 0 /\ cmd.quantity # 0
      BY DEF ProcessNewOrder, AcceptsNewOrder
    <3>2. cmd.price \in Prices \cup {0} /\ cmd.quantity \in Quantities \cup {0}
      BY DEF NewOrderCommand
    <3>3. cmd.price \in Prices
      BY <3>1, <3>2
    <3>4. cmd.quantity \in Quantities
      BY <3>1, <3>2
    <3> QED
      BY <3>3, <3>4, QuantityAssumption
  <2>2. cmd.instrument \in Instruments
    BY DEF ProcessNewOrder, AcceptsNewOrder, KnowsInstrument
  <2>3. nextOrderId \in OrderIds
    BY BoundAssumption DEF ProcessNewOrder, EngineTypeOK, OrderIds
  <2> QED
    BY <2>1, <2>2, <2>3 DEF IncomingForm, IncomingOrder, NewOrderCommand
<1>2. /\ incoming' = <<order>> /\ ~Idle'
      /\ incoming' \in [{1} -> IncomingForm] /\ incoming'[1] = order
  BY <1>1, TupleTyped DEF ProcessNewOrder, Idle
<1>3. UNCHANGED <<slab, levels, orders, restingOrders>> /\ nextOrderId' = nextOrderId + 1
  BY DEF ProcessNewOrder
<1> HIDE DEF order
<1>4. EngineTypeOK'
  BY <1>2, <1>3, BoundAssumption DEF EngineTypeOK, ProcessNewOrder
<1>5. Linked' /\ NotCrossed' /\ EntriesLead' /\ RestingGtc'
  BY <1>3 DEF Linked, HandlesAt, NotCrossed, EntriesLead, RestingGtc, LevelOf
<1>6. IdsFresh'
  <2>1. order.id = nextOrderId
    BY DEF order, IncomingOrder
  <2>2. nextOrderId \in Nat /\ \A h \in DOMAIN slab : h \in Nat
    BY LevelTyped DEF EngineTypeOK
  <2> QED
    BY <1>2, <1>3, <2>1, <2>2 DEF IdsFresh
<1>7. FokCovered'
  <2>1. /\ order.instrument = cmd.instrument /\ order.side = cmd.side
        /\ order.price = cmd.price /\ order.remaining = cmd.quantity
        /\ order.time_in_force = cmd.time_in_force
    BY DEF order, IncomingOrder
  <2>2. CrossableQuantity(cmd.instrument, cmd.side, cmd.price)'
          = CrossableQuantity(cmd.instrument, cmd.side, cmd.price)
    BY <1>3 DEF CrossableQuantity, CanTradeWith
  <2>3. cmd.quantity \in Int
    BY <1>1, <2>1 DEF IncomingForm
  <2> QED
    BY <1>2, <2>1, <2>2, <2>3 DEF FokCovered, ProcessNewOrder, AcceptsNewOrder
<1> QED
  BY <1>4, <1>5, <1>6, <1>7

\* The end of a command whose remainder does not rest.
LEMMA DiscardKeeps ==
  ASSUME EngineInv, DiscardRemainder
  PROVE  EngineInv'
<1> USE DEF EngineInv
<1>1. UNCHANGED <<slab, levels, orders, restingOrders, nextOrderId>> /\ Idle'
  BY DEF DiscardRemainder, Idle
<1>2. EngineTypeOK'
  BY <1>1 DEF EngineTypeOK, DiscardRemainder
<1>3. Linked' /\ NotCrossed' /\ EntriesLead' /\ RestingGtc'
  BY <1>1 DEF Linked, HandlesAt, NotCrossed, EntriesLead, RestingGtc, LevelOf
<1>4. IdsFresh' /\ FokCovered'
  BY <1>1 DEF IdsFresh, FokCovered
<1> QED
  BY <1>2, <1>3, <1>4

\* The end of a command whose remainder rests: the loop has left no contra
\* order that it crosses.
LEMMA RestKeeps ==
  ASSUME EngineInv, RestRemainder
  PROVE  EngineInv'
<1> USE DEF EngineInv
<1> DEFINE order == incoming[1]
           resting == RestingForm(order)
           ref == [original |-> order.original, handle |-> order.id,
                   instrument |-> order.instrument]
<1>1. ~Idle /\ order \in IncomingForm
  BY IncomingTyped DEF RestRemainder, MatchingDone
<1>2. order.remaining > 0 /\ order.time_in_force = "GTC" /\ order.remaining \in Nat
  BY <1>1 DEF RestRemainder, Rests, IncomingForm
<1>3. resting \in BookOrder /\ ref \in OrderRef
  BY <1>1, <1>2 DEF RestingForm, BookOrder, OrderRef, IncomingForm
<1>4. /\ resting.key = order.key /\ resting.instrument = order.instrument
      /\ resting.side = order.side /\ resting.price = order.price
      /\ resting.time_in_force = "GTC"
      /\ ref.handle = order.id /\ ref.instrument = order.instrument
  BY <1>2 DEF RestingForm
<1>5. order.id \in OrderIds /\ order.id < nextOrderId /\ order.key \in LiveKeys
      /\ \A g \in DOMAIN slab : g < order.id
  BY <1>1 DEF IncomingForm, IdsFresh
<1>6. /\ BookAdd(order.id, resting)
      /\ orders' = InsertOrAssign(orders, order.key, ref)
      /\ restingOrders' = restingOrders + 1 /\ incoming' = << >>
      /\ nextOrderId' = nextOrderId
  BY DEF RestRemainder
<1> HIDE DEF resting, ref
<1>7. /\ DOMAIN slab' = DOMAIN slab \cup {order.id}
      /\ slab'[order.id] = resting /\ \A g \in DOMAIN slab : slab'[g] = slab[g]
      /\ slab' = [g \in DOMAIN slab' |-> slab'[g]]
      /\ levels' \in [BookKeys -> Seq(OrderIds)]
      /\ Linked'
  <2> HIDE DEF order
  <2> QED
    BY <1>3, <1>5, <1>6, OrderJoins
<1>8. /\ DOMAIN orders' = DOMAIN orders \cup {order.key}
      /\ orders'[order.key] = ref
      /\ \A k \in DOMAIN orders : k # order.key => orders'[k] = orders[k]
  BY <1>6 DEF InsertOrAssign
<1>9. EngineTypeOK'
  BY <1>3, <1>5, <1>6, <1>7, <1>8 DEF EngineTypeOK
<1>10. EntriesLead'
  <2>1. order.id \notin DOMAIN slab
    BY <1>5, LevelTyped
  <2> QED
    BY <1>4, <1>7, <1>8, <2>1 DEF EntriesLead
<1>11. RestingGtc'
  BY <1>4, <1>7 DEF RestingGtc
<1>12. IdsFresh' /\ FokCovered'
  BY <1>5, <1>6, <1>7 DEF IdsFresh, FokCovered, Idle
<1>13. NotCrossed'
  <2>1. \A h \in DOMAIN slab : ~CanTradeWith(h, order.instrument, order.side, order.price)
    BY <1>2, DoneMeansNoTrade DEF RestRemainder
  <2>2. order.price \in Int /\ order.side \in Sides
        /\ \A h \in DOMAIN slab : slab[h].price \in Int /\ slab[h].side \in Sides
    <3>1. order.price \in Prices /\ order.side \in Sides
      BY <1>1 DEF IncomingForm
    <3>2. \A h \in DOMAIN slab : slab[h] \in BookOrder
      BY LevelTyped
    <3>3. \A h \in DOMAIN slab : slab[h].price \in Prices /\ slab[h].side \in Sides
      BY <3>2 DEF BookOrder
    <3>4. Prices \subseteq Int
      BY PriceAssumption
    <3> QED
      BY <3>1, <3>3, <3>4
  <2> SUFFICES ASSUME NEW g \in DOMAIN slab', NEW h \in DOMAIN slab',
                      slab'[g].instrument = slab'[h].instrument,
                      slab'[g].side = "Buy", slab'[h].side = "Sell"
               PROVE  slab'[g].price < slab'[h].price
    BY DEF NotCrossed
  <2>3. CASE g = order.id /\ h # order.id
    BY <1>4, <1>7, <2>1, <2>2, <2>3 DEF CanTradeWith, Crosses, Contra
  <2>4. CASE g # order.id /\ h = order.id
    BY <1>4, <1>7, <2>1, <2>2, <2>4 DEF CanTradeWith, Crosses, Contra
  <2>5. CASE g # order.id /\ h # order.id
    BY <1>7, <2>5 DEF NotCrossed
  <2>6. CASE g = order.id /\ h = order.id
    BY <2>6
  <2> QED
    BY <2>3, <2>4, <2>5, <2>6
<1> QED
  BY <1>7, <1>9, <1>10, <1>11, <1>12, <1>13

\* Removing the order of a handle, from the middle or from the front.
LEMMA RemoveHandle ==
  ASSUME EngineTypeOK, Linked, NEW h \in DOMAIN slab, BookRemoveAt(h)
  PROVE  /\ DOMAIN slab' = DOMAIN slab \ {h}
         /\ \A g \in DOMAIN slab' : slab'[g] = slab[g]
         /\ slab' = [g \in DOMAIN slab' |-> slab'[g]]
         /\ levels' \in [BookKeys -> Seq(OrderIds)]
         /\ SlabKeeps /\ Linked'
<1> DEFINE queue == levels[LevelOf(slab[h])]
           shorter == Unlink(queue, h)
<1>1. queue \in Seq(OrderIds) /\ Sorted(queue) /\ h \in Members(queue)
  BY RestingIsQueued
<1>2. OrderIds \subseteq Int
  BY BoundAssumption DEF OrderIds
<1>3. /\ shorter \in Seq(OrderIds) /\ Sorted(shorter)
      /\ Members(shorter) = Members(queue) \ {h}
  <2> HIDE DEF queue
  <2> QED
    BY <1>1, <1>2, UnlinkQueue
<1>4. /\ slab' = Erase(slab, h)
      /\ levels' = [levels EXCEPT ![LevelOf(slab[h])] = shorter]
  BY DEF BookRemoveAt
<1>5. Members(shorter) = Members(levels[LevelOf(slab[h])]) \ {h}
  BY <1>3
<1> HIDE DEF shorter, queue
<1> QED
  BY <1>3, <1>4, <1>5, OrderLeaves

\* The same for the front order of a level, popped after a full fill.
LEMMA RemoveFront ==
  ASSUME EngineTypeOK, Linked, NEW h \in DOMAIN slab,
         h = Head(levels[LevelOf(slab[h])]),
         slab' = Erase(slab, h),
         levels' = [levels EXCEPT ![LevelOf(slab[h])] = Tail(@)]
  PROVE  /\ DOMAIN slab' = DOMAIN slab \ {h}
         /\ \A g \in DOMAIN slab' : slab'[g] = slab[g]
         /\ slab' = [g \in DOMAIN slab' |-> slab'[g]]
         /\ levels' \in [BookKeys -> Seq(OrderIds)]
         /\ SlabKeeps /\ Linked'
<1> DEFINE queue == levels[LevelOf(slab[h])]
           shorter == Tail(queue)
<1>1. queue \in Seq(OrderIds) /\ Sorted(queue) /\ queue # << >> /\ h = Head(queue)
  BY RestingIsQueued
<1>2. OrderIds \subseteq Int
  BY BoundAssumption DEF OrderIds
<1>3. /\ shorter \in Seq(OrderIds) /\ Sorted(shorter)
      /\ Members(shorter) = Members(queue) \ {h}
  <2> HIDE DEF queue
  <2> QED
    BY <1>1, <1>2, TailQueue
<1>4. levels' = [levels EXCEPT ![LevelOf(slab[h])] = shorter]
  OBVIOUS
<1>5. Members(shorter) = Members(levels[LevelOf(slab[h])]) \ {h}
  BY <1>3
<1> HIDE DEF shorter, queue
<1> QED
  BY <1>3, <1>4, <1>5, OrderLeaves

\* The trade of a loop iteration: who, at what price, how much.
LEMMA TradeFacts ==
  ASSUME EngineTypeOK, Linked, NEW p \in Prices, MatchesAt(p)
  PROVE  /\ ~Idle /\ incoming[1] \in IncomingForm
         /\ incoming \in [{1} -> IncomingForm]
         /\ FrontHandle(p) \in DOMAIN slab
         /\ slab[FrontHandle(p)] \in BookOrder
         /\ LevelOf(slab[FrontHandle(p)])
              = <<incoming[1].instrument, Contra(incoming[1].side), p>>
         /\ FrontHandle(p) = Head(levels[LevelOf(slab[FrontHandle(p)])])
         /\ TradeQuantity(p) \in Nat \ {0}
         /\ TradeQuantity(p) <= incoming[1].remaining
         /\ TradeQuantity(p) <= slab[FrontHandle(p)].remaining
         /\ incoming[1].remaining \in Nat
         /\ slab[FrontHandle(p)].remaining \in Nat \ {0}
         /\ CanTradeWith(FrontHandle(p), incoming[1].instrument,
                         incoming[1].side, incoming[1].price)
<1> DEFINE i == incoming[1].instrument
           s == incoming[1].side
           h == FrontHandle(p)
<1>1. ~Idle /\ incoming[1] \in IncomingForm /\ incoming \in [{1} -> IncomingForm]
  BY IncomingTyped DEF MatchesAt
<1>2. i \in Instruments /\ s \in Sides /\ Contra(s) \in Sides
  BY <1>1 DEF IncomingForm, Contra, Sides
<1>3. levels[<<i, Contra(s), p>>] # << >>
  BY DEF MatchesAt, IsBestPrice
<1>4. h = FrontOf(i, Contra(s), p)
  BY DEF FrontHandle
<1>5. h \in DOMAIN slab /\ LevelOf(slab[h]) = <<i, Contra(s), p>>
  <2> HIDE DEF i, s, h
  <2> QED
    BY <1>2, <1>3, <1>4, FrontIsResting
<1>6. slab[h] \in BookOrder
  BY <1>5, LevelTyped
<1>7. slab[h].remaining \in Nat \ {0} /\ incoming[1].remaining \in Nat
  BY <1>1, <1>6 DEF BookOrder, IncomingForm
<1>8. incoming[1].remaining > 0 /\ Crosses(s, incoming[1].price, p)
  BY DEF MatchesAt
<1>9. CanTradeWith(h, i, s, incoming[1].price)
  BY <1>5, <1>8 DEF CanTradeWith, LevelOf
<1>10. /\ TradeQuantity(p) \in Nat \ {0}
       /\ TradeQuantity(p) <= incoming[1].remaining
       /\ TradeQuantity(p) <= slab[h].remaining
  BY <1>7, <1>8 DEF TradeQuantity, Lesser
<1>11. h = Head(levels[LevelOf(slab[h])])
  BY <1>4, <1>5 DEF FrontOf
<1> QED
  BY <1>1, <1>5, <1>6, <1>7, <1>9, <1>10, <1>11

\* The incoming order after an iteration differs in its remainder only.
LEMMA IncomingAfterTrade ==
  ASSUME EngineTypeOK, Linked, NEW p \in Prices, MatchAt(p)
  PROVE  /\ incoming' \in [{1} -> IncomingForm] /\ ~Idle'
         /\ incoming'[1].remaining = incoming[1].remaining - TradeQuantity(p)
         /\ incoming'[1].id = incoming[1].id
         /\ incoming'[1].key = incoming[1].key
         /\ incoming'[1].instrument = incoming[1].instrument
         /\ incoming'[1].side = incoming[1].side
         /\ incoming'[1].price = incoming[1].price
         /\ incoming'[1].time_in_force = incoming[1].time_in_force
<1>1. /\ incoming \in [{1} -> IncomingForm] /\ incoming[1] \in IncomingForm
      /\ incoming[1].remaining - TradeQuantity(p) \in Nat
  BY TradeFacts DEF MatchAt
<1>2. incoming' = [incoming EXCEPT ![1].remaining = @ - TradeQuantity(p)]
  BY DEF MatchAt
<1>3. /\ DOMAIN incoming' = {1}
      /\ incoming'[1] = [incoming[1] EXCEPT
                          !.remaining = incoming[1].remaining - TradeQuantity(p)]
  BY <1>1, <1>2
<1>4. incoming'[1] \in IncomingForm
  BY <1>1, <1>3 DEF IncomingForm
<1>5. incoming' \in [{1} -> IncomingForm]
  BY <1>2, <1>3, <1>4
<1>6. ~Idle'
  BY <1>3 DEF Idle
<1> QED
  BY <1>1, <1>3, <1>5, <1>6 DEF IncomingForm

\* One iteration of match_and_rest, with a full or a partial fill of the front.
LEMMA MatchKeeps ==
  ASSUME EngineInv, NEW p \in Prices, MatchAt(p)
  PROVE  EngineInv'
<1> USE DEF EngineInv
<1> DEFINE h == FrontHandle(p)
           q == TradeQuantity(p)
           i == incoming[1].instrument
           s == incoming[1].side
           limit == incoming[1].price
           S == {g \in DOMAIN slab : CanTradeWith(g, i, s, limit)}
           f == [g \in DOMAIN slab |-> slab[g].remaining]
<1>1. /\ ~Idle /\ h \in DOMAIN slab /\ slab[h] \in BookOrder
      /\ h = Head(levels[LevelOf(slab[h])])
      /\ q \in Nat \ {0} /\ q <= incoming[1].remaining /\ q <= slab[h].remaining
      /\ incoming[1].remaining \in Nat /\ slab[h].remaining \in Nat \ {0}
      /\ CanTradeWith(h, i, s, limit)
  BY TradeFacts DEF MatchAt
<1>2. /\ incoming' \in [{1} -> IncomingForm] /\ ~Idle'
      /\ incoming'[1].remaining = incoming[1].remaining - q
      /\ incoming'[1].id = incoming[1].id
      /\ incoming'[1].instrument = i /\ incoming'[1].side = s
      /\ incoming'[1].price = limit
      /\ incoming'[1].time_in_force = incoming[1].time_in_force
  BY IncomingAfterTrade
<1>3. nextOrderId' = nextOrderId
  BY DEF MatchAt
<1>4. IsFiniteSet(S) /\ h \in S /\ \A g \in S : f[g] \in Int
  <2>1. IsFiniteSet(OrderIds)
    BY BoundAssumption, FS_Interval DEF OrderIds
  <2>2. S \subseteq OrderIds
    BY LevelTyped
  <2>3. \A g \in S : f[g] \in Int
    BY LevelTyped DEF BookOrder
  <2> QED
    BY <1>1, <2>1, <2>2, <2>3, FS_Subset
<1>5. CrossableQuantity(i, s, limit) = SumOver(f, S)
  BY DEF CrossableQuantity
<1>6. SumOver(f, S) \in Int /\ SumOver(f, S) = f[h] + SumOver(f, S \ {h})
      /\ SumOver(f, S \ {h}) \in Int
  <2>1. IsFiniteSet(S \ {h}) /\ \A g \in S \ {h} : f[g] \in Int
    BY <1>4, FS_Subset
  <2> HIDE DEF S, f, h
  <2> QED
    BY <1>4, <2>1, SumTakesOut
<1>7. CASE q = slab[h].remaining /\ FillFront(p)
  <2>1. /\ slab' = Erase(slab, h)
        /\ levels' = [levels EXCEPT ![LevelOf(slab[h])] = Tail(@)]
        /\ orders' = Erase(orders, slab[h].key)
        /\ restingOrders' = restingOrders - 1
    BY <1>7 DEF FillFront
  <2>2. /\ DOMAIN slab' = DOMAIN slab \ {h}
        /\ \A g \in DOMAIN slab' : slab'[g] = slab[g]
        /\ slab' = [g \in DOMAIN slab' |-> slab'[g]]
        /\ levels' \in [BookKeys -> Seq(OrderIds)]
        /\ SlabKeeps /\ Linked'
    <3> HIDE DEF h
    <3> QED
      BY <1>1, <2>1, RemoveFront
  <2>3. /\ DOMAIN orders' = DOMAIN orders \ {slab[h].key}
        /\ \A k \in DOMAIN orders' : orders'[k] = orders[k]
    BY <2>1 DEF Erase
  <2> HIDE DEF h, q
  <2>4. EngineTypeOK'
    BY <1>2, <1>3, <2>1, <2>2, <2>3 DEF EngineTypeOK
  <2>5. NotCrossed' /\ RestingGtc'
    BY <2>2, KeepingPreserves
  <2>6. EntriesLead'
    BY <2>2, <2>3 DEF EntriesLead
  <2>7. IdsFresh'
    BY <1>1, <1>2, <1>3, <2>2 DEF IdsFresh
  <2>8. CrossableQuantity(i, s, limit)' = SumOver(f, S \ {h})
    <3> DEFINE T == {g \in DOMAIN slab' : CanTradeWith(g, i, s, limit)'}
               F == [g \in DOMAIN slab' |-> slab'[g].remaining]
    <3>1. T = S \ {h}
      BY <1>2, <2>2 DEF CanTradeWith
    <3>2. \A g \in S \ {h} : F[g] = f[g]
      BY <2>2
    <3>3. IsFiniteSet(S \ {h})
      BY <1>4, FS_Subset
    <3> HIDE DEF T, F, f, S
    <3>4. SumOver(F, T) = SumOver(f, S \ {h})
      BY <3>1, <3>2, <3>3, SumAgrees
    <3> QED
      BY <1>2, <3>4 DEF CrossableQuantity, CanTradeWith, T, F
  <2>9. FokCovered'
    BY <1>1, <1>2, <1>5, <1>6, <1>7, <2>8 DEF FokCovered
  <2> QED
    BY <2>2, <2>4, <2>5, <2>6, <2>7, <2>9
<1>8. CASE q < slab[h].remaining /\ ReduceFront(p)
  <2>1. /\ slab' = [slab EXCEPT ![h].remaining = @ - q]
        /\ UNCHANGED <<levels, orders, restingOrders>>
    BY <1>8 DEF ReduceFront
  <2>2. /\ DOMAIN slab' = DOMAIN slab
        /\ \A g \in DOMAIN slab : g # h => slab'[g] = slab[g]
        /\ slab'[h] = [slab[h] EXCEPT !.remaining = slab[h].remaining - q]
        /\ slab' = [g \in DOMAIN slab' |-> slab'[g]]
    BY <1>1, <2>1 DEF EngineTypeOK
  <2> HIDE DEF h, q
  <2>3. /\ slab'[h] \in BookOrder
        /\ slab'[h].remaining = slab[h].remaining - q
        /\ slab'[h].instrument = slab[h].instrument /\ slab'[h].side = slab[h].side
        /\ slab'[h].price = slab[h].price /\ slab'[h].key = slab[h].key
        /\ slab'[h].time_in_force = slab[h].time_in_force
    BY <1>1, <1>8, <2>2 DEF BookOrder
  <2>4. SlabKeeps
    BY <2>2, <2>3 DEF SlabKeeps
  <2>5. EngineTypeOK'
    BY <1>2, <1>3, <2>1, <2>2, <2>3 DEF EngineTypeOK
  <2>6. NotCrossed' /\ RestingGtc'
    BY <2>4, KeepingPreserves
  <2>7. Linked'
    BY <2>1, <2>2, <2>4, OrderIsEdited
  <2>8. EntriesLead'
    BY <2>1, <2>2, <2>3 DEF EntriesLead
  <2>9. IdsFresh'
    BY <1>1, <1>2, <1>3, <2>2 DEF IdsFresh
  <2>10. CrossableQuantity(i, s, limit)' = SumOver(f, S) - q
    <3> DEFINE T == {g \in DOMAIN slab' : CanTradeWith(g, i, s, limit)'}
               F == [g \in DOMAIN slab' |-> slab'[g].remaining]
    <3>1. T = S
      BY <1>2, <2>2, <2>3 DEF CanTradeWith
    <3>2. (\A g \in S \ {h} : F[g] = f[g]) /\ F[h] = f[h] + (-q)
      BY <1>1, <2>2, <2>3
    <3> HIDE DEF T, F, f, S
    <3>3. SumOver(F, S) = SumOver(f, S) + (-q)
      BY <1>1, <1>4, <3>2, SumChangesBy
    <3> QED
      BY <1>1, <1>2, <1>6, <3>1, <3>3 DEF CrossableQuantity, CanTradeWith, T, F
  <2>11. FokCovered'
    BY <1>1, <1>2, <1>5, <1>6, <2>10 DEF FokCovered
  <2> QED
    BY <2>5, <2>6, <2>7, <2>8, <2>9, <2>11
<1> QED
  BY <1>7, <1>8 DEF MatchAt

\* The order a directory entry leads to.
LEMMA FoundOrder ==
  ASSUME EngineInv, NEW k, NEW i, FindsOrder(k, i)
  PROVE  /\ k \in DOMAIN orders /\ k \in LiveKeys /\ orders[k] \in OrderRef
         /\ orders[k].handle \in DOMAIN slab
         /\ slab[orders[k].handle] \in BookOrder
         /\ slab[orders[k].handle].key = k
         /\ slab[orders[k].handle].instrument = i /\ i \in Instruments
         /\ slab[orders[k].handle].time_in_force = "GTC"
<1> USE DEF EngineInv
<1>1. k \in DOMAIN orders /\ orders[k].instrument = i /\ i \in Instruments
  BY DEF FindsOrder, KnowsInstrument
<1>2. /\ orders[k].handle \in DOMAIN slab /\ slab[orders[k].handle].key = k
      /\ slab[orders[k].handle].instrument = i
  BY <1>1 DEF EntriesLead
<1>3. k \in LiveKeys /\ orders[k] \in OrderRef
  BY <1>1 DEF EngineTypeOK
<1> QED
  BY <1>1, <1>2, <1>3, LevelTyped DEF RestingGtc

\* process_cancel.
LEMMA CancelKeeps ==
  ASSUME EngineInv, NEW cmd \in CancelOrderCommand, ProcessCancel(cmd)
  PROVE  EngineInv'
<1> USE DEF EngineInv
<1> DEFINE h == orders[cmd.key].handle
<1>1. cmd.key \in DOMAIN orders /\ h \in DOMAIN slab /\ slab[h].key = cmd.key
  BY FoundOrder DEF ProcessCancel
<1>2. /\ BookRemoveAt(h) /\ orders' = Erase(orders, cmd.key)
      /\ restingOrders' = restingOrders - 1
      /\ nextOrderId' = nextOrderId /\ incoming' = incoming /\ Idle
  BY DEF ProcessCancel
<1> HIDE DEF h
<1>3. /\ DOMAIN slab' = DOMAIN slab \ {h}
      /\ \A g \in DOMAIN slab' : slab'[g] = slab[g]
      /\ slab' = [g \in DOMAIN slab' |-> slab'[g]]
      /\ levels' \in [BookKeys -> Seq(OrderIds)]
      /\ SlabKeeps /\ Linked'
  BY <1>1, <1>2, RemoveHandle
<1>4. /\ DOMAIN orders' = DOMAIN orders \ {cmd.key}
      /\ \A k \in DOMAIN orders' : orders'[k] = orders[k]
  BY <1>2 DEF Erase
<1>5. EngineTypeOK'
  BY <1>2, <1>3, <1>4 DEF EngineTypeOK
<1>6. NotCrossed' /\ RestingGtc'
  BY <1>3, KeepingPreserves
<1>7. EntriesLead'
  BY <1>1, <1>3, <1>4 DEF EntriesLead
<1>8. IdsFresh' /\ FokCovered'
  BY <1>2, <1>3 DEF IdsFresh, FokCovered, Idle
<1> QED
  BY <1>3, <1>5, <1>6, <1>7, <1>8

\* What a replace command that is accepted carries.
LEMMA AcceptedReplace ==
  ASSUME EngineInv, NEW cmd \in ReplaceOrderCommand, AcceptsReplace(cmd)
  PROVE  /\ cmd.instrument \in Instruments /\ cmd.price \in Prices
         /\ cmd.quantity \in Quantities /\ cmd.quantity \in Nat \ {0}
         /\ NewKey(cmd) \in LiveKeys /\ NewKey(cmd)[1] = cmd.key[1]
         /\ cmd.key \in DOMAIN orders /\ cmd.key \in LiveKeys
         /\ orders[cmd.key] \in OrderRef
         /\ orders[cmd.key].handle \in DOMAIN slab
         /\ Replaced(cmd) \in BookOrder
         /\ Replaced(cmd).key = cmd.key
         /\ Replaced(cmd).instrument = cmd.instrument
         /\ Replaced(cmd).time_in_force = "GTC"
<1>1. cmd.price > 0 /\ cmd.quantity # 0 /\ FindsOrder(cmd.key, cmd.instrument)
  BY DEF AcceptsReplace
<1>2. /\ cmd.price \in Prices \cup {0} /\ cmd.quantity \in Quantities \cup {0}
      /\ cmd.key \in LiveKeys /\ cmd.new_id \in ClientIds
  BY DEF ReplaceOrderCommand
<1>3. cmd.price \in Prices
  BY <1>1, <1>2
<1>4. cmd.quantity \in Quantities /\ cmd.quantity \in Nat \ {0}
  BY <1>1, <1>2, QuantityAssumption
<1>5. NewKey(cmd) \in LiveKeys /\ NewKey(cmd)[1] = cmd.key[1]
  BY <1>2 DEF NewKey, LiveKeys
<1>6. /\ cmd.key \in DOMAIN orders /\ orders[cmd.key] \in OrderRef
      /\ orders[cmd.key].handle \in DOMAIN slab
      /\ slab[orders[cmd.key].handle] \in BookOrder
      /\ slab[orders[cmd.key].handle].key = cmd.key
      /\ slab[orders[cmd.key].handle].instrument = cmd.instrument
      /\ cmd.instrument \in Instruments
      /\ slab[orders[cmd.key].handle].time_in_force = "GTC"
  BY <1>1, FoundOrder
<1> QED
  BY <1>2, <1>3, <1>4, <1>5, <1>6 DEF Replaced

\* The slab after a replace in place.
LEMMA EditedInPlace ==
  ASSUME EngineInv, NEW cmd \in ReplaceOrderCommand, ProcessReplaceInPlace(cmd)
  PROVE  LET h == orders[cmd.key].handle
         IN  /\ DOMAIN slab' = DOMAIN slab
             /\ \A g \in DOMAIN slab : g # h => slab'[g] = slab[g]
             /\ slab' = [g \in DOMAIN slab' |-> slab'[g]]
             /\ slab'[h] \in BookOrder
             /\ slab'[h].key = NewKey(cmd) /\ slab'[h].remaining = cmd.quantity
             /\ slab'[h].instrument = slab[h].instrument
             /\ slab'[h].side = slab[h].side /\ slab'[h].price = slab[h].price
             /\ slab'[h].time_in_force = slab[h].time_in_force
             /\ SlabKeeps
<1> DEFINE h == orders[cmd.key].handle
<1>1. /\ h \in DOMAIN slab /\ slab[h] \in BookOrder
      /\ NewKey(cmd) \in LiveKeys /\ cmd.quantity \in Nat \ {0}
  BY AcceptedReplace DEF ProcessReplaceInPlace, Replaced
<1>2. slab' = [slab EXCEPT ![h].remaining = cmd.quantity, ![h].key = NewKey(cmd)]
  BY DEF ProcessReplaceInPlace
<1>3. slab = [g \in DOMAIN slab |-> slab[g]]
  BY DEF EngineInv, EngineTypeOK
<1> HIDE DEF h
<1>4. /\ DOMAIN slab' = DOMAIN slab
      /\ \A g \in DOMAIN slab : g # h => slab'[g] = slab[g]
      /\ slab'[h] = [slab[h] EXCEPT !.remaining = cmd.quantity, !.key = NewKey(cmd)]
      /\ slab' = [g \in DOMAIN slab' |-> slab'[g]]
  BY <1>1, <1>2, <1>3
<1>5. /\ slab'[h] \in BookOrder
      /\ slab'[h].key = NewKey(cmd) /\ slab'[h].remaining = cmd.quantity
      /\ slab'[h].instrument = slab[h].instrument
      /\ slab'[h].side = slab[h].side /\ slab'[h].price = slab[h].price
      /\ slab'[h].time_in_force = slab[h].time_in_force
  BY <1>1, <1>4 DEF BookOrder
<1>6. SlabKeeps
  BY <1>4, <1>5 DEF SlabKeeps
<1> QED
  BY <1>4, <1>5, <1>6 DEF h

\* process_replace, when the order keeps its priority.
LEMMA ReplaceInPlaceKeeps ==
  ASSUME EngineInv, NEW cmd \in ReplaceOrderCommand, ProcessReplaceInPlace(cmd)
  PROVE  EngineInv'
<1> USE DEF EngineInv
<1> DEFINE h == orders[cmd.key].handle
           k == cmd.key
           n == NewKey(cmd)
<1>1. /\ h \in DOMAIN slab /\ slab[h].instrument = cmd.instrument
      /\ slab[h].key = k /\ k \in DOMAIN orders /\ orders[k] \in OrderRef
      /\ n \in LiveKeys /\ orders[k].handle = h
  BY AcceptedReplace DEF ProcessReplaceInPlace, Replaced
<1>2. /\ orders' = InsertOrAssign(Erase(orders, k), n, orders[k])
      /\ UNCHANGED <<levels, restingOrders, nextOrderId, incoming>> /\ Idle
  BY DEF ProcessReplaceInPlace
<1>3. /\ DOMAIN slab' = DOMAIN slab
      /\ \A g \in DOMAIN slab : g # h => slab'[g] = slab[g]
      /\ slab' = [g \in DOMAIN slab' |-> slab'[g]]
      /\ slab'[h] \in BookOrder /\ slab'[h].key = n
      /\ slab'[h].instrument = slab[h].instrument /\ SlabKeeps
  BY EditedInPlace
<1> HIDE DEF h, k, n
<1>4. /\ DOMAIN orders' = (DOMAIN orders \ {k}) \cup {n}
      /\ orders'[n] = orders[k]
      /\ \A x \in DOMAIN orders' : x # n => x # k /\ orders'[x] = orders[x]
  BY <1>2 DEF InsertOrAssign, Erase
<1>5. EngineTypeOK'
  BY <1>1, <1>2, <1>3, <1>4 DEF EngineTypeOK
<1>6. NotCrossed' /\ RestingGtc'
  BY <1>3, KeepingPreserves
<1>7. Linked'
  BY <1>2, <1>3, OrderIsEdited
<1>8. EntriesLead'
  BY <1>1, <1>3, <1>4 DEF EntriesLead
<1>9. IdsFresh' /\ FokCovered'
  BY <1>2, <1>3 DEF IdsFresh, FokCovered, Idle
<1> QED
  BY <1>5, <1>6, <1>7, <1>8, <1>9

\* process_replace, when the order loses its priority and enters the loop.
LEMMA ReplaceAsNewKeeps ==
  ASSUME EngineInv, NEW cmd \in ReplaceOrderCommand, ProcessReplaceAsNew(cmd)
  PROVE  EngineInv'
<1> USE DEF EngineInv
<1> DEFINE h == orders[cmd.key].handle
           order == IncomingOrder(NewKey(cmd), cmd.instrument,
                      Replaced(cmd).side, cmd.price, cmd.quantity,
                      Replaced(cmd).time_in_force)
<1>1. /\ h \in DOMAIN slab /\ slab[h].key = cmd.key /\ cmd.key \in DOMAIN orders
      /\ cmd.instrument \in Instruments /\ cmd.price \in Prices
      /\ cmd.quantity \in Quantities /\ cmd.quantity \in Nat
      /\ NewKey(cmd) \in LiveKeys /\ Replaced(cmd) \in BookOrder
      /\ Replaced(cmd).time_in_force = "GTC"
  BY AcceptedReplace DEF ProcessReplaceAsNew, Replaced
<1>2. nextOrderId \in OrderIds /\ nextOrderId \in Nat
  BY BoundAssumption DEF ProcessReplaceAsNew, EngineTypeOK, OrderIds
<1>3. /\ order \in IncomingForm /\ order.id = nextOrderId
      /\ order.time_in_force = "GTC"
  BY <1>1, <1>2 DEF IncomingForm, IncomingOrder, BookOrder
<1>4. /\ BookRemoveAt(h) /\ orders' = Erase(orders, cmd.key)
      /\ restingOrders' = restingOrders - 1
      /\ nextOrderId' = nextOrderId + 1 /\ nextOrderId <= MaxOrderId
      /\ incoming' = <<order>>
  BY DEF ProcessReplaceAsNew
<1> HIDE DEF h, order
<1>5. incoming' \in [{1} -> IncomingForm] /\ incoming'[1] = order /\ ~Idle'
  BY <1>3, <1>4, TupleTyped DEF Idle
<1>6. /\ DOMAIN slab' = DOMAIN slab \ {h}
      /\ \A g \in DOMAIN slab' : slab'[g] = slab[g]
      /\ slab' = [g \in DOMAIN slab' |-> slab'[g]]
      /\ levels' \in [BookKeys -> Seq(OrderIds)]
      /\ SlabKeeps /\ Linked'
  BY <1>1, <1>4, RemoveHandle
<1>7. /\ DOMAIN orders' = DOMAIN orders \ {cmd.key}
      /\ \A k \in DOMAIN orders' : orders'[k] = orders[k]
  BY <1>4 DEF Erase
<1>8. EngineTypeOK'
  BY <1>2, <1>4, <1>5, <1>6, <1>7, BoundAssumption DEF EngineTypeOK
<1>9. NotCrossed' /\ RestingGtc'
  BY <1>6, KeepingPreserves
<1>10. EntriesLead'
  BY <1>1, <1>6, <1>7 DEF EntriesLead, h
<1>11. IdsFresh'
  <2>1. \A g \in DOMAIN slab : g \in Nat
    BY LevelTyped
  <2> QED
    BY <1>2, <1>3, <1>4, <1>5, <1>6, <2>1 DEF IdsFresh
<1>12. FokCovered'
  BY <1>3, <1>5 DEF FokCovered
<1> QED
  BY <1>6, <1>8, <1>9, <1>10, <1>11, <1>12
-----------------------------------------------------------------------------
(***************************************************************************)
(* The book leads back to the directory, as long as no replacement takes   *)
(* the id of another live order.                                           *)
(***************************************************************************)
DirectoryInv ==
  /\ \A h \in DOMAIN slab : /\ slab[h].key \in DOMAIN orders
                            /\ orders[slab[h].key].handle = h
  /\ ~Idle => incoming[1].key \notin DOMAIN orders
  /\ IsFiniteSet(DOMAIN orders)
  /\ restingOrders = Cardinality(DOMAIN orders)

\* The two invariants together are DirectoryMatchesBook.
LEMMA DirectoryHolds ==
  ASSUME EngineInv, DirectoryInv
  PROVE  DirectoryMatchesBook
<1>1. QueuesLinkTheSlab
  BY LinkedIsOrdered DEF EngineInv
<1> QED
  BY <1>1 DEF EngineInv, EntriesLead, DirectoryInv, DirectoryMatchesBook

\* The empty engine.
LEMMA DirectoryInitially == EngineInit => DirectoryInv
  BY FS_EmptySet DEF EngineInit, DirectoryInv, Idle

\* process_new_order takes no key that is in the directory.
LEMMA NewOrderKeepsDirectory ==
  ASSUME EngineInv, DirectoryInv, NEW cmd \in NewOrderCommand,
         ProcessNewOrder(cmd)
  PROVE  DirectoryInv'
<1>1. UNCHANGED <<slab, orders, restingOrders>>
  BY DEF ProcessNewOrder
<1>2. incoming'[1].key = cmd.key /\ cmd.key \notin DOMAIN orders
  BY DEF ProcessNewOrder, IncomingOrder, AcceptsNewOrder
<1> QED
  BY <1>1, <1>2 DEF DirectoryInv

\* A remainder that rests gets the entry that its key did not have.
LEMMA FinishKeepsDirectory ==
  ASSUME EngineInv, DirectoryInv, RestRemainder \/ DiscardRemainder
  PROVE  DirectoryInv'
<1>1. CASE DiscardRemainder
  BY <1>1 DEF DiscardRemainder, DirectoryInv, Idle
<1>2. CASE RestRemainder
  <2> DEFINE order == incoming[1]
             resting == RestingForm(order)
             ref == [original |-> order.original, handle |-> order.id,
                     instrument |-> order.instrument]
  <2>1. ~Idle /\ order.key \notin DOMAIN orders
    BY <1>2 DEF RestRemainder, MatchingDone, DirectoryInv
  <2>2. order.id \notin DOMAIN slab
    BY <2>1, IncomingTyped, LevelTyped DEF EngineInv, IdsFresh
  <2>3. /\ slab' = InsertOrAssign(slab, order.id, resting)
        /\ orders' = InsertOrAssign(orders, order.key, ref)
        /\ restingOrders' = restingOrders + 1 /\ incoming' = << >>
    BY <1>2 DEF RestRemainder, BookAdd
  <2>4. resting.key = order.key /\ ref.handle = order.id
    BY DEF RestingForm
  <2> HIDE DEF order, resting, ref
  <2>5. /\ DOMAIN slab' = DOMAIN slab \cup {order.id}
        /\ slab'[order.id] = resting
        /\ \A g \in DOMAIN slab : slab'[g] = slab[g]
        /\ DOMAIN orders' = DOMAIN orders \cup {order.key}
        /\ orders'[order.key] = ref
        /\ \A k \in DOMAIN orders : orders'[k] = orders[k]
    BY <2>1, <2>2, <2>3 DEF InsertOrAssign
  <2>6. /\ IsFiniteSet(DOMAIN orders')
        /\ Cardinality(DOMAIN orders') = Cardinality(DOMAIN orders) + 1
    BY <2>1, <2>5, FS_AddElement DEF DirectoryInv
  <2> QED
    BY <2>2, <2>3, <2>4, <2>5, <2>6 DEF DirectoryInv, Idle
<1> QED
  BY <1>1, <1>2

\* Erasing the entry of an order that leaves the book.
LEMMA EntryErased ==
  ASSUME DirectoryInv, NEW h \in DOMAIN slab, NEW k, k = slab[h].key,
         DOMAIN slab' = DOMAIN slab \ {h},
         \A g \in DOMAIN slab' : slab'[g].key = slab[g].key,
         orders' = Erase(orders, k), restingOrders' = restingOrders - 1
  PROVE  /\ DOMAIN orders' = DOMAIN orders \ {k}
         /\ \A g \in DOMAIN slab' : /\ slab'[g].key \in DOMAIN orders'
                                    /\ orders'[slab'[g].key].handle = g
         /\ IsFiniteSet(DOMAIN orders')
         /\ restingOrders' = Cardinality(DOMAIN orders')
<1>1. /\ DOMAIN orders' = DOMAIN orders \ {k}
      /\ \A x \in DOMAIN orders' : orders'[x] = orders[x]
  BY DEF Erase
<1>2. \A g \in DOMAIN slab' : slab[g].key # k
  BY DEF DirectoryInv
<1>3. \A g \in DOMAIN slab' : /\ slab'[g].key \in DOMAIN orders'
                              /\ orders'[slab'[g].key].handle = g
  BY <1>1, <1>2 DEF DirectoryInv
<1>4. k \in DOMAIN orders
  BY DEF DirectoryInv
<1>5. /\ IsFiniteSet(DOMAIN orders')
      /\ Cardinality(DOMAIN orders') = Cardinality(DOMAIN orders) - 1
  BY <1>1, <1>4, FS_RemoveElement DEF DirectoryInv
<1> QED
  BY <1>1, <1>3, <1>5 DEF DirectoryInv

\* A full fill erases the entry with the order.
LEMMA MatchKeepsDirectory ==
  ASSUME EngineInv, DirectoryInv, NEW p \in Prices, MatchAt(p)
  PROVE  DirectoryInv'
<1> DEFINE h == FrontHandle(p)
<1>1. /\ ~Idle /\ h \in DOMAIN slab /\ slab[h] \in BookOrder
      /\ slab = [g \in DOMAIN slab |-> slab[g]]
  BY TradeFacts DEF MatchAt, EngineInv, EngineTypeOK
<1>2. incoming'[1].key = incoming[1].key
  BY IncomingAfterTrade DEF EngineInv
<1>3. CASE FillFront(p)
  <2>1. /\ slab' = Erase(slab, h) /\ orders' = Erase(orders, slab[h].key)
        /\ restingOrders' = restingOrders - 1
    BY <1>3 DEF FillFront
  <2>2. /\ DOMAIN slab' = DOMAIN slab \ {h}
        /\ \A g \in DOMAIN slab' : slab'[g].key = slab[g].key
    BY <2>1 DEF Erase
  <2> HIDE DEF h
  <2>3. /\ DOMAIN orders' = DOMAIN orders \ {slab[h].key}
        /\ \A g \in DOMAIN slab' : /\ slab'[g].key \in DOMAIN orders'
                                   /\ orders'[slab'[g].key].handle = g
        /\ IsFiniteSet(DOMAIN orders')
        /\ restingOrders' = Cardinality(DOMAIN orders')
    BY <1>1, <2>1, <2>2, EntryErased
  <2> QED
    BY <1>1, <1>2, <2>3 DEF DirectoryInv
<1>4. CASE ReduceFront(p)
  <2>1. slab' = [slab EXCEPT ![h].remaining = @ - TradeQuantity(p)]
        /\ UNCHANGED <<orders, restingOrders>>
    BY <1>4 DEF ReduceFront
  <2> HIDE DEF h
  <2>2. /\ DOMAIN slab' = DOMAIN slab
        /\ \A g \in DOMAIN slab : g # h => slab'[g] = slab[g]
        /\ slab'[h].key = slab[h].key
    BY <1>1, <2>1 DEF BookOrder
  <2> QED
    BY <1>1, <1>2, <2>1, <2>2 DEF DirectoryInv
<1> QED
  BY <1>3, <1>4 DEF MatchAt

\* A cancel erases the entry with the order.
LEMMA CancelKeepsDirectory ==
  ASSUME EngineInv, DirectoryInv, NEW cmd \in CancelOrderCommand,
         ProcessCancel(cmd)
  PROVE  DirectoryInv'
<1> DEFINE h == orders[cmd.key].handle
           k == cmd.key
<1>1. h \in DOMAIN slab /\ k = slab[h].key
  BY FoundOrder DEF ProcessCancel
<1>2. /\ slab' = Erase(slab, h) /\ orders' = Erase(orders, k)
      /\ restingOrders' = restingOrders - 1 /\ incoming' = incoming /\ Idle
  BY DEF ProcessCancel, BookRemoveAt
<1>3. /\ DOMAIN slab' = DOMAIN slab \ {h}
      /\ \A g \in DOMAIN slab' : slab'[g].key = slab[g].key
  BY <1>2 DEF Erase
<1> HIDE DEF h, k
<1>4. /\ \A g \in DOMAIN slab' : /\ slab'[g].key \in DOMAIN orders'
                                 /\ orders'[slab'[g].key].handle = g
      /\ IsFiniteSet(DOMAIN orders')
      /\ restingOrders' = Cardinality(DOMAIN orders')
  BY <1>1, <1>2, <1>3, EntryErased
<1> QED
  BY <1>2, <1>4 DEF DirectoryInv, Idle

\* A replace moves the entry to the new key, which no other order has.
LEMMA ReplaceKeepsDirectory ==
  ASSUME EngineInv, DirectoryInv, FreshReplaceIds,
         NEW cmd \in ReplaceOrderCommand, ReplaceIdAllowed(cmd),
         ProcessReplaceInPlace(cmd) \/ ProcessReplaceAsNew(cmd)
  PROVE  DirectoryInv'
<1> DEFINE h == orders[cmd.key].handle
           k == cmd.key
           n == NewKey(cmd)
<1>1. h \in DOMAIN slab /\ k = slab[h].key /\ k \in DOMAIN orders
  BY AcceptedReplace DEF ProcessReplaceInPlace, ProcessReplaceAsNew, Replaced
<1>2. n \notin DOMAIN orders \ {k}
  BY DEF ReplaceIdAllowed
<1>3. CASE ProcessReplaceInPlace(cmd)
  <2>1. /\ orders' = InsertOrAssign(Erase(orders, k), n, orders[k])
        /\ UNCHANGED <<restingOrders, incoming>> /\ Idle
    BY <1>3 DEF ProcessReplaceInPlace
  <2>2. /\ DOMAIN slab' = DOMAIN slab
        /\ \A g \in DOMAIN slab : g # h => slab'[g] = slab[g]
        /\ slab'[h].key = n
    BY <1>3, EditedInPlace
  <2>3. orders[k].handle = h
    OBVIOUS
  <2> HIDE DEF h, k, n
  <2>4. /\ DOMAIN orders' = (DOMAIN orders \ {k}) \cup {n}
        /\ orders'[n] = orders[k]
        /\ \A x \in DOMAIN orders \ {k} : orders'[x] = orders[x]
    BY <1>2, <2>1 DEF InsertOrAssign, Erase
  <2>5. \A g \in DOMAIN slab' : /\ slab'[g].key \in DOMAIN orders'
                                /\ orders'[slab'[g].key].handle = g
    BY <1>1, <2>2, <2>3, <2>4 DEF DirectoryInv
  <2>6. /\ IsFiniteSet(DOMAIN orders \ {k})
        /\ Cardinality(DOMAIN orders \ {k}) = Cardinality(DOMAIN orders) - 1
        /\ Cardinality(DOMAIN orders) \in Nat
    BY <1>1, FS_RemoveElement, FS_CardinalityType DEF DirectoryInv
  <2>7. /\ IsFiniteSet(DOMAIN orders')
        /\ Cardinality(DOMAIN orders') = Cardinality(DOMAIN orders \ {k}) + 1
    <3> DEFINE D == DOMAIN orders \ {k}
    <3>1. DOMAIN orders' = D \cup {n} /\ n \notin D /\ IsFiniteSet(D)
      BY <1>2, <2>4, <2>6
    <3> HIDE DEF D
    <3>2. IsFiniteSet(D \cup {n}) /\ Cardinality(D \cup {n}) = Cardinality(D) + 1
      BY <3>1, FS_AddElement
    <3> QED
      BY <3>1, <3>2 DEF D
  <2> QED
    BY <2>1, <2>5, <2>6, <2>7 DEF DirectoryInv, Idle
<1>4. CASE ProcessReplaceAsNew(cmd)
  <2>1. /\ slab' = Erase(slab, h) /\ orders' = Erase(orders, k)
        /\ restingOrders' = restingOrders - 1
    BY <1>4 DEF ProcessReplaceAsNew, BookRemoveAt
  <2>2. incoming'[1].key = n
    BY <1>4 DEF ProcessReplaceAsNew, IncomingOrder
  <2>3. /\ DOMAIN slab' = DOMAIN slab \ {h}
        /\ \A g \in DOMAIN slab' : slab'[g].key = slab[g].key
    BY <2>1 DEF Erase
  <2> HIDE DEF h, k, n
  <2>4. /\ DOMAIN orders' = DOMAIN orders \ {k}
        /\ \A g \in DOMAIN slab' : /\ slab'[g].key \in DOMAIN orders'
                                   /\ orders'[slab'[g].key].handle = g
        /\ IsFiniteSet(DOMAIN orders')
        /\ restingOrders' = Cardinality(DOMAIN orders')
    BY <1>1, <2>1, <2>3, EntryErased
  <2> QED
    BY <1>2, <2>2, <2>4 DEF DirectoryInv
<1> QED
  BY <1>3, <1>4

-----------------------------------------------------------------------------
(***************************************************************************)
(* What one hold locks, and what a table of holds locks together.          *)
(***************************************************************************)
CashLock(key, side, limit, quantity, a) ==
  IF key[1] = a /\ side = "Buy" THEN quantity * limit ELSE 0

UnitLock(key, i, side, quantity, x) ==
  IF <<key[1], i>> = x /\ side = "Sell" THEN quantity ELSE 0

HoldTable(holds) ==
  /\ DOMAIN holds \subseteq LiveKeys
  /\ IsFiniteSet(DOMAIN holds)
  /\ \A k \in DOMAIN holds : holds[k] \in Hold
  /\ holds = [k \in DOMAIN holds |-> holds[k]]

\* The terms and the keys of the two sums.
CashTerms(holds) ==
  [k \in DOMAIN holds |-> holds[k].remaining * holds[k].limit_price]
CashKeys(holds, a) == {k \in DOMAIN holds : k[1] = a /\ holds[k].side = "Buy"}
UnitTerms(holds) == [k \in DOMAIN holds |-> holds[k].remaining]
UnitKeys(holds, x) ==
  {k \in DOMAIN holds :
     <<k[1], holds[k].instrument>> = x /\ holds[k].side = "Sell"}

\* HeldCash and HeldUnits are sums of these terms over these keys.
LEMMA HeldDefs ==
  ASSUME NEW holds, NEW a
  PROVE  /\ HeldCash(holds, a) = SumOver(CashTerms(holds), CashKeys(holds, a))
         /\ HeldUnits(holds, a) = SumOver(UnitTerms(holds), UnitKeys(holds, a))
  BY DEF HeldCash, HeldUnits, CashTerms, CashKeys, UnitTerms, UnitKeys

\* The fields of a hold in the table.
LEMMA HoldTyped ==
  ASSUME NEW holds, HoldTable(holds), NEW k \in DOMAIN holds
  PROVE  /\ holds[k].remaining \in Nat \ {0} /\ holds[k].limit_price \in Nat \ {0}
         /\ holds[k].remaining * holds[k].limit_price \in Int
         /\ holds[k].side \in Sides /\ holds[k].instrument \in Instruments
         /\ k[1] \in Accounts
<1>1. holds[k] \in Hold /\ k \in LiveKeys
  BY DEF HoldTable
<1>2. /\ holds[k].remaining \in Nat \ {0} /\ holds[k].limit_price \in Prices
      /\ holds[k].side \in Sides /\ holds[k].instrument \in Instruments
  BY <1>1 DEF Hold
<1>3. holds[k].limit_price \in Nat \ {0}
  BY <1>2, PriceAssumption
<1>4. k[1] \in Accounts
  BY <1>1 DEF LiveKeys
<1> QED
  BY <1>2, <1>3, <1>4

\* Both sums are over finite sets of integers.
LEMMA KeysFinite ==
  ASSUME NEW holds, HoldTable(holds), NEW a
  PROVE  /\ IsFiniteSet(CashKeys(holds, a)) /\ IsFiniteSet(UnitKeys(holds, a))
         /\ \A k \in CashKeys(holds, a) : CashTerms(holds)[k] \in Int
         /\ \A k \in UnitKeys(holds, a) : UnitTerms(holds)[k] \in Int
<1>1. /\ CashKeys(holds, a) \subseteq DOMAIN holds
      /\ UnitKeys(holds, a) \subseteq DOMAIN holds
  BY DEF CashKeys, UnitKeys
<1>2. IsFiniteSet(CashKeys(holds, a)) /\ IsFiniteSet(UnitKeys(holds, a))
  BY <1>1, FS_Subset DEF HoldTable
<1>3. \A k \in DOMAIN holds : CashTerms(holds)[k] \in Int /\ UnitTerms(holds)[k] \in Int
  BY HoldTyped DEF CashTerms, UnitTerms
<1> QED
  BY <1>1, <1>2, <1>3

\* So both sums are integers.
LEMMA HeldTyped ==
  ASSUME NEW holds, HoldTable(holds), NEW a
  PROVE  HeldCash(holds, a) \in Int /\ HeldUnits(holds, a) \in Int
<1>1. SumOver(CashTerms(holds), CashKeys(holds, a)) \in Int
  BY KeysFinite, SumTakesOut
<1>2. SumOver(UnitTerms(holds), UnitKeys(holds, a)) \in Int
  BY KeysFinite, SumTakesOut
<1> QED
  BY <1>1, <1>2, HeldDefs

\* Taking a hold out of the table takes out what it locks.
LEMMA HeldErased ==
  ASSUME NEW holds, HoldTable(holds), NEW k \in DOMAIN holds, NEW a
  PROVE  /\ HoldTable(Erase(holds, k))
         /\ HeldCash(Erase(holds, k), a) =
              HeldCash(holds, a) - CashLock(k, holds[k].side,
                holds[k].limit_price, holds[k].remaining, a)
         /\ HeldUnits(Erase(holds, k), a) =
              HeldUnits(holds, a) - UnitLock(k, holds[k].instrument,
                holds[k].side, holds[k].remaining, a)
<1> DEFINE rest == Erase(holds, k)
<1>1. /\ DOMAIN rest = DOMAIN holds \ {k}
      /\ \A x \in DOMAIN rest : rest[x] = holds[x]
      /\ rest = [x \in DOMAIN rest |-> rest[x]]
  BY DEF Erase
<1> HIDE DEF rest
<1>2. IsFiniteSet(DOMAIN rest)
  BY <1>1, FS_Subset DEF HoldTable
<1>3. HoldTable(rest)
  BY <1>1, <1>2 DEF HoldTable
<1>4. /\ CashKeys(rest, a) = CashKeys(holds, a) \ {k}
      /\ UnitKeys(rest, a) = UnitKeys(holds, a) \ {k}
  BY <1>1 DEF CashKeys, UnitKeys
<1>5. /\ \A x \in CashKeys(rest, a) : CashTerms(rest)[x] = CashTerms(holds)[x]
      /\ \A x \in UnitKeys(rest, a) : UnitTerms(rest)[x] = UnitTerms(holds)[x]
  BY <1>1 DEF CashKeys, UnitKeys, CashTerms, UnitTerms
<1>6. /\ HeldCash(rest, a) = SumOver(CashTerms(holds), CashKeys(holds, a) \ {k})
      /\ HeldUnits(rest, a) = SumOver(UnitTerms(holds), UnitKeys(holds, a) \ {k})
  <2>1. SumOver(CashTerms(rest), CashKeys(rest, a))
          = SumOver(CashTerms(holds), CashKeys(rest, a))
    BY <1>3, <1>5, KeysFinite, SumAgrees
  <2>2. SumOver(UnitTerms(rest), UnitKeys(rest, a))
          = SumOver(UnitTerms(holds), UnitKeys(rest, a))
    BY <1>3, <1>5, KeysFinite, SumAgrees
  <2> QED
    BY <1>4, <2>1, <2>2, HeldDefs
<1>7. HeldCash(rest, a) = HeldCash(holds, a) - CashLock(k, holds[k].side,
                            holds[k].limit_price, holds[k].remaining, a)
  <2>1. CASE k \in CashKeys(holds, a)
    <3>1. SumOver(CashTerms(holds), CashKeys(holds, a))
            = CashTerms(holds)[k]
              + SumOver(CashTerms(holds), CashKeys(holds, a) \ {k})
      BY <2>1, KeysFinite, SumTakesOut
    <3>2. CashTerms(holds)[k] = CashLock(k, holds[k].side,
            holds[k].limit_price, holds[k].remaining, a)
      BY <2>1 DEF CashTerms, CashKeys, CashLock
    <3>3. HeldCash(holds, a) = CashTerms(holds)[k] + HeldCash(rest, a)
      BY <1>6, <3>1, HeldDefs
    <3>4. CashTerms(holds)[k] \in Int /\ HeldCash(rest, a) \in Int
      BY <1>3, <2>1, KeysFinite, HeldTyped
    <3> QED
      BY <3>2, <3>3, <3>4
  <2>2. CASE k \notin CashKeys(holds, a)
    <3>1. CashKeys(holds, a) \ {k} = CashKeys(holds, a)
      BY <2>2
    <3>2. CashLock(k, holds[k].side, holds[k].limit_price,
                   holds[k].remaining, a) = 0
      BY <2>2 DEF CashKeys, CashLock
    <3> QED
      BY <1>6, <3>1, <3>2, HeldDefs, HeldTyped
  <2> QED
    BY <2>1, <2>2
<1>8. HeldUnits(rest, a) = HeldUnits(holds, a) - UnitLock(k,
        holds[k].instrument, holds[k].side, holds[k].remaining, a)
  <2>1. CASE k \in UnitKeys(holds, a)
    <3>1. SumOver(UnitTerms(holds), UnitKeys(holds, a))
            = UnitTerms(holds)[k]
              + SumOver(UnitTerms(holds), UnitKeys(holds, a) \ {k})
      BY <2>1, KeysFinite, SumTakesOut
    <3>2. UnitTerms(holds)[k] = UnitLock(k, holds[k].instrument,
            holds[k].side, holds[k].remaining, a)
      BY <2>1 DEF UnitTerms, UnitKeys, UnitLock
    <3>3. HeldUnits(holds, a) = UnitTerms(holds)[k] + HeldUnits(rest, a)
      BY <1>6, <3>1, HeldDefs
    <3>4. UnitTerms(holds)[k] \in Int /\ HeldUnits(rest, a) \in Int
      BY <1>3, <2>1, KeysFinite, HeldTyped
    <3> QED
      BY <3>2, <3>3, <3>4
  <2>2. CASE k \notin UnitKeys(holds, a)
    <3>1. UnitKeys(holds, a) \ {k} = UnitKeys(holds, a)
      BY <2>2
    <3>2. UnitLock(k, holds[k].instrument, holds[k].side,
                   holds[k].remaining, a) = 0
      BY <2>2 DEF UnitKeys, UnitLock
    <3> QED
      BY <1>6, <3>1, <3>2, HeldDefs, HeldTyped
  <2> QED
    BY <2>1, <2>2
<1> QED
  BY <1>3, <1>7, <1>8 DEF rest

\* Putting a hold into the table under a free key adds what it locks.
LEMMA HeldInserted ==
  ASSUME NEW holds, HoldTable(holds), NEW k \in LiveKeys, k \notin DOMAIN holds,
         NEW hold \in Hold, NEW a
  PROVE  /\ HoldTable(InsertOrAssign(holds, k, hold))
         /\ HeldCash(InsertOrAssign(holds, k, hold), a) =
              HeldCash(holds, a)
                + CashLock(k, hold.side, hold.limit_price, hold.remaining, a)
         /\ HeldUnits(InsertOrAssign(holds, k, hold), a) =
              HeldUnits(holds, a)
                + UnitLock(k, hold.instrument, hold.side, hold.remaining, a)
<1> DEFINE more == InsertOrAssign(holds, k, hold)
<1>1. /\ DOMAIN more = DOMAIN holds \cup {k} /\ more[k] = hold
      /\ \A x \in DOMAIN holds : more[x] = holds[x]
      /\ more = [x \in DOMAIN more |-> more[x]]
  BY DEF InsertOrAssign
<1>2. Erase(more, k) = holds
  <2>1. holds = [x \in DOMAIN holds |-> holds[x]]
    BY DEF HoldTable
  <2>2. DOMAIN more \ {k} = DOMAIN holds
    BY <1>1
  <2> HIDE DEF more
  <2> QED
    BY <1>1, <2>1, <2>2 DEF Erase
<1> HIDE DEF more
<1>3. IsFiniteSet(DOMAIN more)
  BY <1>1, FS_AddElement DEF HoldTable
<1>4. HoldTable(more)
  BY <1>1, <1>3 DEF HoldTable
<1>5. k \in DOMAIN more
  BY <1>1
<1>6. /\ HeldCash(holds, a) =
           HeldCash(more, a) - CashLock(k, hold.side, hold.limit_price,
                                        hold.remaining, a)
      /\ HeldUnits(holds, a) =
           HeldUnits(more, a) - UnitLock(k, hold.instrument, hold.side,
                                         hold.remaining, a)
  BY <1>1, <1>2, <1>4, <1>5, HeldErased
<1>7. /\ CashLock(k, hold.side, hold.limit_price, hold.remaining, a) \in Int
      /\ UnitLock(k, hold.instrument, hold.side, hold.remaining, a) \in Int
  BY <1>1, <1>4, <1>5, HoldTyped DEF CashLock, UnitLock
<1>8. HeldCash(more, a) \in Int /\ HeldUnits(more, a) \in Int
  BY <1>4, HeldTyped
<1> QED
  BY <1>4, <1>6, <1>7, <1>8 DEF more

\* Resizing a hold changes what is locked by the difference.
LEMMA HeldResized ==
  ASSUME NEW holds, HoldTable(holds), NEW k \in DOMAIN holds,
         NEW r \in Nat \ {0}, NEW a
  PROVE  LET resized == [holds EXCEPT ![k].remaining = r]
         IN  /\ HoldTable(resized) /\ DOMAIN resized = DOMAIN holds
             /\ \A x \in DOMAIN holds \ {k} : resized[x] = holds[x]
             /\ resized[k] = [instrument |-> holds[k].instrument,
                              side |-> holds[k].side,
                              limit_price |-> holds[k].limit_price,
                              remaining |-> r]
             /\ HeldCash(resized, a) = HeldCash(holds, a)
                  - CashLock(k, holds[k].side, holds[k].limit_price,
                             holds[k].remaining, a)
                  + CashLock(k, holds[k].side, holds[k].limit_price, r, a)
             /\ HeldUnits(resized, a) = HeldUnits(holds, a)
                  - UnitLock(k, holds[k].instrument, holds[k].side,
                             holds[k].remaining, a)
                  + UnitLock(k, holds[k].instrument, holds[k].side, r, a)
<1> DEFINE resized == [holds EXCEPT ![k].remaining = r]
           hold == [instrument |-> holds[k].instrument, side |-> holds[k].side,
                    limit_price |-> holds[k].limit_price, remaining |-> r]
           rest == Erase(holds, k)
<1>1. holds[k] \in Hold /\ k \in LiveKeys /\ holds = [x \in DOMAIN holds |-> holds[x]]
  BY DEF HoldTable
<1>2. hold \in Hold
  BY <1>1 DEF Hold
<1>3. /\ DOMAIN resized = DOMAIN holds /\ resized[k] = hold
      /\ \A x \in DOMAIN holds \ {k} : resized[x] = holds[x]
      /\ resized = [x \in DOMAIN resized |-> resized[x]]
  BY <1>1 DEF Hold
<1>4. /\ DOMAIN rest = DOMAIN holds \ {k}
      /\ \A x \in DOMAIN rest : rest[x] = holds[x]
  BY DEF Erase
<1> HIDE DEF resized, hold
<1>5. resized = InsertOrAssign(rest, k, hold)
  <2> HIDE DEF rest
  <2>1. DOMAIN rest \cup {k} = DOMAIN resized
    BY <1>3, <1>4
  <2>2. \A x \in DOMAIN resized :
          resized[x] = IF x = k THEN hold ELSE rest[x]
    BY <1>3, <1>4
  <2> QED
    BY <1>3, <2>1, <2>2 DEF InsertOrAssign
<1>6. /\ HoldTable(rest)
      /\ HeldCash(rest, a) = HeldCash(holds, a) - CashLock(k, holds[k].side,
           holds[k].limit_price, holds[k].remaining, a)
      /\ HeldUnits(rest, a) = HeldUnits(holds, a) - UnitLock(k,
           holds[k].instrument, holds[k].side, holds[k].remaining, a)
  BY HeldErased
<1>7. k \notin DOMAIN rest
  BY <1>4
<1> HIDE DEF rest
<1>8. /\ HoldTable(resized)
      /\ HeldCash(resized, a) = HeldCash(rest, a)
           + CashLock(k, hold.side, hold.limit_price, hold.remaining, a)
      /\ HeldUnits(resized, a) = HeldUnits(rest, a)
           + UnitLock(k, hold.instrument, hold.side, hold.remaining, a)
  BY <1>1, <1>2, <1>5, <1>6, <1>7, HeldInserted
<1>9. /\ hold.side = holds[k].side /\ hold.limit_price = holds[k].limit_price
      /\ hold.remaining = r /\ hold.instrument = holds[k].instrument
  BY DEF hold
<1> QED
  BY <1>3, <1>6, <1>8, <1>9 DEF resized, hold
-----------------------------------------------------------------------------
(***************************************************************************)
(* The ledger's operations.                                                *)
(***************************************************************************)
IsLedger(l) ==
  /\ l = [cash_total        |-> l.cash_total,
          cash_reserved     |-> l.cash_reserved,
          position_total    |-> l.position_total,
          position_reserved |-> l.position_reserved,
          holds             |-> l.holds,
          hold_count        |-> l.hold_count]
  /\ l.cash_total \in [Accounts -> Int]
  /\ l.cash_reserved \in [Accounts -> Int]
  /\ l.position_total \in [Positions -> Int]
  /\ l.position_reserved \in [Positions -> Int]
  /\ HoldTable(l.holds)
  /\ l.hold_count \in Int

\* What is reserved is what the holds lock.
Backed(l) ==
  /\ \A a \in Accounts : l.cash_reserved[a] = HeldCash(l.holds, a)
  /\ \A x \in Positions : l.position_reserved[x] = HeldUnits(l.holds, x)
  /\ l.hold_count = Cardinality(DOMAIN l.holds)

\* Two ledgers with the same totals.
SameTotals(l, m) ==
  m.cash_total = l.cash_total /\ m.position_total = l.position_total

\* A lock is an integer, and the lock of -n is minus the lock of n.
LEMMA LocksTyped ==
  ASSUME NEW key, NEW i, NEW side, NEW limit \in Int, NEW quantity \in Int,
         NEW a
  PROVE  /\ CashLock(key, side, limit, quantity, a) \in Int
         /\ UnitLock(key, i, side, quantity, a) \in Int
         /\ CashLock(key, side, limit, - quantity, a)
              = - CashLock(key, side, limit, quantity, a)
         /\ UnitLock(key, i, side, - quantity, a)
              = - UnitLock(key, i, side, quantity, a)
<1>1. quantity * limit \in Int /\ (- quantity) * limit = - (quantity * limit)
  OBVIOUS
<1> QED
  BY <1>1 DEF CashLock, UnitLock

\* Reserve changes one reserved balance by the lock of the quantity.
LEMMA ReserveEffect ==
  ASSUME NEW l, IsLedger(l), NEW key \in LiveKeys, NEW i \in Instruments,
         NEW side \in Sides, NEW limit \in Int, NEW quantity \in Int
  PROVE  LET m == Reserve(l, key[1], i, side, limit, quantity)
         IN  /\ IsLedger(m) /\ SameTotals(l, m)
             /\ m.holds = l.holds /\ m.hold_count = l.hold_count
             /\ \A a \in Accounts : m.cash_reserved[a] =
                  l.cash_reserved[a] + CashLock(key, side, limit, quantity, a)
             /\ \A x \in Positions : m.position_reserved[x] =
                  l.position_reserved[x] + UnitLock(key, i, side, quantity, x)
<1> DEFINE c == key[1]
           n == quantity * limit
<1>1. c \in Accounts /\ <<c, i>> \in Positions /\ n \in Int
  BY DEF LiveKeys, Positions
<1>2. CASE side = "Buy"
  <2> DEFINE m == [cash_total        |-> l.cash_total,
                   cash_reserved     |-> [l.cash_reserved EXCEPT ![c] = @ + n],
                   position_total    |-> l.position_total,
                   position_reserved |-> l.position_reserved,
                   holds             |-> l.holds,
                   hold_count        |-> l.hold_count]
  <2>1. Reserve(l, key[1], i, side, limit, quantity) = m
    BY <1>2 DEF Reserve, IsLedger
  <2> HIDE DEF n
  <2>2. \A a \in Accounts : CashLock(key, side, limit, quantity, a)
                              = IF a = c THEN n ELSE 0
    BY <1>2 DEF CashLock, n
  <2>3. \A x \in Positions : UnitLock(key, i, side, quantity, x) = 0
    BY <1>2 DEF UnitLock
  <2>4. /\ m.cash_reserved \in [Accounts -> Int]
        /\ \A a \in Accounts : m.cash_reserved[a] =
             l.cash_reserved[a] + CashLock(key, side, limit, quantity, a)
    <3> HIDE DEF c
    <3> QED
      BY <1>1, <2>2 DEF IsLedger
  <2>5. IsLedger(m)
    BY <2>4 DEF IsLedger
  <2>6. \A x \in Positions : m.position_reserved[x] =
             l.position_reserved[x] + UnitLock(key, i, side, quantity, x)
    BY <2>3 DEF IsLedger
  <2> QED
    BY <2>1, <2>4, <2>5, <2>6 DEF SameTotals
<1>3. CASE side = "Sell"
  <2> DEFINE m == [cash_total        |-> l.cash_total,
                   cash_reserved     |-> l.cash_reserved,
                   position_total    |-> l.position_total,
                   position_reserved |-> [l.position_reserved
                                            EXCEPT ![<<c, i>>] = @ + quantity],
                   holds             |-> l.holds,
                   hold_count        |-> l.hold_count]
  <2>1. Reserve(l, key[1], i, side, limit, quantity) = m
    BY <1>3 DEF Reserve, IsLedger
  <2>2. \A a \in Accounts : CashLock(key, side, limit, quantity, a) = 0
    BY <1>3 DEF CashLock
  <2>3. \A x \in Positions : UnitLock(key, i, side, quantity, x)
                               = IF x = <<c, i>> THEN quantity ELSE 0
    BY <1>3 DEF UnitLock
  <2>4. /\ m.position_reserved \in [Positions -> Int]
        /\ \A x \in Positions : m.position_reserved[x] =
             l.position_reserved[x] + UnitLock(key, i, side, quantity, x)
    <3> DEFINE y == <<c, i>>
    <3> HIDE DEF y, m
    <3>1. m.position_reserved = [l.position_reserved EXCEPT ![y] = @ + quantity]
      BY DEF y, m
    <3>2. y \in Positions /\ \A x \in Positions :
            UnitLock(key, i, side, quantity, x) = IF x = y THEN quantity ELSE 0
      BY <1>1, <2>3 DEF y
    <3> QED
      BY <3>1, <3>2 DEF IsLedger
  <2>5. IsLedger(m)
    BY <2>4 DEF IsLedger
  <2>6. \A a \in Accounts : m.cash_reserved[a] =
             l.cash_reserved[a] + CashLock(key, side, limit, quantity, a)
    BY <2>2 DEF IsLedger
  <2> QED
    BY <2>1, <2>4, <2>5, <2>6 DEF SameTotals
<1> QED
  BY <1>2, <1>3 DEF Sides

\* A hold is opened under a free key: it is in the table and reserved for.
LEMMA OpenHoldEffect ==
  ASSUME NEW l, IsLedger(l), Backed(l), NEW key \in LiveKeys,
         key \notin DOMAIN l.holds, NEW i \in Instruments, NEW side \in Sides,
         NEW limit \in Prices, NEW quantity \in Nat \ {0}
  PROVE  LET m == OpenHold(l, key, i, side, limit, quantity)
         IN  /\ IsLedger(m) /\ Backed(m) /\ SameTotals(l, m)
             /\ m.holds = InsertOrAssign(l.holds, key,
                  [instrument |-> i, side |-> side, limit_price |-> limit,
                   remaining |-> quantity])
             /\ \A a \in Accounts : m.cash_reserved[a] =
                  l.cash_reserved[a] + CashLock(key, side, limit, quantity, a)
             /\ \A x \in Positions : m.position_reserved[x] =
                  l.position_reserved[x] + UnitLock(key, i, side, quantity, x)
<1> DEFINE r == Reserve(l, key[1], i, side, limit, quantity)
           hold == [instrument |-> i, side |-> side, limit_price |-> limit,
                    remaining |-> quantity]
           holds == InsertOrAssign(l.holds, key, hold)
           m == [cash_total        |-> r.cash_total,
                 cash_reserved     |-> r.cash_reserved,
                 position_total    |-> r.position_total,
                 position_reserved |-> r.position_reserved,
                 holds             |-> holds,
                 hold_count        |-> l.hold_count + 1]
<1>1. limit \in Int
  BY PriceAssumption
<1>2. /\ IsLedger(r) /\ SameTotals(l, r)
      /\ r.holds = l.holds /\ r.hold_count = l.hold_count
      /\ \A a \in Accounts : r.cash_reserved[a] =
           l.cash_reserved[a] + CashLock(key, side, limit, quantity, a)
      /\ \A x \in Positions : r.position_reserved[x] =
           l.position_reserved[x] + UnitLock(key, i, side, quantity, x)
  BY <1>1, ReserveEffect
<1>3. OpenHold(l, key, i, side, limit, quantity) = m
  <2> HIDE DEF r, hold
  <2>1. OpenHold(l, key, i, side, limit, quantity) =
          [r EXCEPT !.holds = InsertOrAssign(@, key, hold),
                    !.hold_count = IF key \in DOMAIN l.holds THEN @ ELSE @ + 1]
    BY DEF OpenHold, r, hold
  <2> QED
    BY <1>2, <2>1 DEF IsLedger
<1>4. hold \in Hold
  BY DEF Hold
<1>5. /\ HoldTable(l.holds) /\ IsFiniteSet(DOMAIN l.holds)
      /\ l.hold_count = Cardinality(DOMAIN l.holds)
  BY DEF IsLedger, HoldTable, Backed
<1>6. /\ HoldTable(holds)
      /\ \A a : /\ HeldCash(holds, a) = HeldCash(l.holds, a)
                   + CashLock(key, side, limit, quantity, a)
               /\ HeldUnits(holds, a) = HeldUnits(l.holds, a)
                   + UnitLock(key, i, side, quantity, a)
  <2>1. /\ hold.side = side /\ hold.limit_price = limit
        /\ hold.remaining = quantity /\ hold.instrument = i
    OBVIOUS
  <2> HIDE DEF hold
  <2> QED
    BY <1>4, <1>5, <2>1, HeldInserted
<1>7. Cardinality(DOMAIN holds) = l.hold_count + 1
  <2>1. DOMAIN holds = DOMAIN l.holds \cup {key}
    BY DEF InsertOrAssign
  <2> QED
    BY <1>5, <2>1, FS_AddElement
<1> HIDE DEF r, hold, holds
<1>8. IsLedger(m)
  BY <1>2, <1>6 DEF IsLedger
<1>9. Backed(m)
  BY <1>2, <1>6, <1>7 DEF Backed
<1> QED
  BY <1>2, <1>3, <1>8, <1>9 DEF SameTotals, holds, hold

\* A hold is released in full and leaves the table.
LEMMA ReleaseEffect ==
  ASSUME NEW l, IsLedger(l), Backed(l), NEW key \in DOMAIN l.holds
  PROVE  LET m == EraseHold(ReleaseHoldFully(l, key), key)
             hold == l.holds[key]
         IN  /\ IsLedger(m) /\ Backed(m) /\ SameTotals(l, m)
             /\ m.holds = Erase(l.holds, key)
             /\ \A a \in Accounts : m.cash_reserved[a] =
                  l.cash_reserved[a] - CashLock(key, hold.side,
                    hold.limit_price, hold.remaining, a)
             /\ \A x \in Positions : m.position_reserved[x] =
                  l.position_reserved[x] - UnitLock(key, hold.instrument,
                    hold.side, hold.remaining, x)
<1> DEFINE hold == l.holds[key]
           r == Reserve(l, key[1], hold.instrument, hold.side,
                        hold.limit_price, - hold.remaining)
           holds == Erase(l.holds, key)
           m == [cash_total        |-> r.cash_total,
                 cash_reserved     |-> r.cash_reserved,
                 position_total    |-> r.position_total,
                 position_reserved |-> r.position_reserved,
                 holds             |-> holds,
                 hold_count        |-> l.hold_count - 1]
<1>1. /\ HoldTable(l.holds) /\ IsFiniteSet(DOMAIN l.holds) /\ key \in LiveKeys
      /\ l.hold_count = Cardinality(DOMAIN l.holds)
  BY DEF IsLedger, HoldTable, Backed
<1>2. /\ hold.instrument \in Instruments /\ hold.side \in Sides
      /\ hold.limit_price \in Int /\ hold.remaining \in Int
      /\ - hold.remaining \in Int
  BY <1>1, HoldTyped
<1> HIDE DEF hold
<1>3. /\ IsLedger(r) /\ SameTotals(l, r)
      /\ r.holds = l.holds /\ r.hold_count = l.hold_count
      /\ \A a \in Accounts : r.cash_reserved[a] = l.cash_reserved[a]
           + CashLock(key, hold.side, hold.limit_price, - hold.remaining, a)
      /\ \A x \in Positions : r.position_reserved[x] = l.position_reserved[x]
           + UnitLock(key, hold.instrument, hold.side, - hold.remaining, x)
  <2> DEFINE i == hold.instrument
             s == hold.side
             p == hold.limit_price
             n == - hold.remaining
             q == Reserve(l, key[1], i, s, p, n)
  <2>1. i \in Instruments /\ s \in Sides /\ p \in Int /\ n \in Int
    BY <1>2
  <2> HIDE DEF i, s, p, n
  <2>2. /\ IsLedger(q) /\ SameTotals(l, q)
        /\ q.holds = l.holds /\ q.hold_count = l.hold_count
        /\ \A a \in Accounts : q.cash_reserved[a] =
             l.cash_reserved[a] + CashLock(key, s, p, n, a)
        /\ \A x \in Positions : q.position_reserved[x] =
             l.position_reserved[x] + UnitLock(key, i, s, n, x)
    BY ZenonT(40), <1>1, <2>1, ReserveEffect
  <2> QED
    BY <2>2 DEF i, s, p, n
<1>4. ReleaseHoldFully(l, key) = r
  BY DEF ReleaseHoldFully, hold
<1> HIDE DEF r
<1>5. EraseHold(r, key) = m
  <2>1. EraseHold(r, key) = [r EXCEPT !.holds = Erase(r.holds, key),
                                      !.hold_count = r.hold_count - 1]
    BY DEF EraseHold
  <2> HIDE DEF holds
  <2>2. EraseHold(r, key) = [r EXCEPT !.holds = holds,
                                      !.hold_count = l.hold_count - 1]
    BY <1>3, <2>1 DEF holds
  <2> QED
    BY <1>3, <2>2 DEF IsLedger
<1>6. /\ HoldTable(holds)
      /\ \A a : /\ HeldCash(holds, a) = HeldCash(l.holds, a)
                   - CashLock(key, hold.side, hold.limit_price, hold.remaining, a)
               /\ HeldUnits(holds, a) = HeldUnits(l.holds, a)
                   - UnitLock(key, hold.instrument, hold.side, hold.remaining, a)
  BY <1>1, HeldErased DEF hold
<1>7. Cardinality(DOMAIN holds) = l.hold_count - 1
  <2>1. DOMAIN holds = DOMAIN l.holds \ {key}
    BY DEF Erase
  <2> QED
    BY <1>1, <2>1, FS_RemoveElement
<1> HIDE DEF holds
<1>8. /\ \A a \in Accounts : m.cash_reserved[a] = l.cash_reserved[a]
           - CashLock(key, hold.side, hold.limit_price, hold.remaining, a)
      /\ \A x \in Positions : m.position_reserved[x] = l.position_reserved[x]
           - UnitLock(key, hold.instrument, hold.side, hold.remaining, x)
  <2>1. \A a : /\ CashLock(key, hold.side, hold.limit_price, - hold.remaining, a)
                  = - CashLock(key, hold.side, hold.limit_price, hold.remaining, a)
               /\ CashLock(key, hold.side, hold.limit_price, hold.remaining, a) \in Int
               /\ UnitLock(key, hold.instrument, hold.side, - hold.remaining, a)
                  = - UnitLock(key, hold.instrument, hold.side, hold.remaining, a)
               /\ UnitLock(key, hold.instrument, hold.side, hold.remaining, a) \in Int
    BY <1>2, LocksTyped
  <2>2. /\ \A a \in Accounts : l.cash_reserved[a] \in Int
        /\ \A x \in Positions : l.position_reserved[x] \in Int
    BY DEF IsLedger
  <2> QED
    BY <1>3, <2>1, <2>2
<1>9. IsLedger(m)
  BY <1>3, <1>6 DEF IsLedger
<1>10. Backed(m)
  BY <1>6, <1>7, <1>8 DEF Backed
<1> QED
  BY <1>3, <1>4, <1>5, <1>8, <1>9, <1>10 DEF SameTotals, holds, hold

\* The leg of a trade agrees with the hold of its order, if there is one.
LegFits(l, leg, side, i, quantity) ==
  /\ leg.key \in LiveKeys /\ leg.remaining \in Nat
  /\ leg.key \in DOMAIN l.holds =>
       /\ l.holds[leg.key].side = side
       /\ l.holds[leg.key].instrument = i
       /\ l.holds[leg.key].remaining = leg.remaining + quantity

\* What a fill releases of the leg's hold.
CashReleased(l, leg, side, quantity, a) ==
  IF leg.key \in DOMAIN l.holds
  THEN CashLock(leg.key, side, l.holds[leg.key].limit_price, quantity, a)
  ELSE 0

UnitsReleased(l, leg, side, i, quantity, x) ==
  IF leg.key \in DOMAIN l.holds
  THEN UnitLock(leg.key, i, side, quantity, x)
  ELSE 0

\* The table of holds after a fill of the leg.
HoldsAfterFill(l, leg, holds) ==
  /\ DOMAIN holds = IF leg.remaining = 0 THEN DOMAIN l.holds \ {leg.key}
                                         ELSE DOMAIN l.holds
  /\ \A k \in DOMAIN holds : k # leg.key => holds[k] = l.holds[k]
  /\ leg.key \in DOMAIN holds =>
       holds[leg.key] = [instrument  |-> l.holds[leg.key].instrument,
                         side        |-> l.holds[leg.key].side,
                         limit_price |-> l.holds[leg.key].limit_price,
                         remaining   |-> leg.remaining]

\* The lock of a quantity in two parts.
LEMMA LocksAdd ==
  ASSUME NEW key, NEW i, NEW side, NEW limit \in Int, NEW q \in Int,
         NEW r \in Int, NEW a
  PROVE  /\ CashLock(key, side, limit, r + q, a) =
              CashLock(key, side, limit, r, a) + CashLock(key, side, limit, q, a)
         /\ UnitLock(key, i, side, r + q, a) =
              UnitLock(key, i, side, r, a) + UnitLock(key, i, side, q, a)
<1>1. (r + q) * limit = r * limit + q * limit /\ r * limit \in Int /\ q * limit \in Int
  OBVIOUS
<1> QED
  BY <1>1 DEF CashLock, UnitLock

\* ReleaseSlice shrinks the hold of the leg, or erases it, and releases at
\* the limit of the order the slice that was filled.
LEMMA SliceEffect ==
  ASSUME NEW l, IsLedger(l), Backed(l), NEW i \in Instruments, NEW side \in Sides,
         NEW quantity \in Nat \ {0}, NEW leg, LegFits(l, leg, side, i, quantity)
  PROVE  LET m == ReleaseSlice(l, leg, side, i, quantity)
         IN  /\ IsLedger(m) /\ Backed(m) /\ SameTotals(l, m)
             /\ HoldsAfterFill(l, leg, m.holds)
             /\ \A a \in Accounts : m.cash_reserved[a] =
                  l.cash_reserved[a] - CashReleased(l, leg, side, quantity, a)
             /\ \A x \in Positions : m.position_reserved[x] =
                  l.position_reserved[x] - UnitsReleased(l, leg, side, i, quantity, x)
<1> DEFINE key == leg.key
<1>0. /\ \A a \in Accounts : l.cash_reserved[a] \in Int
      /\ \A x \in Positions : l.position_reserved[x] \in Int
      /\ HoldTable(l.holds) /\ IsFiniteSet(DOMAIN l.holds)
      /\ l.hold_count = Cardinality(DOMAIN l.holds)
  BY DEF IsLedger, HoldTable, Backed
<1>1. CASE key \notin DOMAIN l.holds
  <2>1. ReleaseSlice(l, leg, side, i, quantity) = l
    BY <1>1 DEF ReleaseSlice
  <2>2. HoldsAfterFill(l, leg, l.holds)
    BY <1>1 DEF HoldsAfterFill
  <2> QED
    BY <1>0, <1>1, <2>1, <2>2 DEF SameTotals, CashReleased, UnitsReleased
<1>2. CASE key \in DOMAIN l.holds
  <2> DEFINE hold == l.holds[key]
             p == hold.limit_price
             n == - quantity
             r == Reserve(l, key[1], i, side, p, n)
  <2>1. /\ key \in LiveKeys /\ leg.remaining \in Nat /\ p \in Int /\ n \in Int
        /\ hold.side = side /\ hold.instrument = i
        /\ hold.remaining = leg.remaining + quantity
        /\ hold.remaining \in Nat \ {0}
    BY <1>0, <1>2, HoldTyped DEF LegFits
  <2> HIDE DEF n, p, key
  <2>2. /\ IsLedger(r) /\ SameTotals(l, r)
        /\ r.holds = l.holds /\ r.hold_count = l.hold_count
        /\ \A a \in Accounts : r.cash_reserved[a] =
             l.cash_reserved[a] + CashLock(key, side, p, n, a)
        /\ \A x \in Positions : r.position_reserved[x] =
             l.position_reserved[x] + UnitLock(key, i, side, n, x)
    BY SMTT(40), <2>1, ReserveEffect
  <2>3. \A a : /\ CashLock(key, side, p, n, a) = - CashLock(key, side, p, quantity, a)
               /\ UnitLock(key, i, side, n, a) = - UnitLock(key, i, side, quantity, a)
               /\ CashLock(key, side, p, quantity, a) \in Int
               /\ UnitLock(key, i, side, quantity, a) \in Int
               /\ CashReleased(l, leg, side, quantity, a)
                    = CashLock(key, side, p, quantity, a)
               /\ UnitsReleased(l, leg, side, i, quantity, a)
                    = UnitLock(key, i, side, quantity, a)
    BY <1>2, <2>1, LocksTyped DEF n, p, key, CashReleased, UnitsReleased
  <2>4. /\ \A a \in Accounts : r.cash_reserved[a] =
             l.cash_reserved[a] - CashLock(key, side, p, quantity, a)
        /\ \A x \in Positions : r.position_reserved[x] =
             l.position_reserved[x] - UnitLock(key, i, side, quantity, x)
    BY <1>0, <2>2, <2>3
  <2>5. ReleaseSlice(l, leg, side, i, quantity) =
          IF leg.remaining = 0 THEN EraseHold(r, key)
          ELSE [r EXCEPT !.holds[key].remaining = leg.remaining]
    BY <1>2 DEF ReleaseSlice, key, p, n
  <2> HIDE DEF r
  <2>6. CASE leg.remaining = 0
    <3> DEFINE holds == Erase(l.holds, key)
               m == [cash_total        |-> r.cash_total,
                     cash_reserved     |-> r.cash_reserved,
                     position_total    |-> r.position_total,
                     position_reserved |-> r.position_reserved,
                     holds             |-> holds,
                     hold_count        |-> l.hold_count - 1]
    <3>1. EraseHold(r, key) = m
      <4>1. EraseHold(r, key) = [r EXCEPT !.holds = Erase(r.holds, key),
                                          !.hold_count = r.hold_count - 1]
        BY DEF EraseHold
      <4> HIDE DEF holds
      <4>2. EraseHold(r, key) = [r EXCEPT !.holds = holds,
                                          !.hold_count = l.hold_count - 1]
        BY <2>2, <4>1 DEF holds
      <4> QED
        BY <2>2, <4>2 DEF IsLedger
    <3>2. /\ HoldTable(holds)
          /\ \A a : /\ HeldCash(holds, a) = HeldCash(l.holds, a)
                       - CashLock(key, hold.side, hold.limit_price, hold.remaining, a)
                   /\ HeldUnits(holds, a) = HeldUnits(l.holds, a)
                       - UnitLock(key, hold.instrument, hold.side, hold.remaining, a)
      BY <1>0, <1>2, HeldErased DEF key
    <3>3. hold.remaining = quantity /\ p = hold.limit_price
      BY <2>1, <2>6 DEF p
    <3>4. DOMAIN holds = DOMAIN l.holds \ {key} /\ \A k \in DOMAIN holds : holds[k] = l.holds[k]
      BY DEF Erase
    <3>5. Cardinality(DOMAIN holds) = l.hold_count - 1
      BY <1>0, <1>2, <3>4, FS_RemoveElement DEF key
    <3> HIDE DEF holds, hold
    <3>6. IsLedger(m)
      BY <2>2, <3>2 DEF IsLedger
    <3>7. Backed(m)
      BY <2>1, <2>4, <3>2, <3>3, <3>5 DEF Backed
    <3>8. HoldsAfterFill(l, leg, holds)
      BY <2>6, <3>4 DEF HoldsAfterFill, key
    <3> QED
      BY <2>2, <2>3, <2>4, <2>5, <2>6, <3>1, <3>6, <3>7, <3>8 DEF SameTotals
  <2>7. CASE leg.remaining # 0
    <3> DEFINE n2 == leg.remaining
               holds == [l.holds EXCEPT ![key].remaining = n2]
               m == [cash_total        |-> r.cash_total,
                     cash_reserved     |-> r.cash_reserved,
                     position_total    |-> r.position_total,
                     position_reserved |-> r.position_reserved,
                     holds             |-> holds,
                     hold_count        |-> l.hold_count]
    <3>1. [r EXCEPT !.holds[key].remaining = leg.remaining] = m
      <4>1. [r EXCEPT !.holds[key].remaining = leg.remaining]
              = [r EXCEPT !.holds = [r.holds EXCEPT ![key].remaining = n2]]
        OBVIOUS
      <4>2. [r.holds EXCEPT ![key].remaining = n2] = holds
        BY <2>2
      <4> HIDE DEF holds, n2
      <4> QED
        BY <2>2, <4>1, <4>2 DEF IsLedger
    <3>2. n2 \in Nat \ {0} /\ key \in DOMAIN l.holds
      BY <1>2, <2>1, <2>7 DEF key
    <3> HIDE DEF n2
    <3>3. /\ HoldTable(holds) /\ DOMAIN holds = DOMAIN l.holds
          /\ \A x \in DOMAIN l.holds \ {key} : holds[x] = l.holds[x]
          /\ holds[key] = [instrument |-> hold.instrument, side |-> hold.side,
                           limit_price |-> hold.limit_price, remaining |-> n2]
          /\ \A a : /\ HeldCash(holds, a) = HeldCash(l.holds, a)
                       - CashLock(key, hold.side, hold.limit_price, hold.remaining, a)
                       + CashLock(key, hold.side, hold.limit_price, n2, a)
                   /\ HeldUnits(holds, a) = HeldUnits(l.holds, a)
                       - UnitLock(key, hold.instrument, hold.side, hold.remaining, a)
                       + UnitLock(key, hold.instrument, hold.side, n2, a)
      BY <1>0, <3>2, HeldResized
    <3>4. hold.remaining = n2 + quantity /\ p = hold.limit_price
      BY <2>1 DEF p, n2
    <3> HIDE DEF holds, hold
    <3>5. \A a : /\ HeldCash(holds, a) = HeldCash(l.holds, a)
                       - CashLock(key, side, p, quantity, a)
                 /\ HeldUnits(holds, a) = HeldUnits(l.holds, a)
                       - UnitLock(key, i, side, quantity, a)
      <4> TAKE a
      <4>1. HeldCash(l.holds, a) \in Int /\ HeldUnits(l.holds, a) \in Int
        BY <1>0, HeldTyped
      <4>2. CashLock(key, side, p, n2, a) \in Int /\ UnitLock(key, i, side, n2, a) \in Int
        BY <2>1, <3>2, LocksTyped
      <4>3. /\ CashLock(key, side, p, n2 + quantity, a)
                 = CashLock(key, side, p, n2, a) + CashLock(key, side, p, quantity, a)
            /\ UnitLock(key, i, side, n2 + quantity, a)
                 = UnitLock(key, i, side, n2, a) + UnitLock(key, i, side, quantity, a)
        <5>1. n2 \in Int /\ quantity \in Int /\ p \in Int
          BY <2>1, <3>2
        <5> QED
          BY <5>1, LocksAdd
      <4> QED
        BY <2>1, <2>3, <3>3, <3>4, <4>1, <4>2, <4>3
    <3>6. IsLedger(m)
      BY <2>2, <3>3 DEF IsLedger
    <3>7. Backed(m)
      BY <1>0, <2>4, <3>3, <3>5, Zenon DEF Backed
    <3>8. HoldsAfterFill(l, leg, holds)
      BY <2>7, <3>3 DEF HoldsAfterFill, key, n2, hold
    <3> QED
      BY <2>2, <2>3, <2>4, <2>5, <2>7, <3>1, <3>6, <3>7, <3>8 DEF SameTotals
  <2> QED
    BY <2>6, <2>7
<1> QED
  BY <1>1, <1>2

\* Units of one instrument over all accounts.
UnitsOf(l, i) == [a \in Accounts |-> l.position_total[<<a, i>>]]

Bought(side, quantity) == IF side = "Buy" THEN quantity ELSE - quantity

\* Settle moves one cash total and one position total, and with them the sums.
LEMMA SettleEffect ==
  ASSUME NEW l, IsLedger(l), NEW c \in Accounts, NEW side \in Sides,
         NEW i \in Instruments, NEW price \in Int, NEW quantity \in Int
  PROVE  LET m == Settle(l, c, side, i, price, quantity)
             n == Bought(side, quantity)
         IN  /\ IsLedger(m)
             /\ m.cash_reserved = l.cash_reserved
             /\ m.position_reserved = l.position_reserved
             /\ m.holds = l.holds /\ m.hold_count = l.hold_count
             /\ \A a \in Accounts : m.cash_total[a] =
                  l.cash_total[a] - (IF a = c THEN n * price ELSE 0)
             /\ \A x \in Positions : m.position_total[x] =
                  l.position_total[x] + (IF x = <<c, i>> THEN n ELSE 0)
             /\ SumOver(m.cash_total, Accounts) =
                  SumOver(l.cash_total, Accounts) - n * price
             /\ \A j \in Instruments : SumOver(UnitsOf(m, j), Accounts) =
                  SumOver(UnitsOf(l, j), Accounts) + (IF j = i THEN n ELSE 0)
<1> DEFINE n == Bought(side, quantity)
           d == n * price
           y == <<c, i>>
           cash == [l.cash_total EXCEPT ![c] = @ - d]
           units == [l.position_total EXCEPT ![y] = @ + n]
           m == [cash_total        |-> cash,
                 cash_reserved     |-> l.cash_reserved,
                 position_total    |-> units,
                 position_reserved |-> l.position_reserved,
                 holds             |-> l.holds,
                 hold_count        |-> l.hold_count]
<1>1. n \in Int /\ y \in Positions
  BY DEF Bought, Positions
<1>2. d \in Int
  <2> HIDE DEF n
  <2> QED
    BY <1>1
<1>3. Settle(l, c, side, i, price, quantity) = m
  <2>1. Settle(l, c, side, i, price, quantity)
          = [l EXCEPT !.cash_total[c] = @ - d, !.position_total[y] = @ + n]
    BY DEF Settle, Bought
  <2> HIDE DEF n, d, y
  <2> QED
    BY <2>1 DEF IsLedger
<1> HIDE DEF n, d, y
<1>4. /\ cash \in [Accounts -> Int] /\ units \in [Positions -> Int]
      /\ \A a \in Accounts : cash[a] = l.cash_total[a] - (IF a = c THEN d ELSE 0)
      /\ \A x \in Positions : units[x] = l.position_total[x] + (IF x = y THEN n ELSE 0)
  BY <1>1, <1>2 DEF IsLedger
<1> HIDE DEF cash, units
<1>5. IsLedger(m)
  BY <1>4 DEF IsLedger
<1>6. SumOver(cash, Accounts) = SumOver(l.cash_total, Accounts) - d
  <2>1. \A a \in Accounts : l.cash_total[a] \in Int
    BY DEF IsLedger
  <2> DEFINE f == l.cash_total
             e == - d
  <2>2. e \in Int /\ cash[c] = f[c] + e /\ \A a \in Accounts \ {c} : cash[a] = f[a]
    BY <1>2, <1>4, <2>1
  <2> HIDE DEF f, e
  <2>3. SumOver(cash, Accounts) = SumOver(f, Accounts) + e
    BY <2>1, <2>2, AccountAssumption, SumChangesBy DEF f
  <2>4. SumOver(f, Accounts) \in Int
    BY <2>1, AccountAssumption, SumTakesOut DEF f
  <2> QED
    BY <1>2, <2>3, <2>4 DEF f, e
<1>7. ASSUME NEW j \in Instruments
      PROVE  SumOver(UnitsOf(m, j), Accounts) =
               SumOver(UnitsOf(l, j), Accounts) + (IF j = i THEN n ELSE 0)
  <2> DEFINE f == UnitsOf(l, j)
             g == UnitsOf(m, j)
  <2>1. \A a \in Accounts : /\ <<a, j>> \in Positions
                             /\ f[a] = l.position_total[<<a, j>>] /\ f[a] \in Int
                             /\ g[a] = units[<<a, j>>]
    BY DEF UnitsOf, IsLedger, Positions
  <2> HIDE DEF f, g
  <2>2. \A a \in Accounts : f[a] \in Int
    BY <2>1
  <2>3. \A a : <<a, j>> = y <=> a = c /\ j = i
    BY DEF y
  <2>4. \A a \in Accounts : g[a] = f[a] + (IF a = c /\ j = i THEN n ELSE 0)
    BY <1>4, <2>1, <2>3
  <2>5. CASE j = i
    <3>1. g[c] = f[c] + n /\ \A a \in Accounts \ {c} : g[a] = f[a]
      BY <2>2, <2>4, <2>5
    <3>2. SumOver(g, Accounts) = SumOver(f, Accounts) + n
      BY <1>1, <2>2, <3>1, AccountAssumption, SumChangesBy
    <3> QED
      BY <2>5, <3>2 DEF f, g
  <2>6. CASE j # i
    <3>1. \A a \in Accounts : g[a] = f[a]
      BY <2>2, <2>4, <2>6
    <3>2. SumOver(g, Accounts) = SumOver(f, Accounts) /\ SumOver(f, Accounts) \in Int
      BY <2>1, <3>1, AccountAssumption, SumAgrees, SumTakesOut
    <3> QED
      BY <2>6, <3>2 DEF f, g
  <2> QED
    BY <2>5, <2>6
<1> QED
  BY <1>3, <1>4, <1>5, <1>6, <1>7 DEF d, y, n

\* What one leg of a trade does to the ledger l: the filled slice of its hold
\* is released, then the totals move.
LegSettled(l, m, leg, side, i, price, quantity) ==
  LET n == Bought(side, quantity)
  IN  /\ IsLedger(m) /\ Backed(m) /\ HoldsAfterFill(l, leg, m.holds)
      /\ \A a \in Accounts : m.cash_reserved[a] =
           l.cash_reserved[a] - CashReleased(l, leg, side, quantity, a)
      /\ \A x \in Positions : m.position_reserved[x] =
           l.position_reserved[x] - UnitsReleased(l, leg, side, i, quantity, x)
      /\ \A a \in Accounts : m.cash_total[a] =
           l.cash_total[a] - (IF a = leg.key[1] THEN n * price ELSE 0)
      /\ \A x \in Positions : m.position_total[x] =
           l.position_total[x] + (IF x = <<leg.key[1], i>> THEN n ELSE 0)
      /\ SumOver(m.cash_total, Accounts) =
           SumOver(l.cash_total, Accounts) - n * price
      /\ \A j \in Instruments : SumOver(UnitsOf(m, j), Accounts) =
           SumOver(UnitsOf(l, j), Accounts) + (IF j = i THEN n ELSE 0)

\* SettleLeg is a slice followed by a settlement.
LEMMA SettleLegEffect ==
  ASSUME NEW l, IsLedger(l), Backed(l), NEW i \in Instruments, NEW side \in Sides,
         NEW price \in Int, NEW quantity \in Nat \ {0},
         NEW leg, LegFits(l, leg, side, i, quantity)
  PROVE  LegSettled(l, SettleLeg(l, leg, side, i, price, quantity), leg, side,
                    i, price, quantity)
<1> DEFINE r == ReleaseSlice(l, leg, side, i, quantity)
           c == leg.key[1]
           m == Settle(r, c, side, i, price, quantity)
           n == Bought(side, quantity)
<1>1. /\ IsLedger(r) /\ Backed(r) /\ SameTotals(l, r)
      /\ HoldsAfterFill(l, leg, r.holds)
      /\ \A a \in Accounts : r.cash_reserved[a] =
           l.cash_reserved[a] - CashReleased(l, leg, side, quantity, a)
      /\ \A x \in Positions : r.position_reserved[x] =
           l.position_reserved[x] - UnitsReleased(l, leg, side, i, quantity, x)
  BY SliceEffect
<1>2. c \in Accounts
  BY DEF LegFits, LiveKeys
<1> HIDE DEF r, c
<1>3. /\ IsLedger(m)
      /\ m.cash_reserved = r.cash_reserved
      /\ m.position_reserved = r.position_reserved
      /\ m.holds = r.holds /\ m.hold_count = r.hold_count
      /\ \A a \in Accounts : m.cash_total[a] =
           r.cash_total[a] - (IF a = c THEN n * price ELSE 0)
      /\ \A x \in Positions : m.position_total[x] =
           r.position_total[x] + (IF x = <<c, i>> THEN n ELSE 0)
      /\ SumOver(m.cash_total, Accounts) =
           SumOver(r.cash_total, Accounts) - n * price
      /\ \A j \in Instruments : SumOver(UnitsOf(m, j), Accounts) =
           SumOver(UnitsOf(r, j), Accounts) + (IF j = i THEN n ELSE 0)
  <2>1. quantity \in Int
    OBVIOUS
  <2> QED
    BY <1>1, <1>2, <2>1, SettleEffect
<1>4. SettleLeg(l, leg, side, i, price, quantity) = m
  BY DEF SettleLeg, r, c
<1> HIDE DEF m, n
<1>5. Backed(m)
  BY <1>1, <1>3 DEF Backed
<1>6. \A j : UnitsOf(r, j) = UnitsOf(l, j)
  BY <1>1 DEF UnitsOf, SameTotals
<1>7. r.cash_total = l.cash_total /\ r.position_total = l.position_total
  BY <1>1 DEF SameTotals
<1> QED
  BY <1>1, <1>3, <1>4, <1>5, <1>6, <1>7 DEF c, n, LegSettled

\* What is free: not reserved for a hold.
CashFree(l, a) == l.cash_total[a] - l.cash_reserved[a]
UnitsFree(l, x) == l.position_total[x] - l.position_reserved[x]

\* What a trade between two orders does to the ledger l: both holds shrink by
\* the fill, the free balances move by what is paid and delivered beyond what
\* was locked, and nothing is created.
TradeSettled(l, m, trade) ==
  LET b == trade.buyer
      s == trade.seller
      i == trade.instrument
      q == trade.quantity
      cost == q * trade.price
  IN  /\ IsLedger(m) /\ Backed(m)
      /\ \A k : k # b.key /\ k # s.key =>
           /\ k \in DOMAIN m.holds <=> k \in DOMAIN l.holds
           /\ k \in DOMAIN l.holds => m.holds[k] = l.holds[k]
      /\ \A leg \in {b, s} :
           /\ leg.key \in DOMAIN m.holds <=>
                leg.key \in DOMAIN l.holds /\ leg.remaining # 0
           /\ leg.key \in DOMAIN m.holds =>
                m.holds[leg.key] =
                  [instrument  |-> l.holds[leg.key].instrument,
                   side        |-> l.holds[leg.key].side,
                   limit_price |-> l.holds[leg.key].limit_price,
                   remaining   |-> leg.remaining]
      /\ \A a \in Accounts : CashFree(m, a) =
           CashFree(l, a) + CashReleased(l, b, "Buy", q, a)
             - (IF a = b.key[1] THEN cost ELSE 0)
             + (IF a = s.key[1] THEN cost ELSE 0)
      /\ \A x \in Positions : UnitsFree(m, x) =
           UnitsFree(l, x) + UnitsReleased(l, s, "Sell", i, q, x)
             + (IF x = <<b.key[1], i>> THEN q ELSE 0)
             - (IF x = <<s.key[1], i>> THEN q ELSE 0)
      /\ SumOver(m.cash_total, Accounts) = SumOver(l.cash_total, Accounts)
      /\ \A j \in Instruments :
           SumOver(UnitsOf(m, j), Accounts) = SumOver(UnitsOf(l, j), Accounts)

\* OnTradeExecuted settles the buyer, then the seller on the result; the legs
\* have different keys but may be of one account.
LEMMA TradeEffect ==
  ASSUME NEW l, IsLedger(l), Backed(l), NEW trade,
         trade.instrument \in Instruments, trade.price \in Prices,
         trade.quantity \in Nat \ {0},
         LegFits(l, trade.buyer, "Buy", trade.instrument, trade.quantity),
         LegFits(l, trade.seller, "Sell", trade.instrument, trade.quantity),
         trade.buyer.key # trade.seller.key
  PROVE  TradeSettled(l, OnTradeExecuted(l, trade), trade)
<1> DEFINE b == trade.buyer
           s == trade.seller
           i == trade.instrument
           q == trade.quantity
           price == trade.price
           cost == q * price
           half == SettleLeg(l, b, "Buy", i, price, q)
           m == SettleLeg(half, s, "Sell", i, price, q)
<1>1. /\ i \in Instruments /\ q \in Nat \ {0} /\ price \in Int
      /\ LegFits(l, b, "Buy", i, q) /\ LegFits(l, s, "Sell", i, q)
      /\ b.key # s.key /\ "Buy" \in Sides /\ "Sell" \in Sides
  BY PriceAssumption DEF Sides
<1>2. OnTradeExecuted(l, trade) = m
  BY DEF OnTradeExecuted
<1> HIDE DEF b, s, i, q, price
<1>3. /\ IsLedger(half) /\ Backed(half) /\ HoldsAfterFill(l, b, half.holds)
      /\ \A a \in Accounts : half.cash_reserved[a] =
           l.cash_reserved[a] - CashReleased(l, b, "Buy", q, a)
      /\ \A x \in Positions : half.position_reserved[x] =
           l.position_reserved[x] - UnitsReleased(l, b, "Buy", i, q, x)
      /\ \A a \in Accounts : half.cash_total[a] =
           l.cash_total[a] - (IF a = b.key[1] THEN Bought("Buy", q) * price ELSE 0)
      /\ \A x \in Positions : half.position_total[x] =
           l.position_total[x] + (IF x = <<b.key[1], i>> THEN Bought("Buy", q) ELSE 0)
      /\ SumOver(half.cash_total, Accounts) =
           SumOver(l.cash_total, Accounts) - Bought("Buy", q) * price
      /\ \A j \in Instruments : SumOver(UnitsOf(half, j), Accounts) =
           SumOver(UnitsOf(l, j), Accounts) + (IF j = i THEN Bought("Buy", q) ELSE 0)
  <2>1. LegSettled(l, half, b, "Buy", i, price, q)
    BY <1>1, SettleLegEffect
  <2> HIDE DEF half
  <2> QED
    BY <2>1 DEF LegSettled
<1> HIDE DEF half
<1>4. /\ s.key \in DOMAIN half.holds <=> s.key \in DOMAIN l.holds
      /\ s.key \in DOMAIN l.holds => half.holds[s.key] = l.holds[s.key]
  BY <1>1, <1>3 DEF HoldsAfterFill
<1>5. LegFits(half, s, "Sell", i, q)
  BY <1>1, <1>4 DEF LegFits
<1>6. /\ IsLedger(m) /\ Backed(m) /\ HoldsAfterFill(half, s, m.holds)
      /\ \A a \in Accounts : m.cash_reserved[a] =
           half.cash_reserved[a] - CashReleased(half, s, "Sell", q, a)
      /\ \A x \in Positions : m.position_reserved[x] =
           half.position_reserved[x] - UnitsReleased(half, s, "Sell", i, q, x)
      /\ \A a \in Accounts : m.cash_total[a] =
           half.cash_total[a] - (IF a = s.key[1] THEN Bought("Sell", q) * price ELSE 0)
      /\ \A x \in Positions : m.position_total[x] =
           half.position_total[x] + (IF x = <<s.key[1], i>> THEN Bought("Sell", q) ELSE 0)
      /\ SumOver(m.cash_total, Accounts) =
           SumOver(half.cash_total, Accounts) - Bought("Sell", q) * price
      /\ \A j \in Instruments : SumOver(UnitsOf(m, j), Accounts) =
           SumOver(UnitsOf(half, j), Accounts) + (IF j = i THEN Bought("Sell", q) ELSE 0)
  <2>1. LegSettled(half, m, s, "Sell", i, price, q)
    BY <1>1, <1>3, <1>5, SettleLegEffect
  <2> HIDE DEF m
  <2> QED
    BY <2>1 DEF LegSettled
<1> HIDE DEF m
<1>7. /\ Bought("Buy", q) = q /\ Bought("Sell", q) = - q /\ cost \in Int
      /\ Bought("Buy", q) * price = cost /\ Bought("Sell", q) * price = - cost
  BY <1>1 DEF Bought
<1> HIDE DEF cost
<1>8. ASSUME NEW k, k # b.key, k # s.key
      PROVE  /\ k \in DOMAIN m.holds <=> k \in DOMAIN l.holds
             /\ k \in DOMAIN l.holds => m.holds[k] = l.holds[k]
  BY <1>3, <1>6, <1>8 DEF HoldsAfterFill
<1>9. ASSUME NEW leg \in {b, s}
      PROVE  /\ leg.key \in DOMAIN m.holds <=>
                  leg.key \in DOMAIN l.holds /\ leg.remaining # 0
             /\ leg.key \in DOMAIN m.holds =>
                  m.holds[leg.key] =
                    [instrument  |-> l.holds[leg.key].instrument,
                     side        |-> l.holds[leg.key].side,
                     limit_price |-> l.holds[leg.key].limit_price,
                     remaining   |-> leg.remaining]
  <2>1. CASE leg = b
    BY <1>1, <1>3, <1>6, <2>1 DEF HoldsAfterFill
  <2>2. CASE leg = s
    BY <1>1, <1>4, <1>6, <2>2 DEF HoldsAfterFill
  <2> QED
    BY <2>1, <2>2
<1>10. ASSUME NEW a \in Accounts
       PROVE  CashFree(m, a) = CashFree(l, a) + CashReleased(l, b, "Buy", q, a)
                - (IF a = b.key[1] THEN cost ELSE 0)
                + (IF a = s.key[1] THEN cost ELSE 0)
  <2>1. CashReleased(half, s, "Sell", q, a) = 0
    BY DEF CashReleased, CashLock
  <2>2. CashReleased(l, b, "Buy", q, a) \in Int
    <3>1. b.key \in DOMAIN l.holds => l.holds[b.key].limit_price \in Int
      BY HoldTyped DEF IsLedger
    <3> QED
      BY <1>1, <3>1, LocksTyped DEF CashReleased
  <2>3. l.cash_total[a] \in Int /\ l.cash_reserved[a] \in Int
    BY DEF IsLedger
  <2> QED
    BY <1>3, <1>6, <1>7, <2>1, <2>2, <2>3 DEF CashFree
<1>11. ASSUME NEW x \in Positions
       PROVE  UnitsFree(m, x) =
                UnitsFree(l, x) + UnitsReleased(l, s, "Sell", i, q, x)
                  + (IF x = <<b.key[1], i>> THEN q ELSE 0)
                  - (IF x = <<s.key[1], i>> THEN q ELSE 0)
  <2>1. UnitsReleased(l, b, "Buy", i, q, x) = 0
    BY DEF UnitsReleased, UnitLock
  <2>2. /\ UnitsReleased(half, s, "Sell", i, q, x) = UnitsReleased(l, s, "Sell", i, q, x)
        /\ UnitsReleased(l, s, "Sell", i, q, x) \in Int
    BY <1>1, <1>4 DEF UnitsReleased, UnitLock
  <2>3. l.position_total[x] \in Int /\ l.position_reserved[x] \in Int
    BY DEF IsLedger
  <2> DEFINE u == IF x = <<b.key[1], i>> THEN q ELSE 0
             v == IF x = <<s.key[1], i>> THEN q ELSE 0
  <2>4. /\ u \in Int /\ v \in Int
        /\ (IF x = <<b.key[1], i>> THEN Bought("Buy", q) ELSE 0) = u
        /\ (IF x = <<s.key[1], i>> THEN Bought("Sell", q) ELSE 0) = - v
    BY <1>1, <1>7
  <2> HIDE DEF u, v
  <2>5. /\ half.position_total[x] = l.position_total[x] + u
        /\ m.position_total[x] = half.position_total[x] + (- v)
        /\ half.position_reserved[x] = l.position_reserved[x]
        /\ m.position_reserved[x] = half.position_reserved[x]
             - UnitsReleased(l, s, "Sell", i, q, x)
    BY <1>3, <1>6, <2>1, <2>2, <2>3, <2>4
  <2> QED
    BY <2>2, <2>3, <2>4, <2>5 DEF UnitsFree, u, v
<1>12. SumOver(m.cash_total, Accounts) = SumOver(l.cash_total, Accounts)
  <2>1. SumOver(l.cash_total, Accounts) \in Int
    BY AccountAssumption, SumTakesOut DEF IsLedger
  <2> QED
    BY <1>3, <1>6, <1>7, <2>1
<1>13. ASSUME NEW j \in Instruments
       PROVE  SumOver(UnitsOf(m, j), Accounts) = SumOver(UnitsOf(l, j), Accounts)
  <2>1. \A a \in Accounts : UnitsOf(l, j)[a] \in Int
    BY DEF UnitsOf, IsLedger, Positions
  <2>2. SumOver(UnitsOf(l, j), Accounts) \in Int
    BY <2>1, AccountAssumption, SumTakesOut
  <2> QED
    BY <1>1, <1>3, <1>6, <1>7, <2>2
<1> QED
  BY <1>2, <1>6, <1>8, <1>9, <1>10, <1>11, <1>12, <1>13
  DEF TradeSettled, b, s, i, q, price, cost
-----------------------------------------------------------------------------
\* The inductive invariant of the ledger beside the engine.
\* HoldsMirrorOrders, told by the slab.
MirrorInv ==
  /\ \A k : k \in DOMAIN ledger.holds <=>
       \/ k \in DOMAIN orders
       \/ ~Idle /\ Rests(incoming[1]) /\ k = incoming[1].key
  /\ \A h \in DOMAIN slab : HoldMirrors(slab[h].key, slab[h])
  /\ ~Idle /\ Rests(incoming[1]) => HoldMirrors(incoming[1].key, incoming[1])

Solvent(l) ==
  /\ \A a \in Accounts : CashFree(l, a) >= 0
  /\ \A x \in Positions : UnitsFree(l, x) >= 0

\* An IOC or FOK order is never held for, so what is free must pay for the
\* whole of its remainder until the loop is over.
IncomingCovered ==
  ~Idle /\ incoming[1].time_in_force # "GTC" =>
    /\ incoming[1].side = "Buy" =>
         CashFree(ledger, incoming[1].key[1])
           >= incoming[1].remaining * incoming[1].price
    /\ incoming[1].side = "Sell" =>
         UnitsFree(ledger, <<incoming[1].key[1], incoming[1].instrument>>)
           >= incoming[1].remaining

LedgerInv ==
  /\ IsLedger(ledger)
  /\ Backed(ledger)
  /\ MirrorInv
  /\ Solvent(ledger)
  /\ IncomingCovered
  /\ FundsConserved

\* The three invariants together give the properties of the ledger.
LEMMA LedgerHolds ==
  ASSUME EngineInv, DirectoryInv, LedgerInv
  PROVE  HoldsMirrorOrders /\ ReservedIsHeld /\ NeverOverdrawn
<1>1. ReservedIsHeld
  BY DEF LedgerInv, Backed, ReservedIsHeld
<1>2. NeverOverdrawn
  BY DEF LedgerInv, IsLedger, Solvent, CashFree, UnitsFree, NeverOverdrawn,
         PositionsCovered
<1>3. incoming = << >> \/ DOMAIN incoming = {1}
  BY DEF EngineInv, EngineTypeOK
<1>4. DOMAIN ledger.holds = HeldKeys
  <2>1. CASE incoming = << >>
    BY <2>1 DEF HeldKeys, LedgerInv, MirrorInv, Idle
  <2>2. CASE DOMAIN incoming = {1}
    BY <2>2 DEF HeldKeys, LedgerInv, MirrorInv, Idle
  <2> QED
    BY <1>3, <2>1, <2>2
<1>5. ASSUME NEW k \in DOMAIN orders
      PROVE  HoldMirrors(k, slab[orders[k].handle])
  BY DEF EngineInv, EntriesLead, LedgerInv, MirrorInv
<1>6. ASSUME NEW j \in DOMAIN incoming, Rests(incoming[j])
      PROVE  HoldMirrors(incoming[j].key, incoming[j])
  BY <1>3, <1>6 DEF LedgerInv, MirrorInv, Idle
<1> QED
  BY <1>1, <1>2, <1>4, <1>5, <1>6 DEF HoldsMirrorOrders

\* The seeded ledger, with no holds.
LEMMA LedgerInitially == Init => LedgerInv
<1> SUFFICES ASSUME Init
             PROVE  LedgerInv
  OBVIOUS
<1>1. /\ DOMAIN << >> = {} /\ IsFiniteSet({}) /\ Cardinality({}) = 0
      /\ << >> = [k \in DOMAIN << >> |-> << >>[k]]
  BY FS_EmptySet
<1>2. HoldTable(<< >>)
  BY <1>1 DEF HoldTable
<1>3. IsLedger(ledger)
  BY <1>2, SeedAssumption DEF Init, LedgerInit, IsLedger
<1>4. \A x : HeldCash(<< >>, x) = 0 /\ HeldUnits(<< >>, x) = 0
  <2> TAKE x
  <2>1. CashKeys(<< >>, x) = {} /\ UnitKeys(<< >>, x) = {}
    BY <1>1 DEF CashKeys, UnitKeys
  <2> QED
    BY <2>1, HeldDefs, SumEmpty
<1>5. Backed(ledger)
  BY <1>1, <1>4 DEF Init, LedgerInit, Backed
<1>6. slab = << >> /\ orders = << >> /\ incoming = << >>
  BY DEF Init, EngineInit
<1>7. MirrorInv /\ IncomingCovered
  BY <1>1, <1>6 DEF Init, LedgerInit, MirrorInv, IncomingCovered, Idle
<1>8. Solvent(ledger)
  BY SeedAssumption DEF Init, LedgerInit, Solvent, CashFree, UnitsFree
<1>9. FundsConserved
  <2>1. SumOver(ledger.cash_total, Accounts) = SeedCash * Cardinality(Accounts)
    <3> DEFINE f == ledger.cash_total
    <3>1. \A a \in Accounts : f[a] = SeedCash
      BY DEF Init, LedgerInit
    <3> HIDE DEF f
    <3>2. SeedCash \in Int
      BY SeedAssumption
    <3> QED
      BY <3>1, <3>2, AccountAssumption, SumOfEquals DEF f
  <2>2. ASSUME NEW i \in Instruments
        PROVE  SumOver([a \in Accounts |-> ledger.position_total[<<a, i>>]],
                       Accounts) = SeedPosition * Cardinality(Accounts)
    <3> DEFINE f == [a \in Accounts |-> ledger.position_total[<<a, i>>]]
    <3>1. \A a \in Accounts : f[a] = SeedPosition
      BY DEF Init, LedgerInit, Positions
    <3> HIDE DEF f
    <3>2. SeedPosition \in Int
      BY SeedAssumption
    <3>3. SumOver(f, Accounts) = SeedPosition * Cardinality(Accounts)
      BY <3>1, <3>2, AccountAssumption, SumOfEquals
    <3> QED
      BY <3>3 DEF f
  <2> QED
    BY <2>1, <2>2 DEF FundsConserved
<1> QED
  BY <1>3, <1>5, <1>7, <1>8, <1>9 DEF LedgerInv

\* The totals, which only a trade moves.
LEMMA FundsStay ==
  ASSUME FundsConserved,
         SumOver(ledger'.cash_total, Accounts) = SumOver(ledger.cash_total, Accounts),
         \A j \in Instruments :
           SumOver(UnitsOf(ledger', j), Accounts) = SumOver(UnitsOf(ledger, j), Accounts)
  PROVE  FundsConserved'
  BY DEF FundsConserved, UnitsOf

\* Reserving and releasing move no totals.
LEMMA SameTotalsFunds ==
  ASSUME FundsConserved, SameTotals(ledger, ledger')
  PROVE  FundsConserved'
  BY FundsStay DEF SameTotals, UnitsOf

\* Opening a hold that the free balance pays for leaves the ledger solvent.
LEMMA OpenedSolvent ==
  ASSUME NEW l, IsLedger(l), Solvent(l), NEW m, SameTotals(l, m),
         NEW key \in LiveKeys, NEW i \in Instruments, NEW side \in Sides,
         NEW limit \in Int, NEW quantity \in Int,
         side = "Buy" => CashFree(l, key[1]) >= quantity * limit,
         side = "Sell" => UnitsFree(l, <<key[1], i>>) >= quantity,
         \A a \in Accounts : m.cash_reserved[a] =
           l.cash_reserved[a] + CashLock(key, side, limit, quantity, a),
         \A x \in Positions : m.position_reserved[x] =
           l.position_reserved[x] + UnitLock(key, i, side, quantity, x)
  PROVE  Solvent(m)
<1>1. ASSUME NEW a \in Accounts
      PROVE  CashFree(m, a) >= 0
  <2> DEFINE n == quantity * limit
  <2>1. n \in Int /\ l.cash_total[a] \in Int /\ l.cash_reserved[a] \in Int
    BY DEF IsLedger
  <2>2. /\ side = "Buy" => CashFree(l, key[1]) >= n
        /\ CashLock(key, side, limit, quantity, a)
             = IF key[1] = a /\ side = "Buy" THEN n ELSE 0
    BY DEF CashLock
  <2> HIDE DEF n
  <2> QED
    BY <2>1, <2>2 DEF CashFree, Solvent, SameTotals
<1>2. ASSUME NEW x \in Positions
      PROVE  UnitsFree(m, x) >= 0
  <2>1. l.position_total[x] \in Int /\ l.position_reserved[x] \in Int
    BY DEF IsLedger
  <2> QED
    BY <2>1 DEF UnitsFree, Solvent, SameTotals, UnitLock
<1> QED
  BY <1>1, <1>2 DEF Solvent

\* A new order: a GTC order is held for at once, any other is covered by what
\* the risk check found free.
LEMMA NewOrderKeepsLedger ==
  ASSUME EngineInv, DirectoryInv, LedgerInv, NEW cmd \in NewOrderCommand,
         GatedNewOrder(cmd)
  PROVE  LedgerInv'
<1>1. /\ Idle /\ AcceptsNewOrder(cmd) /\ RiskAcceptsNewOrder(cmd)
      /\ slab' = slab /\ orders' = orders
      /\ incoming' = <<IncomingOrder(cmd.key, cmd.instrument, cmd.side, cmd.price,
                                     cmd.quantity, cmd.time_in_force)>>
      /\ ledger' = OnOrderAccepted(ledger, cmd)
  BY DEF GatedNewOrder, PassesNewOrder, ProcessNewOrder
<1> DEFINE key == cmd.key
           i == cmd.instrument
           side == cmd.side
           limit == cmd.price
           q == cmd.quantity
           tif == cmd.time_in_force
<1>2. /\ key \in LiveKeys /\ i \in Instruments /\ side \in Sides
      /\ limit \in Prices /\ q \in Nat \ {0} /\ limit \in Int /\ q \in Int
      /\ key[1] \in Accounts /\ tif \in TimeInForce
  <2>1. limit \in Prices /\ q \in Quantities
    BY <1>1 DEF AcceptsNewOrder, NewOrderCommand
  <2>2. limit \in Int /\ q \in Nat \ {0} /\ q \in Int
    <3>1. Prices \subseteq Int /\ Quantities \subseteq Nat \ {0}
      BY PriceAssumption, QuantityAssumption
    <3> HIDE DEF limit, q
    <3>2. limit \in Int
      BY <2>1, <3>1
    <3>3. q \in Nat \ {0}
      BY <2>1, <3>1
    <3> QED
      BY <3>2, <3>3
  <2>3. key \in LiveKeys /\ side \in Sides /\ tif \in TimeInForce
    BY DEF NewOrderCommand
  <2>4. key[1] \in Accounts
    BY <2>3 DEF LiveKeys
  <2>5. i \in Instruments
    BY <1>1 DEF AcceptsNewOrder, KnowsInstrument
  <2> QED
    BY <2>1, <2>2, <2>3, <2>4, <2>5
<1>3. /\ side = "Buy" => CashFree(ledger, key[1]) >= q * limit
      /\ side = "Sell" => UnitsFree(ledger, <<key[1], i>>) >= q
  BY <1>1 DEF RiskAcceptsNewOrder, AvailableCash, AvailablePosition, CashFree,
              UnitsFree
<1>4. key \notin DOMAIN orders /\ key \notin DOMAIN ledger.holds
  BY <1>1 DEF AcceptsNewOrder, LedgerInv, MirrorInv
<1>5. /\ ~Idle' /\ incoming'[1].key = key /\ incoming'[1].instrument = i
      /\ incoming'[1].side = side /\ incoming'[1].price = limit
      /\ incoming'[1].remaining = q /\ incoming'[1].time_in_force = tif
  BY <1>1 DEF Idle, IncomingOrder
<1>6. Rests(incoming[1])' <=> tif = "GTC"
  BY <1>2, <1>5 DEF Rests
<1>7. IncomingCovered' /\ (tif # "GTC" => ledger' = ledger)
      /\ (tif = "GTC" => ledger' = OpenHold(ledger, key, i, side, limit, q))
  <2>1. tif # "GTC" => ledger' = ledger
    BY <1>1 DEF OnOrderAccepted
  <2>2. tif = "GTC" => ledger' = OpenHold(ledger, key, i, side, limit, q)
    BY <1>1 DEF OnOrderAccepted
  <2> HIDE DEF key, i, side, limit, q, tif
  <2> QED
    BY <1>3, <1>5, <2>1, <2>2 DEF IncomingCovered
<1> HIDE DEF key, i, side, limit, q, tif
<1>8. CASE tif # "GTC"
  <2>1. MirrorInv'
    BY <1>1, <1>4, <1>6, <1>7, <1>8 DEF LedgerInv, MirrorInv, HoldMirrors
  <2> QED
    BY <1>7, <1>8, <2>1 DEF LedgerInv, FundsConserved
<1>9. CASE tif = "GTC"
  <2> DEFINE m == OpenHold(ledger, key, i, side, limit, q)
             hold == [instrument |-> i, side |-> side, limit_price |-> limit,
                      remaining |-> q]
  <2>0. ledger' = m /\ IsLedger(ledger) /\ Backed(ledger) /\ Solvent(ledger)
    BY <1>7, <1>9 DEF LedgerInv
  <2>1. /\ IsLedger(m) /\ Backed(m) /\ SameTotals(ledger, m)
        /\ m.holds = InsertOrAssign(ledger.holds, key, hold)
        /\ \A a \in Accounts : m.cash_reserved[a] =
             ledger.cash_reserved[a] + CashLock(key, side, limit, q, a)
        /\ \A x \in Positions : m.position_reserved[x] =
             ledger.position_reserved[x] + UnitLock(key, i, side, q, x)
    BY <1>2, <1>4, <2>0, OpenHoldEffect
  <2> HIDE DEF m
  <2>2. Solvent(m)
    BY <1>2, <1>3, <2>0, <2>1, OpenedSolvent
  <2>3. FundsConserved'
    BY <2>0, <2>1, SameTotalsFunds DEF LedgerInv
  <2>4. /\ DOMAIN m.holds = DOMAIN ledger.holds \cup {key} /\ m.holds[key] = hold
        /\ \A k \in DOMAIN ledger.holds : m.holds[k] = ledger.holds[k]
    BY <1>4, <2>1 DEF InsertOrAssign
  <2>5. MirrorInv'
    <3>1. ASSUME NEW k
          PROVE  k \in DOMAIN ledger'.holds <=>
                   \/ k \in DOMAIN orders'
                   \/ ~Idle' /\ Rests(incoming[1])' /\ k = incoming'[1].key
      BY <1>1, <1>5, <1>6, <1>9, <2>0, <2>4 DEF LedgerInv, MirrorInv
    <3>2. ASSUME NEW h \in DOMAIN slab'
          PROVE  HoldMirrors(slab[h].key, slab[h])'
      <4>1. slab[h].key \in DOMAIN orders /\ HoldMirrors(slab[h].key, slab[h])
        BY <1>1 DEF DirectoryInv, LedgerInv, MirrorInv
      <4>2. ledger'.holds[slab[h].key] = ledger.holds[slab[h].key]
        BY <4>1, <2>0, <2>4 DEF LedgerInv, MirrorInv
      <4> QED
        BY <1>1, <4>1, <4>2 DEF HoldMirrors
    <3>3. HoldMirrors(incoming[1].key, incoming[1])'
      BY <1>5, <2>0, <2>4 DEF HoldMirrors
    <3> QED
      BY <3>1, <3>2, <3>3 DEF MirrorInv
  <2> QED
    BY <1>7, <2>0, <2>1, <2>2, <2>3, <2>5 DEF LedgerInv
<1> QED
  BY <1>8, <1>9

\* Releasing a hold frees what it locked, and no less than nothing.
LEMMA ReleasedFrees ==
  ASSUME NEW l, IsLedger(l), Solvent(l), NEW key \in DOMAIN l.holds,
         NEW m, SameTotals(l, m),
         \A a \in Accounts : m.cash_reserved[a] =
           l.cash_reserved[a] - CashLock(key, l.holds[key].side,
             l.holds[key].limit_price, l.holds[key].remaining, a),
         \A x \in Positions : m.position_reserved[x] =
           l.position_reserved[x] - UnitLock(key, l.holds[key].instrument,
             l.holds[key].side, l.holds[key].remaining, x)
  PROVE  /\ Solvent(m)
         /\ l.holds[key].side = "Buy" => CashFree(m, key[1]) =
              CashFree(l, key[1]) + l.holds[key].remaining * l.holds[key].limit_price
         /\ l.holds[key].side = "Sell" =>
              UnitsFree(m, <<key[1], l.holds[key].instrument>>) =
                UnitsFree(l, <<key[1], l.holds[key].instrument>>)
                  + l.holds[key].remaining
<1> DEFINE hold == l.holds[key]
           r == hold.remaining
           limit == hold.limit_price
           i == hold.instrument
           side == hold.side
           n == r * limit
<1>1. /\ r \in Nat \ {0} /\ limit \in Nat \ {0} /\ side \in Sides
      /\ i \in Instruments /\ key[1] \in Accounts
  BY HoldTyped DEF IsLedger
<1>2. n \in Nat
  <2> HIDE DEF r, limit
  <2> QED
    BY <1>1
<1>3. /\ \A a \in Accounts : m.cash_reserved[a] =
           l.cash_reserved[a] - (IF key[1] = a /\ side = "Buy" THEN n ELSE 0)
      /\ \A x \in Positions : m.position_reserved[x] =
           l.position_reserved[x] - (IF <<key[1], i>> = x /\ side = "Sell" THEN r ELSE 0)
  BY DEF CashLock, UnitLock
<1> HIDE DEF n, r, limit, i, side
<1>4. /\ \A a \in Accounts : l.cash_total[a] \in Int /\ l.cash_reserved[a] \in Int
      /\ \A x \in Positions : l.position_total[x] \in Int /\ l.position_reserved[x] \in Int
      /\ <<key[1], i>> \in Positions
      /\ m.cash_total = l.cash_total /\ m.position_total = l.position_total
  BY <1>1 DEF IsLedger, SameTotals, Positions
<1>5. \A a \in Accounts : CashFree(m, a) =
        CashFree(l, a) + (IF key[1] = a /\ side = "Buy" THEN n ELSE 0)
  BY <1>2, <1>3, <1>4 DEF CashFree
<1>6. \A x \in Positions : UnitsFree(m, x) =
        UnitsFree(l, x) + (IF <<key[1], i>> = x /\ side = "Sell" THEN r ELSE 0)
  BY <1>1, <1>3, <1>4 DEF UnitsFree
<1>7. /\ \A a \in Accounts : CashFree(l, a) \in Int
      /\ \A x \in Positions : UnitsFree(l, x) \in Int
  BY <1>4 DEF CashFree, UnitsFree
<1>8. Solvent(m)
  <2>1. \A a \in Accounts : CashFree(m, a) >= 0
    BY <1>2, <1>5, <1>7 DEF Solvent
  <2>2. \A x \in Positions : UnitsFree(m, x) >= 0
    BY <1>1, <1>6, <1>7 DEF Solvent
  <2> QED
    BY <2>1, <2>2 DEF Solvent
<1>9. side = "Buy" => CashFree(m, key[1]) = CashFree(l, key[1]) + n
  BY <1>1, <1>5
<1>10. side = "Sell" =>
         UnitsFree(m, <<key[1], i>>) = UnitsFree(l, <<key[1], i>>) + r
  BY <1>4, <1>6
<1> QED
  BY <1>8, <1>9, <1>10 DEF n, r, limit, i, side

\* Erasing an order from the book and from the hold table.
LEMMA CancelKeepsLedger ==
  ASSUME EngineInv, DirectoryInv, LedgerInv, NEW cmd \in CancelOrderCommand,
         GatedCancel(cmd)
  PROVE  LedgerInv'
<1> DEFINE key == cmd.key
           h == orders[key].handle
           m == EraseHold(ReleaseHoldFully(ledger, key), key)
<1>1. /\ Idle /\ FindsOrder(key, cmd.instrument) /\ BookRemoveAt(h)
      /\ orders' = Erase(orders, key) /\ incoming' = incoming
      /\ ledger' = OnOrderCancelled(ledger, key)
  BY DEF GatedCancel, ProcessCancel
<1>2. key \in DOMAIN orders /\ h \in DOMAIN slab /\ slab[h].key = key
  BY <1>1, FoundOrder
<1> HIDE DEF key
<1>3. key \in DOMAIN ledger.holds /\ IsLedger(ledger) /\ Backed(ledger)
      /\ Solvent(ledger) /\ MirrorInv
  BY <1>2 DEF LedgerInv, MirrorInv
<1>4. ledger' = m
  BY <1>1, <1>3 DEF OnOrderCancelled
<1>5. /\ IsLedger(m) /\ Backed(m) /\ SameTotals(ledger, m)
      /\ m.holds = Erase(ledger.holds, key)
      /\ \A a \in Accounts : m.cash_reserved[a] =
           ledger.cash_reserved[a] - CashLock(key, ledger.holds[key].side,
             ledger.holds[key].limit_price, ledger.holds[key].remaining, a)
      /\ \A x \in Positions : m.position_reserved[x] =
           ledger.position_reserved[x] - UnitLock(key, ledger.holds[key].instrument,
             ledger.holds[key].side, ledger.holds[key].remaining, x)
  BY <1>3, ReleaseEffect
<1> HIDE DEF m, h
<1>6. Solvent(m)
  BY <1>3, <1>5, ReleasedFrees
<1>7. FundsConserved'
  BY <1>4, <1>5, SameTotalsFunds DEF LedgerInv
<1>8. Idle'
  BY <1>1 DEF Idle
<1>9. MirrorInv'
  <2>1. /\ DOMAIN m.holds = DOMAIN ledger.holds \ {key}
        /\ \A k \in DOMAIN m.holds : m.holds[k] = ledger.holds[k]
        /\ DOMAIN orders' = DOMAIN orders \ {key}
    BY <1>1, <1>5 DEF Erase
  <2>2. /\ DOMAIN slab' = DOMAIN slab \ {h}
        /\ \A g \in DOMAIN slab' : slab'[g] = slab[g]
    BY <1>1, <1>2, RemoveHandle DEF EngineInv
  <2>3. ASSUME NEW g \in DOMAIN slab'
        PROVE  HoldMirrors(slab[g].key, slab[g])'
    <3>1. slab[g].key \in DOMAIN orders /\ slab[g].key # key /\ g \in DOMAIN slab
      BY <1>2, <2>2 DEF DirectoryInv, h
    <3>2. HoldMirrors(slab[g].key, slab[g]) /\ slab[g].key \in DOMAIN ledger.holds
      BY <1>3, <3>1 DEF MirrorInv
    <3> QED
      BY <1>4, <2>1, <2>2, <3>1, <3>2 DEF HoldMirrors
  <2>4. ASSUME NEW k
        PROVE  k \in DOMAIN ledger'.holds <=> k \in DOMAIN orders'
    BY <1>1, <1>3, <1>4, <2>1 DEF MirrorInv
  <2> QED
    BY <1>8, <2>3, <2>4 DEF MirrorInv
<1>10. IncomingCovered'
  BY <1>8 DEF IncomingCovered
<1> QED
  BY <1>4, <1>5, <1>6, <1>7, <1>9, <1>10 DEF LedgerInv

\* The end of a command hands the hold of a GTC remainder to the book.
LEMMA FinishKeepsLedger ==
  ASSUME EngineInv, DirectoryInv, LedgerInv, GatedFinish
  PROVE  LedgerInv'
<1>1. /\ ~Idle /\ Idle' /\ ledger' = ledger
  BY DEF GatedFinish, RestRemainder, DiscardRemainder, MatchingDone, Idle
<1>2. IncomingCovered'
  BY <1>1 DEF IncomingCovered
<1>3. CASE DiscardRemainder
  <2>1. slab' = slab /\ orders' = orders /\ ~Rests(incoming[1])
    BY <1>3 DEF DiscardRemainder
  <2>2. MirrorInv'
    BY <1>1, <2>1 DEF LedgerInv, MirrorInv, HoldMirrors
  <2> QED
    BY <1>1, <1>2, <2>2 DEF LedgerInv, FundsConserved
<1>4. CASE RestRemainder
  <2> DEFINE order == incoming[1]
  <2>1. /\ Rests(order)
        /\ slab' = InsertOrAssign(slab, order.id, RestingForm(order))
        /\ orders' = InsertOrAssign(orders, order.key,
                       [original |-> order.original, handle |-> order.id,
                        instrument |-> order.instrument])
    BY <1>4 DEF RestRemainder, BookAdd
  <2>2. HoldMirrors(order.key, order) /\ order.key \in DOMAIN ledger.holds
    BY <1>1, <2>1 DEF LedgerInv, MirrorInv
  <2>3. ASSUME NEW g \in DOMAIN slab'
        PROVE  HoldMirrors(slab[g].key, slab[g])'
    <3>1. CASE g = order.id
      <4>1. slab'[g] = RestingForm(order)
        BY <2>1, <3>1 DEF InsertOrAssign
      <4>2. /\ slab'[g].key = order.key /\ slab'[g].instrument = order.instrument
            /\ slab'[g].side = order.side /\ slab'[g].price = order.price
            /\ slab'[g].remaining = order.remaining
        BY <4>1 DEF RestingForm
      <4> QED
        BY <1>1, <2>2, <4>2 DEF HoldMirrors
    <3>2. CASE g # order.id
      <4>1. g \in DOMAIN slab /\ slab'[g] = slab[g]
        BY <2>1, <3>2 DEF InsertOrAssign
      <4> QED
        BY <1>1, <4>1 DEF HoldMirrors, LedgerInv, MirrorInv
    <3> QED
      BY <3>1, <3>2
  <2>4. ASSUME NEW k
        PROVE  k \in DOMAIN ledger'.holds <=> k \in DOMAIN orders'
    <3>1. DOMAIN orders' = DOMAIN orders \cup {order.key}
      BY <2>1 DEF InsertOrAssign
    <3> QED
      BY <1>1, <2>1, <3>1 DEF LedgerInv, MirrorInv
  <2>5. MirrorInv'
    BY <1>1, <2>3, <2>4 DEF MirrorInv
  <2> QED
    BY <1>1, <1>2, <2>5 DEF LedgerInv, FundsConserved
<1> QED
  BY <1>3, <1>4 DEF GatedFinish

\* The headroom std::max(0, extra) asks for covers the extra exposure.
LEMMA AtLeastMax ==
  ASSUME NEW x \in Int, NEW y \in Int, y >= Max({0, x})
  PROVE  y >= x
<1>1. \E m \in {0, x} : \A z \in {0, x} : m >= z
  <2>1. CASE x >= 0
    BY <2>1
  <2>2. CASE ~(x >= 0)
    BY <2>2
  <2> QED
    BY <2>1, <2>2
<1>2. Max({0, x}) \in {0, x} /\ \A z \in {0, x} : Max({0, x}) >= z
  BY <1>1 DEF Max
<1> DEFINE m == Max({0, x})
<1>3. m \in Int /\ m >= x /\ y >= m
  BY <1>2
<1> HIDE DEF m
<1> QED
  BY <1>3

\* The hold of a replaced order, and what the risk check found free for it.
LEMMA ReplacedLedger ==
  ASSUME EngineInv, DirectoryInv, LedgerInv, FreshReplaceIds, Idle,
         NEW cmd \in ReplaceOrderCommand, ReplaceIdAllowed(cmd),
         AcceptsReplace(cmd), RiskAcceptsReplace(cmd)
  PROVE  LET m == OnOrderReplaced(ledger, cmd)
         IN  /\ IsLedger(m) /\ Backed(m) /\ SameTotals(ledger, m) /\ Solvent(m)
             /\ m.holds = InsertOrAssign(Erase(ledger.holds, cmd.key), NewKey(cmd),
                  [instrument |-> cmd.instrument, side |-> Replaced(cmd).side,
                   limit_price |-> cmd.price, remaining |-> cmd.quantity])
<1> DEFINE key == cmd.key
           new == NewKey(cmd)
           i == cmd.instrument
           limit == cmd.price
           q == cmd.quantity
           hold == ledger.holds[key]
           side == hold.side
           r == EraseHold(ReleaseHoldFully(ledger, key), key)
           m == OpenHold(r, new, i, side, limit, q)
<1>1. /\ i \in Instruments /\ limit \in Prices /\ q \in Nat \ {0} /\ q \in Int
      /\ new \in LiveKeys /\ new[1] = key[1] /\ key \in DOMAIN orders
      /\ key \in LiveKeys /\ orders[key].handle \in DOMAIN slab
      /\ Replaced(cmd).key = key /\ Replaced(cmd).instrument = i
      /\ Replaced(cmd) = slab[orders[key].handle]
  BY AcceptedReplace DEF Replaced
<1>2. /\ key \in DOMAIN ledger.holds /\ HoldMirrors(key, Replaced(cmd))
      /\ IsLedger(ledger) /\ Backed(ledger) /\ Solvent(ledger)
      /\ DOMAIN ledger.holds = DOMAIN orders
  BY <1>1 DEF LedgerInv, MirrorInv
<1>3. hold.instrument = i /\ side = Replaced(cmd).side
  BY <1>1, <1>2 DEF HoldMirrors
<1>4. new \notin DOMAIN ledger.holds \ {key}
  BY <1>2 DEF ReplaceIdAllowed
<1>5. OnOrderReplaced(ledger, cmd) = m
  BY <1>2 DEF OnOrderReplaced
<1>6. /\ hold.remaining \in Nat \ {0} /\ hold.limit_price \in Nat \ {0}
      /\ hold.remaining * hold.limit_price \in Int
      /\ side \in Sides /\ key[1] \in Accounts
  BY <1>2, HoldTyped DEF IsLedger
<1>7. /\ side = "Buy" => AvailableCash(key[1]) >=
           Max({0, q * limit - hold.remaining * hold.limit_price})
      /\ side = "Sell" => AvailablePosition(key[1], i) >=
           Max({0, q - hold.remaining})
  BY <1>2, <1>3 DEF RiskAcceptsReplace
<1> DEFINE was == hold.remaining
           lock == was * hold.limit_price
           cost == q * limit
<1>8. limit \in Int
  <2>1. Prices \subseteq Int
    BY PriceAssumption
  <2> HIDE DEF limit
  <2> QED
    BY <1>1, <2>1
<1>9. cost \in Int /\ lock \in Int /\ was \in Int
  <2>1. cost \in Int
    <3> HIDE DEF q, limit
    <3> QED
      BY <1>1, <1>8
  <2> QED
    BY <1>6, <2>1
<1>10. /\ side = "Buy" => CashFree(ledger, key[1]) >= cost - lock
       /\ side = "Sell" => UnitsFree(ledger, <<key[1], i>>) >= q - was
  <2>1. /\ CashFree(ledger, key[1]) \in Int /\ UnitsFree(ledger, <<key[1], i>>) \in Int
    <3>1. <<key[1], i>> \in Positions
      BY <1>1, <1>6 DEF Positions
    <3>2. /\ ledger.cash_total[key[1]] \in Int /\ ledger.cash_reserved[key[1]] \in Int
          /\ ledger.position_total[<<key[1], i>>] \in Int
          /\ ledger.position_reserved[<<key[1], i>>] \in Int
      BY <1>2, <1>6, <3>1 DEF IsLedger
    <3> QED
      BY <3>2 DEF CashFree, UnitsFree
  <2>2. /\ AvailableCash(key[1]) = CashFree(ledger, key[1])
        /\ AvailablePosition(key[1], i) = UnitsFree(ledger, <<key[1], i>>)
    BY DEF AvailableCash, AvailablePosition, CashFree, UnitsFree
  <2>3. /\ side = "Buy" => CashFree(ledger, key[1]) >= Max({0, cost - lock})
        /\ side = "Sell" => UnitsFree(ledger, <<key[1], i>>) >= Max({0, q - was})
    BY <1>7, <2>2
  <2>4. cost - lock \in Int /\ q - was \in Int
    <3> HIDE DEF cost, lock, was, q
    <3> QED
      BY <1>1, <1>9
  <2> DEFINE c == CashFree(ledger, key[1])
             u == UnitsFree(ledger, <<key[1], i>>)
             dc == cost - lock
             du == q - was
  <2>5. c \in Int /\ u \in Int /\ dc \in Int /\ du \in Int
    BY <2>1, <2>4
  <2>6. (side = "Buy" => c >= Max({0, dc})) /\ (side = "Sell" => u >= Max({0, du}))
    BY <2>3
  <2> HIDE DEF c, u, dc, du, side
  <2>7. (side = "Buy" => c >= dc) /\ (side = "Sell" => u >= du)
    BY <2>5, <2>6, AtLeastMax
  <2> QED
    BY <2>7 DEF c, u, dc, du
<1> HIDE DEF key, new, i, limit, q
<1>11. /\ IsLedger(r) /\ Backed(r) /\ SameTotals(ledger, r)
       /\ r.holds = Erase(ledger.holds, key)
       /\ \A a \in Accounts : r.cash_reserved[a] =
            ledger.cash_reserved[a] - CashLock(key, ledger.holds[key].side,
              ledger.holds[key].limit_price, ledger.holds[key].remaining, a)
       /\ \A x \in Positions : r.position_reserved[x] =
            ledger.position_reserved[x] - UnitLock(key, ledger.holds[key].instrument,
              ledger.holds[key].side, ledger.holds[key].remaining, x)
  BY <1>2, ReleaseEffect
<1> HIDE DEF r
<1>12. /\ Solvent(r)
       /\ hold.side = "Buy" => CashFree(r, key[1]) =
            CashFree(ledger, key[1]) + hold.remaining * hold.limit_price
       /\ hold.side = "Sell" =>
            UnitsFree(r, <<key[1], hold.instrument>>) =
              UnitsFree(ledger, <<key[1], hold.instrument>>) + hold.remaining
  BY <1>2, <1>11, ReleasedFrees
<1>13. new \notin DOMAIN r.holds
  BY <1>4, <1>11 DEF Erase
<1>14. /\ side = "Buy" => CashFree(r, new[1]) >= q * limit
       /\ side = "Sell" => UnitsFree(r, <<new[1], i>>) >= q
  <2>1. /\ side = "Buy" => CashFree(r, key[1]) = CashFree(ledger, key[1]) + lock
        /\ side = "Sell" => UnitsFree(r, <<key[1], i>>)
                              = UnitsFree(ledger, <<key[1], i>>) + was
    BY <1>3, <1>12
  <2>2. CashFree(ledger, key[1]) \in Int
    BY <1>2, <1>6 DEF IsLedger, CashFree
  <2>3. UnitsFree(ledger, <<key[1], i>>) \in Int
    <3>1. <<key[1], i>> \in Positions
      BY <1>1, <1>6 DEF Positions
    <3> QED
      BY <1>2, <3>1 DEF IsLedger, UnitsFree
  <2> HIDE DEF lock, was, side
  <2>4. side = "Buy" => CashFree(r, key[1]) >= cost
    <3> HIDE DEF cost
    <3> QED
      BY <1>9, <1>10, <2>1, <2>2
  <2>5. side = "Sell" => UnitsFree(r, <<key[1], i>>) >= q
    BY <1>1, <1>9, <1>10, <2>1, <2>3
  <2> QED
    BY <1>1, <2>4, <2>5
<1> HIDE DEF side
<1>15. /\ IsLedger(m) /\ Backed(m) /\ SameTotals(r, m)
       /\ m.holds = InsertOrAssign(r.holds, new,
            [instrument |-> i, side |-> side, limit_price |-> limit,
             remaining |-> q])
       /\ \A a \in Accounts : m.cash_reserved[a] =
            r.cash_reserved[a] + CashLock(new, side, limit, q, a)
       /\ \A x \in Positions : m.position_reserved[x] =
            r.position_reserved[x] + UnitLock(new, i, side, q, x)
  BY <1>1, <1>6, <1>11, <1>13, OpenHoldEffect
<1> HIDE DEF m
<1>16. Solvent(m)
  BY <1>1, <1>6, <1>8, <1>11, <1>12, <1>14, <1>15, OpenedSolvent
<1>17. SameTotals(ledger, m)
  BY <1>11, <1>15 DEF SameTotals
<1> QED
  BY <1>3, <1>5, <1>11, <1>15, <1>16, <1>17 DEF key, new, i, limit, q

\* A replace, in place or as a new order, moves the hold with the order.
LEMMA ReplaceKeepsLedger ==
  ASSUME EngineInv, DirectoryInv, LedgerInv, FreshReplaceIds,
         NEW cmd \in ReplaceOrderCommand, ReplaceIdAllowed(cmd),
         GatedReplace(cmd)
  PROVE  LedgerInv'
<1> DEFINE key == cmd.key
           new == NewKey(cmd)
           h == orders[key].handle
           m == OnOrderReplaced(ledger, cmd)
           hold == [instrument |-> cmd.instrument, side |-> Replaced(cmd).side,
                    limit_price |-> cmd.price, remaining |-> cmd.quantity]
<1>1. /\ Idle /\ AcceptsReplace(cmd) /\ RiskAcceptsReplace(cmd) /\ ledger' = m
  BY DEF GatedReplace, PassesReplace, ProcessReplaceInPlace, ProcessReplaceAsNew
<1>2. /\ IsLedger(m) /\ Backed(m) /\ SameTotals(ledger, m) /\ Solvent(m)
      /\ m.holds = InsertOrAssign(Erase(ledger.holds, key), new, hold)
  BY <1>1, ReplacedLedger
<1>3. /\ key \in DOMAIN orders /\ h \in DOMAIN slab /\ slab[h].key = key
      /\ Replaced(cmd) = slab[h] /\ slab[h].instrument = cmd.instrument
      /\ slab[h].time_in_force = "GTC" /\ cmd.quantity \in Nat \ {0}
  BY <1>1, AcceptedReplace DEF Replaced
<1> HIDE DEF m
<1>4. /\ DOMAIN m.holds = (DOMAIN ledger.holds \ {key}) \cup {new}
      /\ m.holds[new] = hold
      /\ \A k \in DOMAIN ledger.holds : k # key /\ k # new => m.holds[k] = ledger.holds[k]
  BY <1>2 DEF InsertOrAssign, Erase
<1>5. /\ DOMAIN ledger.holds = DOMAIN orders
      /\ \A g \in DOMAIN slab : /\ HoldMirrors(slab[g].key, slab[g])
                                /\ slab[g].key \in DOMAIN orders
                                /\ g # h => slab[g].key # key
      /\ new \notin DOMAIN orders \ {key}
  BY <1>1, <1>3 DEF LedgerInv, MirrorInv, DirectoryInv, ReplaceIdAllowed
<1> HIDE DEF new
<1>6. ASSUME NEW g \in DOMAIN slab, g # h, slab'[g] = slab[g]
      PROVE  HoldMirrors(slab[g].key, slab[g])'
  <2>1. /\ slab[g].key \in DOMAIN ledger.holds /\ slab[g].key # key
        /\ slab[g].key # new
    BY <1>5, <1>6
  <2> QED
    BY <1>1, <1>4, <1>5, <1>6, <2>1 DEF HoldMirrors
<1>7. FundsConserved'
  BY <1>1, <1>2, SameTotalsFunds DEF LedgerInv
<1>8. CASE ProcessReplaceInPlace(cmd)
  <2>1. /\ orders' = InsertOrAssign(Erase(orders, key), new, orders[key])
        /\ incoming' = incoming /\ cmd.price = slab[h].price
    BY <1>3, <1>8 DEF ProcessReplaceInPlace, PreservesPriority, new
  <2>2. /\ DOMAIN slab' = DOMAIN slab
        /\ \A g \in DOMAIN slab : g # h => slab'[g] = slab[g]
        /\ slab'[h].key = new /\ slab'[h].remaining = cmd.quantity
        /\ slab'[h].instrument = slab[h].instrument
        /\ slab'[h].side = slab[h].side /\ slab'[h].price = slab[h].price
    BY <1>8, EditedInPlace DEF new
  <2>3. Idle'
    BY <1>1, <2>1 DEF Idle
  <2>4. ledger'.holds[new] = hold
    BY <1>1, <1>4
  <2>5. ASSUME NEW k
        PROVE  k \in DOMAIN ledger'.holds <=> k \in DOMAIN orders'
    BY <1>1, <1>4, <1>5, <2>1 DEF InsertOrAssign, Erase
  <2>6. ASSUME NEW g \in DOMAIN slab'
        PROVE  HoldMirrors(slab[g].key, slab[g])'
    <3>1. CASE g = h
      <4>1. /\ slab'[g].key = new /\ slab'[g].remaining = cmd.quantity
            /\ slab'[g].instrument = cmd.instrument
            /\ slab'[g].side = Replaced(cmd).side /\ slab'[g].price = cmd.price
        BY <1>3, <2>1, <2>2, <3>1
      <4> QED
        BY <2>4, <4>1 DEF HoldMirrors
    <3>2. CASE g # h
      BY <1>6, <2>2, <3>2
    <3> QED
      BY <3>1, <3>2
  <2>7. MirrorInv' /\ IncomingCovered'
    BY <2>3, <2>5, <2>6 DEF MirrorInv, IncomingCovered
  <2> QED
    BY <1>1, <1>2, <1>7, <2>7 DEF LedgerInv
<1>9. CASE ProcessReplaceAsNew(cmd)
  <2>1. /\ orders' = Erase(orders, key) /\ BookRemoveAt(h)
        /\ incoming' = <<IncomingOrder(new, cmd.instrument, slab[h].side,
                           cmd.price, cmd.quantity, slab[h].time_in_force)>>
    BY <1>3, <1>9 DEF ProcessReplaceAsNew, new
  <2>2. /\ DOMAIN slab' = DOMAIN slab \ {h}
        /\ \A g \in DOMAIN slab' : slab'[g] = slab[g]
    BY <1>3, <2>1, RemoveHandle DEF EngineInv
  <2>3. /\ ~Idle' /\ incoming'[1].key = new /\ incoming'[1].instrument = cmd.instrument
        /\ incoming'[1].side = slab[h].side /\ incoming'[1].price = cmd.price
        /\ incoming'[1].remaining = cmd.quantity
        /\ incoming'[1].time_in_force = "GTC"
    BY <1>3, <2>1 DEF Idle, IncomingOrder
  <2>4. Rests(incoming[1])'
    BY <1>3, <2>3 DEF Rests
  <2>5. HoldMirrors(incoming[1].key, incoming[1])'
    BY <1>1, <1>3, <1>4, <2>3 DEF HoldMirrors
  <2>6. ASSUME NEW k
        PROVE  k \in DOMAIN ledger'.holds <=> k \in DOMAIN orders' \/ k = new
    BY <1>1, <1>4, <1>5, <2>1 DEF Erase
  <2>7. ASSUME NEW g \in DOMAIN slab'
        PROVE  HoldMirrors(slab[g].key, slab[g])'
    BY <1>6, <2>2
  <2>8. MirrorInv'
    BY <2>3, <2>4, <2>5, <2>6, <2>7 DEF MirrorInv
  <2>9. IncomingCovered'
    BY <2>3 DEF IncomingCovered
  <2> QED
    BY <1>1, <1>2, <1>7, <2>8, <2>9 DEF LedgerInv
<1> QED
  BY <1>8, <1>9 DEF GatedReplace

\* The two legs of the trade at price p.
Aggressor(p) ==
  [key |-> incoming[1].key, remaining |-> incoming[1].remaining - TradeQuantity(p)]
Passive(p) ==
  [key |-> slab[FrontHandle(p)].key,
   remaining |-> slab[FrontHandle(p)].remaining - TradeQuantity(p)]

\* The legs of a trade fit the holds: the passive order locks at the trade
\* price, the aggressor at its own limit, or not at all if it is not GTC.
LEMMA MatchLegs ==
  ASSUME EngineInv, DirectoryInv, LedgerInv, NEW p \in Prices, MatchesAt(p)
  PROVE  LET order == incoming[1]
             q == TradeQuantity(p)
         IN  /\ LegFits(ledger, Aggressor(p), order.side, order.instrument, q)
             /\ LegFits(ledger, Passive(p), Contra(order.side), order.instrument, q)
             /\ Aggressor(p).key # Passive(p).key
             /\ Aggressor(p).key \notin DOMAIN orders
             /\ Passive(p).key \in DOMAIN orders
             /\ Passive(p).key \in DOMAIN ledger.holds
             /\ ledger.holds[Passive(p).key].limit_price = p
             /\ Aggressor(p).key \in DOMAIN ledger.holds
                  <=> order.time_in_force = "GTC"
             /\ Aggressor(p).key \in DOMAIN ledger.holds =>
                  ledger.holds[Aggressor(p).key].limit_price = order.price
<1> DEFINE order == incoming[1]
           h == FrontHandle(p)
           q == TradeQuantity(p)
           agg == Aggressor(p)
           pas == Passive(p)
<1>1. /\ ~Idle /\ order \in IncomingForm /\ h \in DOMAIN slab
      /\ slab[h] \in BookOrder
      /\ LevelOf(slab[h]) = <<order.instrument, Contra(order.side), p>>
      /\ q \in Nat \ {0} /\ q <= order.remaining /\ q <= slab[h].remaining
      /\ order.remaining \in Nat /\ slab[h].remaining \in Nat \ {0}
      /\ order.remaining > 0
  BY TradeFacts DEF EngineInv, MatchesAt
<1>2. /\ order.key \in LiveKeys /\ slab[h].key \in LiveKeys
      /\ slab[h].instrument = order.instrument /\ slab[h].price = p
      /\ slab[h].side = Contra(order.side)
  BY <1>1 DEF IncomingForm, BookOrder, LevelOf
<1>3. /\ agg.key = order.key /\ agg.remaining = order.remaining - q
      /\ pas.key = slab[h].key /\ pas.remaining = slab[h].remaining - q
  BY DEF Aggressor, Passive
<1>4. order.key \notin DOMAIN orders /\ slab[h].key \in DOMAIN orders
  BY <1>1 DEF DirectoryInv
<1>5. /\ slab[h].key \in DOMAIN ledger.holds /\ HoldMirrors(slab[h].key, slab[h])
      /\ order.key \in DOMAIN ledger.holds <=> Rests(order)
      /\ Rests(order) => HoldMirrors(order.key, order)
  BY <1>1, <1>4 DEF LedgerInv, MirrorInv
<1>6. Rests(order) <=> order.time_in_force = "GTC"
  BY <1>1 DEF Rests
<1> HIDE DEF order, h, q, agg, pas
<1>7. agg.remaining \in Nat /\ order.remaining = agg.remaining + q
      /\ pas.remaining \in Nat /\ slab[h].remaining = pas.remaining + q
  BY <1>1, <1>3
<1>8. LegFits(ledger, agg, order.side, order.instrument, q)
  BY <1>2, <1>3, <1>5, <1>7 DEF LegFits, HoldMirrors
<1>9. LegFits(ledger, pas, Contra(order.side), order.instrument, q)
  BY <1>2, <1>3, <1>5, <1>7 DEF LegFits, HoldMirrors
<1>10. /\ ledger.holds[slab[h].key].limit_price = p
       /\ Rests(order) => ledger.holds[order.key].limit_price = order.price
  BY <1>2, <1>5 DEF HoldMirrors
<1> QED
  BY <1>3, <1>4, <1>5, <1>6, <1>8, <1>9, <1>10 DEF order, h, q, agg, pas

\* The event names the aggressor as buyer or as seller by its side.
LEMMA TradeOf ==
  ASSUME NEW p
  PROVE  /\ TradeExecuted(p).instrument = incoming[1].instrument
         /\ TradeExecuted(p).price = p
         /\ TradeExecuted(p).quantity = TradeQuantity(p)
         /\ incoming[1].side = "Buy" => /\ TradeExecuted(p).buyer = Aggressor(p)
                                        /\ TradeExecuted(p).seller = Passive(p)
         /\ incoming[1].side # "Buy" => /\ TradeExecuted(p).buyer = Passive(p)
                                        /\ TradeExecuted(p).seller = Aggressor(p)
  BY DEF TradeExecuted, Aggressor, Passive

\* What is paid for a fill is within the limit, and what the limit sets aside
\* for the rest of the order is what was set aside less the filled slice.
LEMMA PaidWithinLimit ==
  ASSUME NEW r \in Int, NEW q \in Nat, NEW p \in Int, NEW limit \in Int, p <= limit
  PROVE  /\ q * p \in Int /\ q * limit \in Int /\ r * limit \in Int
         /\ (r - q) * limit \in Int
         /\ q * p <= q * limit
         /\ (r - q) * limit = r * limit - q * limit
<1>1. (r - q) * limit = r * limit - q * limit
  OBVIOUS
<1>2. limit - p \in Nat
  OBVIOUS
<1>3. q * (limit - p) \in Nat
  BY <1>2
<1>4. q * (limit - p) = q * limit - q * p
  OBVIOUS
<1> QED
  BY <1>1, <1>3, <1>4

\* The balances after a trade: a resting order pays exactly what it locked, an
\* incoming GTC order at most that, and any other from what was found free.
LEMMA MatchBalances ==
  ASSUME EngineInv, DirectoryInv, LedgerInv, NEW p \in Prices, MatchesAt(p)
  PROVE  LET order == incoming[1]
             q == TradeQuantity(p)
             m == OnTradeExecuted(ledger, TradeExecuted(p))
         IN  /\ TradeSettled(ledger, m, TradeExecuted(p))
             /\ Solvent(m)
             /\ order.time_in_force # "GTC" =>
                  /\ order.side = "Buy" =>
                       CashFree(m, order.key[1]) >= (order.remaining - q) * order.price
                  /\ order.side = "Sell" =>
                       UnitsFree(m, <<order.key[1], order.instrument>>)
                         >= order.remaining - q
<1> DEFINE order == incoming[1]
           q == TradeQuantity(p)
           t == TradeExecuted(p)
           m == OnTradeExecuted(ledger, t)
           agg == Aggressor(p)
           pas == Passive(p)
           i == order.instrument
           side == order.side
           limit == order.price
           r == order.remaining
           gtc == order.time_in_force = "GTC"
           cost == q * p
           full == q * limit
           locked == r * limit
           rest == (r - q) * limit
           pays == agg.key[1]
           other == pas.key[1]
<1>1. /\ order \in IncomingForm /\ q \in Nat \ {0} /\ q <= r /\ r \in Nat
      /\ Crosses(side, limit, p) /\ ~Idle
  BY TradeFacts DEF EngineInv, MatchesAt
<1>2. /\ i \in Instruments /\ side \in Sides /\ limit \in Prices
      /\ agg.key = order.key /\ order.key \in LiveKeys
  BY <1>1 DEF IncomingForm, Aggressor
<1>3. p \in Nat /\ limit \in Nat
  <2>1. Prices \subseteq Nat
    BY PriceAssumption
  <2> HIDE DEF limit
  <2> QED
    BY <1>2, <2>1
<1>4. /\ LegFits(ledger, agg, side, i, q) /\ LegFits(ledger, pas, Contra(side), i, q)
      /\ agg.key # pas.key /\ pas.key \in DOMAIN ledger.holds
      /\ ledger.holds[pas.key].limit_price = p
      /\ agg.key \in DOMAIN ledger.holds <=> gtc
      /\ agg.key \in DOMAIN ledger.holds => ledger.holds[agg.key].limit_price = limit
  BY MatchLegs
<1>5. /\ t.instrument = i /\ t.price = p /\ t.quantity = q
      /\ side = "Buy" => t.buyer = agg /\ t.seller = pas
      /\ side # "Buy" => t.buyer = pas /\ t.seller = agg
  BY TradeOf
<1>6. IsLedger(ledger) /\ Backed(ledger) /\ Solvent(ledger)
  BY DEF LedgerInv
<1>7. /\ ~gtc /\ side = "Buy" => CashFree(ledger, pays) >= locked
      /\ ~gtc /\ side = "Sell" => UnitsFree(ledger, <<pays, i>>) >= r
  BY <1>1, <1>2 DEF LedgerInv, IncomingCovered
<1>8. /\ pays \in Accounts /\ other \in Accounts
      /\ <<pays, i>> \in Positions /\ <<other, i>> \in Positions
  BY <1>2, <1>4 DEF LegFits, LiveKeys, Positions
<1>9. cost \in Nat /\ full \in Nat /\ rest \in Nat /\ locked = rest + full
  <2> HIDE DEF q, limit, r
  <2>1. r - q \in Nat
    BY <1>1
  <2>2. cost \in Nat /\ full \in Nat /\ rest \in Nat
    BY <1>1, <1>3, <2>1
  <2>3. rest = locked - full /\ locked \in Int
    BY <1>1, <1>3
  <2> HIDE DEF cost, full, rest, locked
  <2> QED
    BY <2>2, <2>3
<1>10. side = "Buy" => cost <= full
  <2> HIDE DEF q, limit, r, side
  <2>1. side = "Buy" => p <= limit
    BY <1>1, <1>3 DEF Crosses
  <2> QED
    BY <1>1, <1>3, <2>1, PaidWithinLimit
<1>11. /\ \A a \in Accounts : CashFree(ledger, a) \in Nat
       /\ \A x \in Positions : UnitsFree(ledger, x) \in Nat
  <2>1. \A a \in Accounts : CashFree(ledger, a) \in Int
    BY <1>6 DEF IsLedger, CashFree
  <2>2. \A x \in Positions : UnitsFree(ledger, x) \in Int
    BY <1>6 DEF IsLedger, UnitsFree
  <2> QED
    BY <1>6, <2>1, <2>2 DEF Solvent
<1> HIDE DEF agg, pas, i, side, limit, r, q, t, gtc
<1>12. TradeSettled(ledger, m, t)
  <2>1. CASE side = "Buy"
    <3>1. /\ LegFits(ledger, t.buyer, "Buy", t.instrument, t.quantity)
          /\ LegFits(ledger, t.seller, "Sell", t.instrument, t.quantity)
          /\ t.buyer.key # t.seller.key
      BY <1>4, <1>5, <2>1 DEF Contra
    <3> QED
      BY <1>1, <1>2, <1>5, <1>6, <3>1, TradeEffect
  <2>2. CASE side # "Buy"
    <3>1. side = "Sell"
      BY <1>2, <2>2 DEF Sides
    <3>2. /\ LegFits(ledger, t.buyer, "Buy", t.instrument, t.quantity)
          /\ LegFits(ledger, t.seller, "Sell", t.instrument, t.quantity)
          /\ t.buyer.key # t.seller.key
      BY <1>4, <1>5, <2>2, <3>1 DEF Contra
    <3> QED
      BY <1>1, <1>2, <1>5, <1>6, <3>2, TradeEffect
  <2> QED
    BY <2>1, <2>2
<1> HIDE DEF m
<1>13. /\ \A a \in Accounts : CashFree(m, a) =
            CashFree(ledger, a) + CashReleased(ledger, t.buyer, "Buy", q, a)
              - (IF a = t.buyer.key[1] THEN cost ELSE 0)
              + (IF a = t.seller.key[1] THEN cost ELSE 0)
       /\ \A x \in Positions : UnitsFree(m, x) =
            UnitsFree(ledger, x) + UnitsReleased(ledger, t.seller, "Sell", i, q, x)
              + (IF x = <<t.buyer.key[1], i>> THEN q ELSE 0)
              - (IF x = <<t.seller.key[1], i>> THEN q ELSE 0)
  BY <1>5, <1>12 DEF TradeSettled
<1>14. CASE side = "Buy"
  <2>1. ASSUME NEW a \in Accounts
        PROVE  CashFree(m, a) = CashFree(ledger, a)
                 + (IF a = pays /\ gtc THEN full ELSE 0)
                 - (IF a = pays THEN cost ELSE 0)
                 + (IF a = other THEN cost ELSE 0)
    <3>1. CashReleased(ledger, agg, "Buy", q, a) =
            IF a = pays /\ gtc THEN full ELSE 0
      BY <1>4 DEF CashReleased, CashLock
    <3> QED
      BY <1>5, <1>13, <1>14, <3>1
  <2>2. ASSUME NEW x \in Positions
        PROVE  UnitsFree(m, x) = UnitsFree(ledger, x)
                 + (IF x = <<other, i>> THEN q ELSE 0)
                 + (IF x = <<pays, i>> THEN q ELSE 0)
                 - (IF x = <<other, i>> THEN q ELSE 0)
    <3>1. UnitsReleased(ledger, pas, "Sell", i, q, x) =
            IF x = <<other, i>> THEN q ELSE 0
      BY <1>4 DEF UnitsReleased, UnitLock
    <3> QED
      BY <1>5, <1>13, <1>14, <3>1
  <2> HIDE DEF cost, full, rest, locked, pays, other
  <2>3. ASSUME NEW a \in Accounts
        PROVE  CashFree(m, a) >= 0 /\ (~gtc /\ a = pays => CashFree(m, a) >= rest)
    BY <1>7, <1>9, <1>10, <1>11, <1>14, <2>1
  <2>4. ASSUME NEW x \in Positions
        PROVE  UnitsFree(m, x) >= 0
    BY <1>1, <1>11, <2>2
  <2>5. Solvent(m)
    BY <2>3, <2>4 DEF Solvent
  <2>6. ~gtc => CashFree(m, pays) >= rest
    BY <1>8, <2>3
  <2>7. pays = order.key[1]
    BY <1>2 DEF pays
  <2> QED
    BY <1>12, <1>14, <2>5, <2>6, <2>7 DEF rest, side, limit, r, q, t, m, gtc
<1>15. CASE side # "Buy"
  <2>0. side = "Sell"
    BY <1>2, <1>15 DEF Sides
  <2>1. ASSUME NEW a \in Accounts
        PROVE  CashFree(m, a) = CashFree(ledger, a)
                 + (IF a = other THEN cost ELSE 0)
                 - (IF a = other THEN cost ELSE 0)
                 + (IF a = pays THEN cost ELSE 0)
    <3>1. CashReleased(ledger, pas, "Buy", q, a) = IF a = other THEN cost ELSE 0
      BY <1>4 DEF CashReleased, CashLock
    <3> QED
      BY <1>5, <1>13, <1>15, <3>1
  <2>2. ASSUME NEW x \in Positions
        PROVE  UnitsFree(m, x) = UnitsFree(ledger, x)
                 + (IF x = <<pays, i>> /\ gtc THEN q ELSE 0)
                 + (IF x = <<other, i>> THEN q ELSE 0)
                 - (IF x = <<pays, i>> THEN q ELSE 0)
    <3>1. UnitsReleased(ledger, agg, "Sell", i, q, x) =
            IF x = <<pays, i>> /\ gtc THEN q ELSE 0
      BY <1>4 DEF UnitsReleased, UnitLock
    <3> QED
      BY <1>5, <1>13, <1>15, <3>1
  <2> HIDE DEF cost, full, rest, locked, pays, other
  <2>3. ASSUME NEW a \in Accounts
        PROVE  CashFree(m, a) >= 0
    BY <1>9, <1>11, <2>1
  <2>4. ASSUME NEW x \in Positions
        PROVE  UnitsFree(m, x) >= 0 /\ (~gtc /\ x = <<pays, i>> => UnitsFree(m, x) >= r - q)
    <3> DEFINE y == <<pays, i>>
               z == <<other, i>>
    <3>1. ~gtc => UnitsFree(ledger, y) >= r
      BY <1>7, <2>0
    <3>2. UnitsFree(m, x) = UnitsFree(ledger, x)
                 + (IF x = y /\ gtc THEN q ELSE 0)
                 + (IF x = z THEN q ELSE 0)
                 - (IF x = y THEN q ELSE 0)
      BY <2>2
    <3> HIDE DEF y, z
    <3>3. UnitsFree(m, x) >= 0 /\ (~gtc /\ x = y => UnitsFree(m, x) >= r - q)
      BY <1>1, <1>11, <3>1, <3>2
    <3> QED
      BY <3>3 DEF y
  <2>5. Solvent(m)
    BY <2>3, <2>4 DEF Solvent
  <2>6. ~gtc => UnitsFree(m, <<pays, i>>) >= r - q
    BY <1>8, <2>4
  <2>7. pays = order.key[1]
    BY <1>2 DEF pays
  <2> QED
    BY <1>12, <2>0, <2>5, <2>6, <2>7 DEF side, i, r, q, t, m, gtc
<1> QED
  BY <1>14, <1>15

\* The holds after a trade are the orders after a trade.
LEMMA MatchMirrors ==
  ASSUME EngineInv, DirectoryInv, LedgerInv, NEW p \in Prices, MatchAt(p),
         TradeSettled(ledger, ledger', TradeExecuted(p))
  PROVE  MirrorInv'
<1> DEFINE order == incoming[1]
           h == FrontHandle(p)
           q == TradeQuantity(p)
           agg == Aggressor(p)
           pas == Passive(p)
           t == TradeExecuted(p)
<1>1. MatchesAt(p)
  BY DEF MatchAt
<1>2. /\ h \in DOMAIN slab /\ order \in IncomingForm /\ q \in Nat \ {0}
      /\ q <= order.remaining /\ order.remaining \in Nat /\ ~Idle
      /\ slab[h].remaining \in Nat \ {0} /\ q <= slab[h].remaining
      /\ h = Head(levels[LevelOf(slab[h])])
  BY <1>1, TradeFacts DEF EngineInv
<1>3. /\ agg.key # pas.key /\ agg.key \notin DOMAIN orders
      /\ pas.key \in DOMAIN orders /\ pas.key \in DOMAIN ledger.holds
      /\ agg.key \in DOMAIN ledger.holds <=> order.time_in_force = "GTC"
  BY <1>1, MatchLegs
<1>4. /\ agg.key = order.key /\ agg.remaining = order.remaining - q
      /\ pas.key = slab[h].key /\ pas.remaining = slab[h].remaining - q
  BY DEF Aggressor, Passive
<1>5. {t.buyer, t.seller} = {agg, pas}
  BY TradeOf
<1>6. /\ \A k : k # agg.key /\ k # pas.key =>
           /\ k \in DOMAIN ledger'.holds <=> k \in DOMAIN ledger.holds
           /\ k \in DOMAIN ledger.holds => ledger'.holds[k] = ledger.holds[k]
      /\ \A leg \in {agg, pas} :
           /\ leg.key \in DOMAIN ledger'.holds <=>
                leg.key \in DOMAIN ledger.holds /\ leg.remaining # 0
           /\ leg.key \in DOMAIN ledger'.holds =>
                ledger'.holds[leg.key] =
                  [instrument  |-> ledger.holds[leg.key].instrument,
                   side        |-> ledger.holds[leg.key].side,
                   limit_price |-> ledger.holds[leg.key].limit_price,
                   remaining   |-> leg.remaining]
  <2> HIDE DEF t, agg, pas
  <2>1. \/ t.buyer = agg /\ t.seller = pas
        \/ t.buyer = pas /\ t.seller = agg
    BY TradeOf DEF t, agg, pas
  <2>2. /\ \A k : k # t.buyer.key /\ k # t.seller.key =>
             /\ k \in DOMAIN ledger'.holds <=> k \in DOMAIN ledger.holds
             /\ k \in DOMAIN ledger.holds => ledger'.holds[k] = ledger.holds[k]
        /\ \A leg \in {t.buyer, t.seller} :
             /\ leg.key \in DOMAIN ledger'.holds <=>
                  leg.key \in DOMAIN ledger.holds /\ leg.remaining # 0
             /\ leg.key \in DOMAIN ledger'.holds =>
                  ledger'.holds[leg.key] =
                    [instrument  |-> ledger.holds[leg.key].instrument,
                     side        |-> ledger.holds[leg.key].side,
                     limit_price |-> ledger.holds[leg.key].limit_price,
                     remaining   |-> leg.remaining]
    BY DEF TradeSettled, t
  <2> QED
    BY <2>1, <2>2
<1>7. /\ ~Idle' /\ incoming'[1].remaining = agg.remaining
      /\ incoming'[1].key = agg.key
      /\ incoming'[1].instrument = order.instrument
      /\ incoming'[1].side = order.side /\ incoming'[1].price = order.price
      /\ incoming'[1].time_in_force = order.time_in_force
  BY <1>4, IncomingAfterTrade DEF EngineInv
<1>8. /\ Rests(order) <=> order.time_in_force = "GTC"
      /\ Rests(incoming[1])' <=> order.time_in_force = "GTC" /\ agg.remaining # 0
  <2>1. order.remaining > 0
    BY <1>1 DEF MatchesAt
  <2>2. agg.remaining \in Nat
    BY <1>2, <1>4
  <2> HIDE DEF agg
  <2> QED
    BY <1>7, <2>1, <2>2 DEF Rests
<1>9. Rests(incoming[1])' => HoldMirrors(incoming[1].key, incoming[1])'
  <2> SUFFICES ASSUME Rests(incoming[1])'
               PROVE  HoldMirrors(incoming[1].key, incoming[1])'
    OBVIOUS
  <2>1. agg.key \in DOMAIN ledger'.holds /\ HoldMirrors(order.key, order)
    BY <1>2, <1>3, <1>6, <1>8 DEF LedgerInv, MirrorInv
  <2> HIDE DEF agg
  <2>2. ledger'.holds[agg.key] =
          [instrument  |-> ledger.holds[agg.key].instrument,
           side        |-> ledger.holds[agg.key].side,
           limit_price |-> ledger.holds[agg.key].limit_price,
           remaining   |-> agg.remaining]
    BY <1>6, <2>1
  <2>3. /\ ledger.holds[agg.key].instrument = order.instrument
        /\ ledger.holds[agg.key].side = order.side
        /\ ledger.holds[agg.key].limit_price = order.price
    BY <1>4, <2>1 DEF HoldMirrors
  <2> QED
    BY <1>7, <2>2, <2>3 DEF HoldMirrors
<1>10. \/ /\ pas.remaining = 0
          /\ DOMAIN slab' = DOMAIN slab \ {h}
          /\ DOMAIN orders' = DOMAIN orders \ {pas.key}
       \/ /\ pas.remaining # 0
          /\ DOMAIN slab' = DOMAIN slab /\ orders' = orders
          /\ slab'[h] = [slab[h] EXCEPT !.remaining = pas.remaining]
  <2>1. CASE /\ q = slab[h].remaining /\ FillFront(p)
    BY <1>2, <1>4, <2>1 DEF FillFront, Erase
  <2>2. CASE /\ q < slab[h].remaining /\ ReduceFront(p)
    <3>1. pas.remaining # 0
      BY <1>2, <1>4, <2>2
    <3>2. orders' = orders /\ slab' = [slab EXCEPT ![h].remaining = @ - q]
      BY <2>2 DEF ReduceFront
    <3> QED
      BY <1>2, <1>4, <3>1, <3>2
  <2> QED
    BY <2>1, <2>2 DEF MatchAt
<1>11. \A g \in DOMAIN slab' : g \in DOMAIN slab /\ (g # h => slab'[g] = slab[g])
  BY DEF MatchAt, FillFront, ReduceFront, Erase
<1> HIDE DEF agg, pas, h, order
<1>12. ASSUME NEW g \in DOMAIN slab'
       PROVE  HoldMirrors(slab[g].key, slab[g])'
  <2>1. g \in DOMAIN slab /\ HoldMirrors(slab[g].key, slab[g])
    BY <1>11 DEF LedgerInv, MirrorInv
  <2>2. CASE g # h
    <3>1. slab[g].key \in DOMAIN orders /\ slab[g].key # pas.key
      BY <1>2, <1>4, <2>1, <2>2 DEF DirectoryInv
    <3>2. slab[g].key \in DOMAIN ledger.holds /\ slab[g].key # agg.key
      BY <1>3, <3>1 DEF LedgerInv, MirrorInv
    <3> QED
      BY <1>6, <1>11, <2>1, <2>2, <3>1, <3>2 DEF HoldMirrors
  <2>3. CASE g = h
    <3>1. pas.remaining # 0 /\ slab'[g] = [slab[g] EXCEPT !.remaining = pas.remaining]
      BY <1>10, <2>3
    <3>2. slab[g] \in BookOrder
      BY <2>1 DEF EngineInv, EngineTypeOK
    <3>3. /\ slab'[g].key = slab[g].key /\ slab'[g].instrument = slab[g].instrument
          /\ slab'[g].side = slab[g].side /\ slab'[g].price = slab[g].price
          /\ slab'[g].remaining = pas.remaining
      BY <3>1, <3>2 DEF BookOrder
    <3>4. pas.key = slab[g].key
      BY <1>4, <2>3
    <3>5. pas.key \in DOMAIN ledger'.holds
      BY <1>3, <1>6, <3>1
    <3>6. ledger'.holds[pas.key] =
            [instrument  |-> ledger.holds[pas.key].instrument,
             side        |-> ledger.holds[pas.key].side,
             limit_price |-> ledger.holds[pas.key].limit_price,
             remaining   |-> pas.remaining]
      BY <1>6, <3>5
    <3>7. /\ ledger.holds[pas.key].instrument = slab[g].instrument
          /\ ledger.holds[pas.key].side = slab[g].side
          /\ ledger.holds[pas.key].limit_price = slab[g].price
      BY <2>1, <3>4 DEF HoldMirrors
    <3> QED
      BY <3>3, <3>4, <3>6, <3>7 DEF HoldMirrors
  <2> QED
    BY <2>2, <2>3
<1>13. ASSUME NEW k
       PROVE  k \in DOMAIN ledger'.holds <=>
                \/ k \in DOMAIN orders'
                \/ ~Idle' /\ Rests(incoming[1])' /\ k = incoming'[1].key
  <2>1. k # agg.key => (k \in DOMAIN ledger.holds <=> k \in DOMAIN orders)
    BY <1>4 DEF LedgerInv, MirrorInv, order
  <2>2. CASE k = agg.key
    <3>1. k \notin DOMAIN orders'
      BY <1>3, <1>10, <2>2
    <3>2. k \in DOMAIN ledger'.holds <=> Rests(incoming[1])'
      BY <1>3, <1>6, <1>8, <2>2
    <3> QED
      BY <1>7, <2>2, <3>1, <3>2
  <2>3. CASE k = pas.key
    <3>1. k \in DOMAIN ledger'.holds <=> pas.remaining # 0
      BY <1>3, <1>6, <2>3
    <3>2. k \in DOMAIN orders' <=> pas.remaining # 0
      BY <1>3, <1>10, <2>3
    <3> QED
      BY <1>3, <1>7, <2>3, <3>1, <3>2
  <2>4. CASE k # agg.key /\ k # pas.key
    <3>1. k \in DOMAIN ledger'.holds <=> k \in DOMAIN ledger.holds
      BY <1>6, <2>4
    <3>2. k \in DOMAIN orders' <=> k \in DOMAIN orders
      BY <1>10, <2>4
    <3> QED
      BY <1>7, <2>1, <2>4, <3>1, <3>2
  <2> QED
    BY <2>2, <2>3, <2>4
<1> QED
  BY <1>9, <1>12, <1>13 DEF MirrorInv

\* One iteration of the loop with the settlement its event causes.
LEMMA MatchKeepsLedger ==
  ASSUME EngineInv, DirectoryInv, LedgerInv, NEW p \in Prices, MatchAt(p),
         ledger' = OnTradeExecuted(ledger, TradeExecuted(p))
  PROVE  LedgerInv'
<1>1. MatchesAt(p)
  BY DEF MatchAt
<1> DEFINE order == incoming[1]
           q == TradeQuantity(p)
<1>2. /\ TradeSettled(ledger, ledger', TradeExecuted(p)) /\ Solvent(ledger')
      /\ order.time_in_force # "GTC" =>
           /\ order.side = "Buy" =>
                CashFree(ledger', order.key[1]) >= (order.remaining - q) * order.price
           /\ order.side = "Sell" =>
                UnitsFree(ledger', <<order.key[1], order.instrument>>)
                  >= order.remaining - q
  BY <1>1, MatchBalances
<1>3. MirrorInv'
  BY <1>2, MatchMirrors
<1>4. /\ IsLedger(ledger') /\ Backed(ledger') /\ FundsConserved'
  <2>1. /\ IsLedger(ledger') /\ Backed(ledger')
        /\ SumOver(ledger'.cash_total, Accounts) = SumOver(ledger.cash_total, Accounts)
        /\ \A j \in Instruments :
             SumOver(UnitsOf(ledger', j), Accounts) = SumOver(UnitsOf(ledger, j), Accounts)
    BY <1>2 DEF TradeSettled
  <2> QED
    BY <2>1, FundsStay DEF LedgerInv
<1>5. IncomingCovered'
  <2>1. /\ incoming'[1].remaining = order.remaining - q
        /\ incoming'[1].key = order.key
        /\ incoming'[1].instrument = order.instrument
        /\ incoming'[1].side = order.side /\ incoming'[1].price = order.price
        /\ incoming'[1].time_in_force = order.time_in_force
    BY IncomingAfterTrade DEF EngineInv
  <2> QED
    BY <1>2, <2>1 DEF IncomingCovered
<1> QED
  BY <1>2, <1>3, <1>4, <1>5 DEF LedgerInv
-----------------------------------------------------------------------------
\* The book's invariant is kept by every step, whatever ids clients reuse.
LEMMA EngineStep ==
  ASSUME EngineInv, [Next]_vars
  PROVE  EngineInv'
<1>1. ASSUME NEW cmd \in NewOrderCommand, GatedNewOrder(cmd)
      PROVE  EngineInv'
  BY <1>1, NewOrderKeeps DEF GatedNewOrder
<1>2. ASSUME NEW cmd \in ReplaceOrderCommand, GatedReplace(cmd)
      PROVE  EngineInv'
  BY <1>2, ReplaceInPlaceKeeps, ReplaceAsNewKeeps DEF GatedReplace
<1>3. ASSUME NEW cmd \in CancelOrderCommand, GatedCancel(cmd)
      PROVE  EngineInv'
  BY <1>3, CancelKeeps DEF GatedCancel
<1>4. CASE GatedMatch
  BY <1>4, MatchKeeps DEF GatedMatch
<1>5. CASE GatedFinish
  BY <1>5, RestKeeps, DiscardKeeps DEF GatedFinish
<1>6. CASE UNCHANGED vars
  <2>1. UNCHANGED engineVars
    BY <1>6 DEF vars
  <2>2. EngineTypeOK'
    BY <2>1 DEF engineVars, EngineInv, EngineTypeOK
  <2>3. Linked' /\ NotCrossed' /\ EntriesLead' /\ RestingGtc' /\ IdsFresh'
    BY <2>1 DEF engineVars, EngineInv, Linked, HandlesAt, NotCrossed, EntriesLead,
                RestingGtc, IdsFresh, Idle, LevelOf
  <2>4. FokCovered'
    BY <2>1 DEF engineVars, EngineInv, FokCovered, Idle, CrossableQuantity,
                CanTradeWith
  <2> QED
    BY <2>2, <2>3, <2>4 DEF EngineInv
<1> QED
  BY <1>1, <1>2, <1>3, <1>4, <1>5, <1>6 DEF Next, GatedReject

\* The directory's and the ledger's, when no replace reuses a live id.
LEMMA GatedStep ==
  ASSUME FreshReplaceIds, EngineInv, DirectoryInv, LedgerInv, [Next]_vars
  PROVE  DirectoryInv' /\ LedgerInv'
<1>1. ASSUME NEW cmd \in NewOrderCommand, GatedNewOrder(cmd)
      PROVE  DirectoryInv' /\ LedgerInv'
  BY <1>1, NewOrderKeepsDirectory, NewOrderKeepsLedger DEF GatedNewOrder
<1>2. ASSUME NEW cmd \in ReplaceOrderCommand, ReplaceIdAllowed(cmd), GatedReplace(cmd)
      PROVE  DirectoryInv' /\ LedgerInv'
  BY <1>2, ReplaceKeepsDirectory, ReplaceKeepsLedger DEF GatedReplace
<1>3. ASSUME NEW cmd \in CancelOrderCommand, GatedCancel(cmd)
      PROVE  DirectoryInv' /\ LedgerInv'
  BY <1>3, CancelKeepsDirectory, CancelKeepsLedger DEF GatedCancel
<1>4. CASE GatedMatch
  BY <1>4, MatchKeepsDirectory, MatchKeepsLedger DEF GatedMatch
<1>5. CASE GatedFinish
  BY <1>5, FinishKeepsDirectory, FinishKeepsLedger DEF GatedFinish
<1>6. CASE UNCHANGED vars
  <2>1. DirectoryInv'
    BY <1>6 DEF vars, engineVars, DirectoryInv, Idle
  <2>2. MirrorInv' /\ IncomingCovered' /\ FundsConserved'
    BY <1>6 DEF vars, engineVars, LedgerInv, MirrorInv, IncomingCovered,
                FundsConserved, HoldMirrors, Rests, Idle
  <2> QED
    BY <1>6, <2>1, <2>2 DEF vars, LedgerInv
<1> QED
  BY <1>1, <1>2, <1>3, <1>4, <1>5, <1>6 DEF Next, GatedReject

\* The book's invariant holds in every reachable state.
LEMMA EngineAlways == Spec => []EngineInv
<1>1. Init => EngineInv
  BY EngineInitially DEF Init
<1>2. EngineInv /\ [Next]_vars => EngineInv'
  BY EngineStep
<1> QED
  BY <1>1, <1>2, PTL DEF Spec

\* And so, with fresh replace ids, do the directory's and the ledger's.
GatedInv == EngineInv /\ DirectoryInv /\ LedgerInv

\* The conjunction is inductive.
LEMMA GatedAlways ==
  ASSUME FreshReplaceIds
  PROVE  Spec => []GatedInv
<1>1. Init => GatedInv
  BY EngineInitially, DirectoryInitially, LedgerInitially DEF Init, GatedInv
<1>2. GatedInv /\ [Next]_vars => GatedInv'
  BY EngineStep, GatedStep DEF GatedInv
<1> QED
  BY <1>1, <1>2, PTL DEF Spec

\* The engine's state keeps the shape MatchingEngine and MatchingBook declare.
THEOREM EngineTyped == Spec => []EngineTypeOK
<1>1. EngineInv => EngineTypeOK
  BY DEF EngineInv
<1> QED
  BY <1>1, EngineAlways, PTL

\* However many orders, prices and commands there are, and whatever ids a
\* client reuses, the orders of a level queue in the order of acceptance.
THEOREM QueuesKeepTimePriority == Spec => []TimePriority
<1>1. EngineInv => TimePriority
  BY LinkedIsOrdered DEF EngineInv
<1> QED
  BY <1>1, EngineAlways, PTL

\* The matching loop leaves no crossing pair behind: a resting bid is always
\* below every resting offer, in the middle of a command too.
THEOREM BookStaysUncrossed == Spec => []BookNeverCrossed
<1>1. EngineInv => BookNeverCrossed
  BY NotCrossedBook DEF EngineInv
<1> QED
  BY <1>1, EngineAlways, PTL

\* A fill-or-kill order that passed the pre-check never ends with a remainder:
\* the quantity the check summed is the quantity the loop can still reach.
THEOREM FillOrKillFills == Spec => []FokFillsCompletely
<1>1. EngineInv => FokFillsCompletely
  BY FokNeverLeavesARemainder DEF EngineInv
<1> QED
  BY <1>1, EngineAlways, PTL

\* With replace ids that are fresh, the directory, the slab, the level queues
\* and resting_orders_ tell one story in every state.
THEOREM DirectoryIsTheBook ==
  ASSUME FreshReplaceIds
  PROVE  Spec => []DirectoryMatchesBook
<1>1. GatedInv => DirectoryMatchesBook
  BY DirectoryHolds DEF GatedInv
<1> QED
  BY <1>1, GatedAlways, PTL

\* The hold table is the table of live GTC orders, with their own side, limit
\* and remainder, between any two events of a command.
THEOREM HoldsAreTheOrders ==
  ASSUME FreshReplaceIds
  PROVE  Spec => []HoldsMirrorOrders
<1>1. GatedInv => HoldsMirrorOrders
  BY LedgerHolds DEF GatedInv
<1> QED
  BY <1>1, GatedAlways, PTL

\* No sequence of fills, cancels and replaces leaks a reservation or frees one
\* twice: what is reserved is the sum of what the holds lock.
THEOREM ReservationsAreTheHolds ==
  ASSUME FreshReplaceIds
  PROVE  Spec => []ReservedIsHeld
<1>1. GatedInv => ReservedIsHeld
  BY LedgerHolds DEF GatedInv
<1> QED
  BY <1>1, GatedAlways, PTL

\* The pre-trade check is enough: no account ever has more reserved than it
\* owns, also when an IOC or FOK order trades with no hold behind it and when
\* an account trades with itself.
THEOREM AccountsStaySolvent ==
  ASSUME FreshReplaceIds
  PROVE  Spec => []NeverOverdrawn
<1>1. GatedInv => NeverOverdrawn
  BY LedgerHolds DEF GatedInv
<1> QED
  BY <1>1, GatedAlways, PTL

\* Trades move cash and units between accounts and create none.
THEOREM FundsAreConserved ==
  ASSUME FreshReplaceIds
  PROVE  Spec => []FundsConserved
<1>1. GatedInv => FundsConserved
  BY DEF GatedInv, LedgerInv
<1> QED
  BY <1>1, GatedAlways, PTL
=============================================================================
