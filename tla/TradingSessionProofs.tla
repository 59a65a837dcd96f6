------------------------ MODULE TradingSessionProofs ------------------------
(***************************************************************************)
(* Proofs about TradingSession, for every strategy, quote size, deposit    *)
(* and number of ids.                                                      *)
(*                                                                         *)
(* The inductive invariant is Session, at the end of the module.  Its      *)
(* parts, in the order they are proved:                                    *)
(*   Typed      types of the variables;                                    *)
(*   Known      every id that is named by a request, a message, a resting  *)
(*              or an arriving order is one the OMS knows, with the same   *)
(*              side, price and time in force, and the id a request        *)
(*              introduces was not heard of before;                        *)
(*   PendingIsUnderWay                                                     *)
(*              a locked order has its request or its answer under way;    *)
(*   Quoted     there is one order per side, and the quote follows it      *)
(*              until a message that ends it has been read;                *)
(*   Agreement  the last message that speaks of an order says what the     *)
(*              exchange has of it, and without one the OMS knows;         *)
(*   Money      the reports under way lead from the trader's books to the  *)
(*              ledger's, within what is held and what the ids may buy.    *)
(***************************************************************************)
EXTENDS TradingSession, CommonLemmas

Tifs == {"GTC", "IOC"}

Quantities == 1..QuoteSize

ClientOrders ==
  [side : Sides, price : Nat, quantity : Nat, remaining : Nat,
   time_in_force : Tifs, state : OrderStates, pending : PendingActions]

Requests ==
  [type : {"NewOrder"}, id : Nat, side : Sides, price : Nat,
   quantity : Quantities, time_in_force : Tifs]
    \cup [type : {"CancelOrder"}, id : Nat]
    \cup [type : {"ReplaceOrder"}, id : Nat, new_id : Nat, price : Nat,
          quantity : Quantities]

Messages ==
  [type : {"Accepted"}, id : Nat, quantity : Quantities]
    \cup [type : {"Rejected", "Cancelled"}, id : Nat]
    \cup [type : {"Replaced"}, id : Nat, new_id : Nat, price : Nat,
          quantity : Quantities]
    \cup [type : {"TradeReport"}, id : Nat, price : Nat, quantity : Nat \ {0},
          remaining : Nat]

Fills == [side : Sides, price : Nat, quantity : Nat \ {0}]

Resting == [side : Sides, price : Nat, remaining : Nat \ {0}]

Arrivals == [id : Nat, side : Sides, price : Nat, remaining : Nat, time_in_force : Tifs]

StrategyTyped ==
  /\ strategy \in Strategies
  /\ todo \in Seq([side : Sides, price : Nat])
  /\ quote \in [Sides -> Nat]
  /\ stopped \in BOOLEAN

OmsTyped ==
  /\ nextId \in 1..(MaxId + 1)
  /\ orders \in [DOMAIN orders -> ClientOrders]
  /\ DOMAIN orders \subseteq 1..(nextId - 1)

WireTyped ==
  /\ connected \in BOOLEAN
  /\ sending \in Seq(Requests) /\ Len(sending) <= 1
  /\ toExchange \in Seq(Requests)
  /\ toTrader \in Seq(Messages)

BooksTyped ==
  /\ settling \in Seq(Fills) /\ Len(settling) <= 1
  /\ observing \in Seq(Fills) /\ Len(observing) <= 1
  /\ settling = << >> \/ observing = << >>
  /\ account \in [cash : Int, holdings : Nat]
  /\ pnl \in [position : Int, open_notional : Int, realized : Int]

ExchangeTyped ==
  /\ working \in [DOMAIN working -> Resting]
  /\ DOMAIN working \subseteq Nat
  /\ incoming \in Seq(Arrivals) /\ Len(incoming) <= 1
  /\ xaccount \in [cash : Int, holdings : Nat]

Typed == StrategyTyped /\ OmsTyped /\ WireTyped /\ BooksTyped /\ ExchangeTyped
-----------------------------------------------------------------------------
(***************************************************************************)
(* Sequences by what they hold.                                            *)
(***************************************************************************)
LEMMA Alone ==
  ASSUME NEW S, NEW x \in S
  PROVE  /\ <<x>> \in Seq(S) /\ Len(<<x>>) = 1 /\ <<x>>[1] = x /\ DOMAIN <<x>> = {1}
         /\ Range(<<x>>) = {x}
<1>1. <<x>> \in Seq(S) /\ Len(<<x>>) = 1 /\ <<x>>[1] = x
  OBVIOUS
<1>2. DOMAIN <<x>> = {1}
  OBVIOUS
<1> QED
  BY <1>1, <1>2 DEF Range

LEMMA Emptied ==
  ASSUME NEW S
  PROVE  << >> \in Seq(S) /\ Len(<< >>) = 0 /\ DOMAIN << >> = {} /\ Range(<< >>) = {}
  BY DEF Range

LEMMA Joined ==
  ASSUME NEW S, NEW s \in Seq(S), NEW t \in Seq(S)
  PROVE  /\ s \o t \in Seq(S) /\ Len(s \o t) = Len(s) + Len(t)
         /\ Range(s \o t) = Range(s) \cup Range(t)
         /\ \A j \in DOMAIN s : j \in DOMAIN (s \o t) /\ (s \o t)[j] = s[j]
         /\ \A j \in DOMAIN t : Len(s) + j \in DOMAIN (s \o t) /\ (s \o t)[Len(s) + j] = t[j]
         /\ \A j \in DOMAIN (s \o t) : j \in DOMAIN s \/ \E i \in DOMAIN t : j = Len(s) + i
<1>1. s \o t \in Seq(S) /\ Len(s \o t) = Len(s) + Len(t)
  BY ConcatProperties
<1>2. Range(s \o t) = Range(s) \cup Range(t)
  BY RangeConcatenation
<1>3. \A j \in DOMAIN s : j \in DOMAIN (s \o t) /\ (s \o t)[j] = s[j]
  OBVIOUS
<1>4. \A j \in DOMAIN t : Len(s) + j \in DOMAIN (s \o t) /\ (s \o t)[Len(s) + j] = t[j]
  OBVIOUS
<1>5. ASSUME NEW j \in DOMAIN (s \o t)
      PROVE  j \in DOMAIN s \/ \E i \in DOMAIN t : j = Len(s) + i
  <2>1. CASE j <= Len(s)
    BY <1>1, <2>1
  <2>2. CASE j > Len(s)
    <3>1. j - Len(s) \in DOMAIN t /\ j = Len(s) + (j - Len(s))
      BY <1>1, <2>2
    <3> QED BY <3>1
  <2> QED BY <1>1, <2>1, <2>2
<1> QED
  BY <1>1, <1>2, <1>3, <1>4, <1>5

LEMMA Beheaded ==
  ASSUME NEW S, NEW s \in Seq(S), s # << >>
  PROVE  /\ Head(s) \in S /\ Head(s) = s[1] /\ 1 \in DOMAIN s
         /\ Tail(s) \in Seq(S) /\ Len(s) > 0 /\ Len(Tail(s)) = Len(s) - 1
         /\ Range(s) = {Head(s)} \cup Range(Tail(s))
         /\ \A j \in DOMAIN Tail(s) : j + 1 \in DOMAIN s /\ Tail(s)[j] = s[j + 1]
         /\ \A j \in DOMAIN s : j = 1 \/ (j - 1 \in DOMAIN Tail(s) /\ Tail(s)[j - 1] = s[j])
<1>1. /\ Head(s) \in S /\ Head(s) = s[1] /\ 1 \in DOMAIN s
      /\ Tail(s) \in Seq(S) /\ Len(s) > 0 /\ Len(Tail(s)) = Len(s) - 1
  BY HeadTailProperties
<1>2. \A j \in DOMAIN Tail(s) : j + 1 \in DOMAIN s /\ Tail(s)[j] = s[j + 1]
  OBVIOUS
<1>3. \A j \in DOMAIN s : j = 1 \/ (j - 1 \in DOMAIN Tail(s) /\ Tail(s)[j - 1] = s[j])
  OBVIOUS
<1>4. Range(s) \subseteq {Head(s)} \cup Range(Tail(s))
  BY <1>1, <1>3 DEF Range
<1>5. {Head(s)} \cup Range(Tail(s)) \subseteq Range(s)
  BY <1>1, <1>2 DEF Range
<1> QED
  BY <1>1, <1>2, <1>3, <1>4, <1>5

LEMMA Cut ==
  ASSUME NEW S, NEW s \in Seq(S), NEW n \in 0..Len(s)
  PROVE  /\ SubSeq(s, 1, n) \in Seq(S) /\ Len(SubSeq(s, 1, n)) = n
         /\ Range(SubSeq(s, 1, n)) \subseteq Range(s)
         /\ \A j \in DOMAIN SubSeq(s, 1, n) : j \in DOMAIN s /\ SubSeq(s, 1, n)[j] = s[j]
<1>1. SubSeq(s, 1, n) \in Seq(S) /\ Len(SubSeq(s, 1, n)) = n
  BY SubSeqProperties
<1>2. \A j \in DOMAIN SubSeq(s, 1, n) : j \in DOMAIN s /\ SubSeq(s, 1, n)[j] = s[j]
  OBVIOUS
<1> QED
  BY <1>1, <1>2 DEF Range

LEMMA Single ==
  ASSUME NEW S, NEW s \in Seq(S), Len(s) <= 1, s # << >>
  PROVE  /\ s[1] \in S /\ Len(s) = 1 /\ DOMAIN s = {1}
         /\ s = <<s[1]>> /\ Range(s) = {s[1]}
<1>1. Len(s) = 1
  <2>1. PICK k \in Nat \ {0} : k = Len(s)
    BY EmptySeq
  <2>2. k <= 1
    BY <2>1
  <2> QED BY <2>1, <2>2
<1>2. s[1] \in S /\ DOMAIN s = {1} /\ s = <<s[1]>>
  BY <1>1
<1> QED
  BY <1>1, <1>2 DEF Range

LEMMA MinOfTwo ==
  ASSUME NEW a \in Int, NEW b \in Int
  PROVE  /\ Min({a, b}) \in {a, b}
         /\ Min({a, b}) <= a /\ Min({a, b}) <= b
<1> DEFINE P(x) == x \in {a, b} /\ \A y \in {a, b} : x <= y
<1>1. \E x : P(x)
  <2>1. CASE a <= b
    <3>1. P(a)
      BY <2>1
    <3> QED BY <3>1
  <2>2. CASE b <= a
    <3>1. P(b)
      BY <2>2
    <3> QED BY <3>1
  <2> QED BY <2>1, <2>2
<1>2. P(CHOOSE x : P(x))
  <2> HIDE DEF P
  <2> QED BY <1>1
<1>3. Min({a, b}) = CHOOSE x : P(x)
  BY DEF Min
<1> QED
  BY <1>2, <1>3
-----------------------------------------------------------------------------
(***************************************************************************)
(* What a request, a message and an order look like.                       *)
(***************************************************************************)
LEMMA RequestForm ==
  ASSUME NEW m \in Requests
  PROVE  /\ m.id \in Nat
         /\ m.type \in {"NewOrder", "CancelOrder", "ReplaceOrder"}
         /\ m.type = "NewOrder" =>
              /\ m.side \in Sides /\ m.price \in Nat
              /\ m.quantity \in Quantities /\ m.time_in_force \in Tifs
         /\ m.type = "ReplaceOrder" =>
              m.new_id \in Nat /\ m.price \in Nat /\ m.quantity \in Quantities
  BY DEF Requests

LEMMA MessageForm ==
  ASSUME NEW m \in Messages
  PROVE  /\ m.id \in Nat
         /\ m.type \in {"Accepted", "Rejected", "Cancelled", "Replaced", "TradeReport"}
         /\ m.type = "Accepted" => m.quantity \in Quantities
         /\ m.type = "Replaced" =>
              m.new_id \in Nat /\ m.price \in Nat /\ m.quantity \in Quantities
         /\ m.type = "TradeReport" =>
              m.price \in Nat /\ m.quantity \in Nat \ {0} /\ m.remaining \in Nat
  BY DEF Messages

\* The quantities the strategies ask for.
LEMMA QuantitiesAre ==
  /\ QuoteSize \in Nat \ {0} /\ QuoteSize \in Quantities
  /\ Quantities \subseteq Nat \ {0} /\ \A n \in Quantities : n <= QuoteSize
  BY SessionAssumption DEF Quantities

LEMMA DesiredPrice ==
  ASSUME NEW side \in Sides, NEW r \in References
  PROVE  Desired(side, r) \in Nat /\ Contra(side) \in Sides
  BY SessionAssumption DEF Desired, Contra, Sides

LEMMA PricesAre == Prices \subseteq Nat
  BY SessionAssumption DEF Prices

LEMMA MaxIdIs ==
  ASSUME strategy \in Strategies
  PROVE  MaxId \in Nat
  BY SessionAssumption DEF MaxId

LEMMA NewClientOrder ==
  ASSUME NEW side \in Sides, NEW price \in Nat, NEW quantity \in Nat, NEW tif \in Tifs
  PROVE  ClientOrder(side, price, quantity, tif) \in ClientOrders
  BY DEF ClientOrder, ClientOrders, OrderStates, PendingActions

LEMMA PutIs ==
  ASSUME NEW f, NEW S, f \in [DOMAIN f -> S], NEW id, NEW x \in S
  PROVE  /\ Put(f, id, x) \in [DOMAIN f \cup {id} -> S]
         /\ DOMAIN Put(f, id, x) = DOMAIN f \cup {id}
         /\ Put(f, id, x)[id] = x
         /\ \A y \in DOMAIN f : y # id => Put(f, id, x)[y] = f[y]
  BY DEF Put

LEMMA DropIs ==
  ASSUME NEW f, NEW S, f \in [DOMAIN f -> S], NEW id
  PROVE  /\ Drop(f, id) \in [DOMAIN f \ {id} -> S]
         /\ DOMAIN Drop(f, id) = DOMAIN f \ {id}
         /\ \A y \in DOMAIN f \ {id} : Drop(f, id)[y] = f[y]
  BY DEF Drop
-----------------------------------------------------------------------------
(***************************************************************************)
(* What a message does to the trader's orders.                             *)
(***************************************************************************)
Mentions(m, id) == m.id = id \/ (m.type = "Replaced" /\ m.new_id = id)

\* The message ends the order.
Ends(m, id, table) ==
  /\ m.id = id
  /\ \/ m.type \in {"Cancelled", "Replaced"}
     \/ m.type = "TradeReport" /\ m.remaining = 0
     \/ m.type = "Rejected" /\ table[id].state = "PendingNew"

\* The order after the message.
AfterMessage(o, x, m) ==
  IF m.type = "Replaced"
  THEN IF x = m.id THEN [o EXCEPT !.state = "Replaced", !.pending = "None"]
       ELSE IF x = m.new_id
       THEN [o EXCEPT !.state = "Live", !.price = m.price, !.quantity = m.quantity,
                      !.remaining = m.quantity]
       ELSE o
  ELSE IF x # m.id THEN o
  ELSE IF m.type = "Accepted" THEN OnAccepted(o, m)
  ELSE IF m.type = "Rejected" THEN OnRejected(o)
  ELSE IF m.type = "Cancelled" THEN OnCancelled(o)
  ELSE OnTradeReport(o, m)

LEMMA HandledOne ==
  ASSUME NEW o, o \in [DOMAIN o -> ClientOrders], NEW m \in Messages
  PROVE  HandleMessage(o, m) = [x \in DOMAIN o |-> AfterMessage(o[x], x, m)]
<1>1. m.type \in {"Accepted", "Rejected", "Cancelled", "Replaced", "TradeReport"}
  BY MessageForm
<1>2. CASE m.type = "Replaced"
  BY <1>2 DEF HandleMessage, OnReplaced, AfterMessage
<1>3. CASE m.type # "Replaced" /\ m.id \notin DOMAIN o
  BY <1>3 DEF HandleMessage, AfterMessage
<1>4. CASE m.type = "Accepted" /\ m.id \in DOMAIN o
  BY <1>4 DEF HandleMessage, AfterMessage
<1>5. CASE m.type = "Rejected" /\ m.id \in DOMAIN o
  BY <1>5 DEF HandleMessage, AfterMessage
<1>6. CASE m.type = "Cancelled" /\ m.id \in DOMAIN o
  BY <1>6 DEF HandleMessage, AfterMessage
<1>7. CASE m.type = "TradeReport" /\ m.id \in DOMAIN o
  BY <1>7 DEF HandleMessage, AfterMessage
<1> QED
  BY <1>1, <1>2, <1>3, <1>4, <1>5, <1>6, <1>7

LEMMA AfterMessageIs ==
  ASSUME NEW table, NEW x, NEW o \in ClientOrders, o = table[x], NEW m \in Messages,
         NEW h, h = AfterMessage(o, x, m)
  PROVE  /\ h \in ClientOrders
         /\ h.side = o.side /\ h.time_in_force = o.time_in_force
         /\ ~Mentions(m, x) => h = o
         /\ o.state # "PendingNew" => h.state # "PendingNew"
         /\ ~(m.type = "Replaced" /\ m.new_id = x) => h.price = o.price
         /\ m.type = "Replaced" /\ m.new_id = x => h.price \in {o.price, m.price}
         /\ h.pending \in {o.pending, "None"}
         /\ x = m.id /\ m.type \in {"Rejected", "Cancelled", "Replaced"}
              => h.pending = "None"
         /\ IsTerminal(h.state) => IsTerminal(o.state) \/ Ends(m, x, table)
         /\ m.type = "Rejected" =>
              /\ h.remaining = o.remaining
              /\ h.state = o.state \/ (o.state = "PendingNew" /\ h.state = "Rejected")
<1> USE DEF ClientOrders, OrderStates, PendingActions
<1>0. /\ m.type \in {"Accepted", "Rejected", "Cancelled", "Replaced", "TradeReport"}
      /\ Quantities \subseteq Nat
  BY MessageForm, QuantitiesAre
<1>1. CASE m.type = "Replaced" /\ x = m.id
  BY <1>1, <1>0 DEF AfterMessage, Mentions, Ends, IsTerminal
<1>2. CASE m.type = "Replaced" /\ x # m.id /\ x = m.new_id
  <2>1. m.price \in Nat /\ m.quantity \in Nat
    BY <1>2, <1>0, MessageForm
  <2> QED BY <1>2, <2>1 DEF AfterMessage, Mentions, Ends, IsTerminal
<1>3. CASE m.type = "Replaced" /\ x # m.id /\ x # m.new_id
  BY <1>3 DEF AfterMessage, Mentions, Ends, IsTerminal
<1>4. CASE m.type # "Replaced" /\ x # m.id
  BY <1>4 DEF AfterMessage, Mentions, Ends, IsTerminal
<1>5. CASE m.type = "Accepted" /\ x = m.id
  <2>1. m.quantity \in Nat
    BY <1>5, <1>0, MessageForm
  <2> QED BY <1>5, <2>1 DEF AfterMessage, OnAccepted, Mentions, Ends, IsTerminal
<1>6. CASE m.type = "Rejected" /\ x = m.id
  BY <1>6 DEF AfterMessage, OnRejected, Mentions, Ends, IsTerminal
<1>7. CASE m.type = "Cancelled" /\ x = m.id
  BY <1>7 DEF AfterMessage, OnCancelled, Mentions, Ends, IsTerminal
<1>8. CASE m.type = "TradeReport" /\ x = m.id
  <2>1. m.remaining \in Nat
    BY <1>8, MessageForm
  <2> QED BY <1>8, <2>1 DEF AfterMessage, OnTradeReport, Mentions, Ends, IsTerminal
<1> QED
  BY <1>0, <1>1, <1>2, <1>3, <1>4, <1>5, <1>6, <1>7, <1>8
-----------------------------------------------------------------------------
(***************************************************************************)
(* What the strategy thread does to the OMS in one step: nothing, or the   *)
(* registration of one request.                                            *)
(***************************************************************************)
Registers(side, price, quantity, tif) ==
  /\ nextId <= MaxId
  /\ orders' = Put(orders, nextId, ClientOrder(side, price, quantity, tif))
  /\ nextId' = nextId + 1
  /\ sending' = <<NewOrder(side, price, quantity, tif)>>

AsksNothing == UNCHANGED <<orders, nextId, sending>>

AsksNew ==
  \E side \in Sides, price \in Nat, quantity \in Quantities, tif \in Tifs :
    Registers(side, price, quantity, tif)

AsksCancel == \E id \in DOMAIN orders : MayChange(orders, id) /\ RequestCancel(id)

AsksReplace ==
  \E id \in DOMAIN orders, price \in Nat :
    nextId <= MaxId /\ MayChange(orders, id) /\ RequestReplace(id, price)

Others == <<strategy, traderVars, connected, toExchange, toTrader, exchangeVars>>

Asks ==
  /\ sending = << >> /\ UNCHANGED Others
  /\ AsksNothing \/ AsksNew \/ AsksCancel \/ AsksReplace

LEMMA Submitted ==
  ASSUME NEW side \in Sides, NEW price \in Nat, NEW quantity \in Quantities,
         NEW tif \in Tifs, nextId <= MaxId, Submit(side, price, quantity, tif)
  PROVE  AsksNothing \/ Registers(side, price, quantity, tif)
  BY DEF Submit, AsksNothing, Registers, omsVars

LEMMA SettledIsLive ==
  ASSUME Typed, NEW id \in DOMAIN orders, ~IsTerminal(orders[id].state),
         Settled(orders[id])
  PROVE  MayChange(orders, id)
<1>1. orders[id] \in ClientOrders
  BY DEF Typed, OmsTyped
<1> QED
  BY <1>1 DEF ClientOrders, OrderStates, IsTerminal, Settled, MayChange, IsLive

\* One quote is left alone, dropped, opened, withdrawn or moved.
Forgets(side) == AsksNothing /\ quote' = [quote EXCEPT ![side] = 0]

Opens(side, price) ==
  /\ Registers(side, price, QuoteSize, "GTC")
  /\ quote' = [quote EXCEPT ![side] = nextId]

Cancels(id) == MayChange(orders, id) /\ RequestCancel(id) /\ UNCHANGED quote

Moves(side, price) ==
  /\ nextId <= MaxId /\ MayChange(orders, quote[side])
  /\ RequestReplace(quote[side], price)
  /\ quote' = [quote EXCEPT ![side] = nextId]

Tracked(id) == id \in DOMAIN orders /\ ~IsTerminal(orders[id].state)

LEMMA UpdateQuoteKinds ==
  ASSUME Typed, UpdateQuote
  PROVE  /\ sending = << >> /\ UNCHANGED Others /\ ~stopped /\ UNCHANGED stopped
         /\ \E side \in Sides, want \in Nat :
              \/ ~Tracked(quote[side]) /\ Forgets(side)
              \/ ~Tracked(quote[side]) /\ Opens(side, want)
              \/ Cancels(quote[side])
              \/ Tracked(quote[side]) /\ Moves(side, want)
              \/ AsksNothing /\ UNCHANGED quote
<1>1. PICK side \in Sides, want \in Nat : side = Head(todo).side /\ want = Head(todo).price
  <2>1. Head(todo) \in [side : Sides, price : Nat]
    BY Beheaded DEF UpdateQuote, Typed, StrategyTyped
  <2> QED BY <2>1 DEF Typed, StrategyTyped
<1>2. /\ sending = << >> /\ UNCHANGED Others /\ nextId <= MaxId
      /\ ~stopped /\ UNCHANGED stopped
  BY DEF UpdateQuote, Others, traderVars, exchangeVars
<1>3. PICK id : id = quote[side]
  OBVIOUS
<1>4. nextId \in Nat
  <2>1. MaxId \in Nat
    BY MaxIdIs DEF Typed, StrategyTyped
  <2> QED BY <2>1 DEF Typed, OmsTyped
<1>5. CASE /\ ~Tracked(id) /\ quote' = [quote EXCEPT ![side] = 0]
           /\ UNCHANGED <<omsVars, sending>>
  BY <1>2, <1>3, <1>5 DEF Forgets, AsksNothing, omsVars
<1>6. CASE /\ ~Tracked(id) /\ Submit(side, want, QuoteSize, "GTC")
           /\ quote' = [quote EXCEPT ![side] = IF nextId' = nextId THEN 0 ELSE nextId]
  <2>1. "GTC" \in Tifs
    BY DEF Tifs
  <2>2. AsksNothing \/ Registers(side, want, QuoteSize, "GTC")
    BY <1>2, <1>6, <2>1, QuantitiesAre, Submitted
  <2>3. CASE AsksNothing
    BY <1>2, <1>3, <1>6, <2>3 DEF Forgets, AsksNothing
  <2>4. CASE Registers(side, want, QuoteSize, "GTC")
    <3>1. nextId' # nextId
      BY <1>4, <2>4 DEF Registers
    <3> QED BY <1>2, <1>3, <1>6, <2>4, <3>1 DEF Opens
  <2> QED BY <2>2, <2>3, <2>4
<1>7. CASE /\ Tracked(id) /\ Settled(orders[id]) /\ RequestCancel(id) /\ UNCHANGED quote
  BY <1>2, <1>3, <1>7, SettledIsLive DEF Cancels, Tracked
<1>8. CASE /\ Tracked(id) /\ Settled(orders[id]) /\ RequestReplace(id, want)
           /\ quote' = [quote EXCEPT ![side] = nextId]
  BY <1>2, <1>3, <1>8, SettledIsLive DEF Moves, Tracked
<1>9. CASE UNCHANGED <<omsVars, sending, quote>>
  BY <1>2, <1>9 DEF AsksNothing, omsVars
<1> QED
  BY <1>1, <1>3, <1>5, <1>6, <1>7, <1>8, <1>9 DEF UpdateQuote, Tracked

LEMMA UpdateQuoteAsks ==
  ASSUME Typed, UpdateQuote
  PROVE  Asks
<1>1. sending = << >> /\ UNCHANGED Others
  BY UpdateQuoteKinds
<1>2. PICK side \in Sides, want \in Nat :
        \/ Forgets(side) \/ Opens(side, want) \/ Cancels(quote[side]) \/ Moves(side, want)
        \/ AsksNothing
  BY UpdateQuoteKinds
<1>3. CASE Opens(side, want)
  BY <1>1, <1>3, QuantitiesAre DEF Opens, Asks, AsksNew, Tifs
<1>4. CASE Cancels(quote[side])
  BY <1>1, <1>4 DEF Cancels, MayChange, Asks, AsksCancel
<1>5. CASE Moves(side, want)
  BY <1>1, <1>5 DEF Moves, MayChange, Asks, AsksReplace
<1> QED
  BY <1>1, <1>2, <1>3, <1>4, <1>5 DEF Forgets, Asks

LEMMA WithdrawAsks ==
  ASSUME Typed, Withdraw
  PROVE  Asks
<1>1. sending = << >> /\ UNCHANGED Others
  BY DEF Withdraw, Others, traderVars, exchangeVars
<1> DEFINE id == quote[Head(todo).side]
<1>2. CASE MayChange(orders, id)
  <2>1. id \in DOMAIN orders
    BY <1>2 DEF MayChange
  <2> QED BY <1>1, <1>2, <2>1 DEF Withdraw, Asks, AsksCancel
<1>3. CASE ~MayChange(orders, id)
  BY <1>1, <1>3 DEF Withdraw, Asks, AsksNothing, omsVars
<1> QED
  BY <1>2, <1>3

LEMMA MomentumAsks ==
  ASSUME Typed, MomentumOrder
  PROVE  Asks
<1>1. sending = << >> /\ UNCHANGED Others /\ nextId <= MaxId
  BY DEF MomentumOrder, Others, traderVars, exchangeVars, strategyVars
<1>2. PICK side \in Sides, r \in References :
        LET room == IF side = "Buy" THEN MaxPosition - pnl.position
                                    ELSE MaxPosition + pnl.position
        IN  /\ room > 0
            /\ Submit(side, Desired(Contra(side), r), Min({QuoteSize, room}), "IOC")
  BY DEF MomentumOrder
<1> DEFINE room == IF side = "Buy" THEN MaxPosition - pnl.position
                                   ELSE MaxPosition + pnl.position
           size == Min({QuoteSize, room})
           price == Desired(Contra(side), r)
<1>3. room \in Int /\ room > 0
  BY <1>2, SessionAssumption DEF Typed, BooksTyped
<1>4. size \in Quantities
  <2>1. QuoteSize \in Int /\ QuoteSize > 0
    BY QuantitiesAre
  <2>2. size \in {QuoteSize, room} /\ size <= QuoteSize /\ size <= room
    BY <1>3, <2>1, MinOfTwo
  <2> QED BY <1>3, <2>1, <2>2 DEF Quantities
<1>5. price \in Nat
  BY DesiredPrice
<1>6. "IOC" \in Tifs
  BY DEF Tifs
<1>7. AsksNothing \/ Registers(side, price, size, "IOC")
  <2>1. Submit(side, price, size, "IOC")
    BY <1>2
  <2> HIDE DEF price, size
  <2> QED BY <1>1, <1>4, <1>5, <1>6, <2>1, Submitted
<1> QED
  <2> HIDE DEF price, size
  <2> QED BY <1>1, <1>4, <1>5, <1>6, <1>7 DEF Asks, AsksNew
-----------------------------------------------------------------------------
(***************************************************************************)
(* What the exchange does with one request.                                *)
(***************************************************************************)
Refuses(m) == Rejected(m) /\ UNCHANGED <<working, incoming>>

Admits(m) ==
  /\ m.type = "NewOrder" /\ ExchangeRiskAccepts(m.side, m.price, m.quantity, 0)
  /\ incoming' = <<[id |-> m.id, side |-> m.side, price |-> m.price,
                    remaining |-> m.quantity, time_in_force |-> m.time_in_force]>>
  /\ Report(<<[type |-> "Accepted", id |-> m.id, quantity |-> m.quantity]>>)
  /\ UNCHANGED working

Removes(m) ==
  /\ m.type = "CancelOrder" /\ m.id \in DOMAIN working
  /\ working' = Drop(working, m.id)
  /\ Report(<<[type |-> "Cancelled", id |-> m.id]>>)
  /\ UNCHANGED incoming

Exchanges(m) ==
  /\ m.type = "ReplaceOrder" /\ m.id \in DOMAIN working
  /\ ExchangeRiskAccepts(working[m.id].side, m.price, m.quantity, m.id)
  /\ Report(<<[type |-> "Replaced", id |-> m.id, new_id |-> m.new_id,
               price |-> m.price, quantity |-> m.quantity]>>)

Amends(m) ==
  /\ Exchanges(m)
  /\ working' = Put(Drop(working, m.id), m.new_id,
                    [working[m.id] EXCEPT !.price = m.price, !.remaining = m.quantity])
  /\ UNCHANGED incoming

Requeues(m) ==
  /\ Exchanges(m)
  /\ working' = Drop(working, m.id)
  /\ incoming' = <<[id |-> m.new_id, side |-> working[m.id].side, price |-> m.price,
                    remaining |-> m.quantity, time_in_force |-> "GTC"]>>

Handles(m) ==
  /\ m \in Requests /\ m \in Range(toExchange)
  /\ toExchange # << >> /\ m = Head(toExchange) /\ toExchange' = Tail(toExchange)
  /\ incoming = << >>
  /\ UNCHANGED <<strategyVars, omsVars, sending, traderVars, connected, xaccount>>

LEMMA ProcessKinds ==
  ASSUME Typed, ProcessRequest
  PROVE  \E m \in Requests :
           /\ Handles(m)
           /\ Refuses(m) \/ Admits(m) \/ Removes(m) \/ Amends(m) \/ Requeues(m)
<1> DEFINE m == Head(toExchange)
<1>1. m \in Requests /\ m \in Range(toExchange)
  BY Beheaded DEF ProcessRequest, Typed, WireTyped
<1>2. Handles(m)
  BY <1>1 DEF ProcessRequest, Handles
<1>3. CASE ProcessNewOrder(m)
  BY <1>1, <1>2, <1>3 DEF ProcessNewOrder, Refuses, Admits
<1>4. CASE ProcessCancel(m)
  BY <1>1, <1>2, <1>4 DEF ProcessCancel, Refuses, Removes
<1>5. CASE ProcessReplace(m)
  <2>1. CASE m.id \in DOMAIN working
             /\ ExchangeRiskAccepts(working[m.id].side, m.price, m.quantity, m.id)
    <3>1. Exchanges(m)
      BY <1>5, <2>1 DEF ProcessReplace, Exchanges
    <3>2. Amends(m) \/ Requeues(m)
      BY <1>5, <2>1, <3>1 DEF ProcessReplace, Amends, Requeues
    <3> QED BY <1>1, <1>2, <3>2
  <2>2. CASE ~(m.id \in DOMAIN working
               /\ ExchangeRiskAccepts(working[m.id].side, m.price, m.quantity, m.id))
    BY <1>1, <1>2, <1>5, <2>2 DEF ProcessReplace, Refuses
  <2> QED BY <2>1, <2>2
<1>6. ProcessNewOrder(m) \/ ProcessCancel(m) \/ ProcessReplace(m)
  BY DEF ProcessRequest
<1> QED
  BY <1>1, <1>2, <1>3, <1>4, <1>5, <1>6

LEMMA Reported ==
  ASSUME Typed, NEW r \in Seq(Messages), Report(r)
  PROVE  /\ toTrader' \in Seq(Messages)
         /\ Range(toTrader') \subseteq Range(toTrader) \cup Range(r)
         /\ Range(toTrader) \subseteq Range(toTrader')
         /\ connected => toTrader' = toTrader \o r
                         /\ Range(toTrader') = Range(toTrader) \cup Range(r)
<1>1. toTrader \in Seq(Messages)
  BY DEF Typed, WireTyped
<1> QED
  BY <1>1, Joined DEF Report

LEMMA ReportedOne ==
  ASSUME Typed, NEW m \in Messages, Report(<<m>>)
  PROVE  /\ toTrader' \in Seq(Messages)
         /\ Range(toTrader') \subseteq Range(toTrader) \cup {m}
         /\ Range(toTrader) \subseteq Range(toTrader')
         /\ connected => toTrader' = toTrader \o <<m>>
                         /\ Range(toTrader') = Range(toTrader) \cup {m}
<1>1. <<m>> \in Seq(Messages) /\ Range(<<m>>) = {m}
  BY Alone
<1> QED
  BY <1>1, Reported

\* A resting order of which n is taken.
Taken(id, n) ==
  IF working[id].remaining = n THEN Drop(working, id)
  ELSE [working EXCEPT ![id].remaining = @ - n]

LEMMA TakenIs ==
  ASSUME Typed, NEW id \in DOMAIN working, NEW n \in 1..working[id].remaining,
         NEW w, w = Taken(id, n)
  PROVE  /\ w \in [DOMAIN w -> Resting] /\ DOMAIN w \subseteq DOMAIN working
         /\ DOMAIN working \ {id} \subseteq DOMAIN w
         /\ \A x \in DOMAIN w : w[x].side = working[x].side /\ w[x].price = working[x].price
         /\ \A x \in DOMAIN w : x # id => w[x] = working[x]
         /\ id \in DOMAIN w => w[id].remaining = working[id].remaining - n
         /\ id \in DOMAIN w <=> n # working[id].remaining
<1>1. working \in [DOMAIN working -> Resting] /\ working[id] \in Resting
  BY DEF Typed, ExchangeTyped
<1>2. CASE working[id].remaining = n
  <2>1. w = Drop(working, id)
    BY <1>2 DEF Taken
  <2>2. /\ w \in [DOMAIN working \ {id} -> Resting]
        /\ DOMAIN w = DOMAIN working \ {id}
        /\ \A y \in DOMAIN working \ {id} : w[y] = working[y]
    BY <1>1, <2>1 DEF Drop
  <2> QED BY <1>2, <2>2
<1>3. CASE working[id].remaining # n
  <2>1. working[id].remaining \in Nat \ {0}
    BY <1>1 DEF Resting
  <2>2. working[id].remaining - n \in Nat \ {0}
    BY <1>3, <2>1
  <2>3. w = [working EXCEPT ![id].remaining = @ - n]
    BY <1>3 DEF Taken
  <2>4. DOMAIN w = DOMAIN working /\ w[id] \in Resting
    BY <1>1, <2>2, <2>3 DEF Resting
  <2> QED BY <1>1, <1>3, <2>2, <2>3, <2>4 DEF Resting
<1> QED
  BY <1>2, <1>3
-----------------------------------------------------------------------------
(***************************************************************************)
(* Typed is inductive.                                                     *)
(***************************************************************************)
LEMMA ApplyFillTyped ==
  ASSUME NEW a \in [cash : Int, holdings : Nat], NEW fill,
         fill.price \in Nat, fill.quantity \in Nat
  PROVE  ApplyFill(a, fill) \in [cash : Int, holdings : Nat]
<1>1. \A x \in Int : x % QuantityModulus \in Nat
  BY TraderAssumption
<1>2. PICK q \in Nat : q = fill.quantity
  OBVIOUS
<1>3. PICK p \in Nat : p = fill.price
  OBVIOUS
<1>4. q * p \in Int
  OBVIOUS
<1>5. a.cash \in Int /\ a.holdings \in Nat
  OBVIOUS
<1>6. /\ a.cash - q * p \in Int /\ a.cash + q * p \in Int
      /\ (a.holdings + q) % QuantityModulus \in Nat
      /\ (a.holdings - q) % QuantityModulus \in Nat
  BY <1>1, <1>4, <1>5
<1> QED
  BY <1>2, <1>3, <1>6 DEF ApplyFill

LEMMA QuotientTyped ==
  ASSUME NEW n \in Int, NEW d \in Nat \ {0}
  PROVE  Quotient(n, d) \in Int
  BY DEF Quotient

LEMMA ApplyPnlTyped ==
  ASSUME NEW q \in [position : Int, open_notional : Int, realized : Int],
         NEW fill \in Fills
  PROVE  ApplyPnl(q, fill) \in [position : Int, open_notional : Int, realized : Int]
<1> DEFINE delta    == IF fill.side = "Buy" THEN fill.quantity ELSE -fill.quantity
           sign     == IF q.position < 0 THEN -1 ELSE 1
           closed   == Min({Magnitude(q.position), fill.quantity})
           basis    == Quotient(q.open_notional * closed, Magnitude(q.position))
           flipped  == delta + sign * closed
           position == q.position - sign * closed + flipped
<1>1. /\ q.position \in Int /\ q.open_notional \in Int /\ q.realized \in Int
      /\ fill.quantity \in Nat /\ fill.price \in Nat
  BY DEF Fills
<1>2. delta \in Int /\ sign \in Int
  BY <1>1
<1>3. CASE q.position = 0 \/ (q.position > 0) = (delta > 0)
  <2>1. ApplyPnl(q, fill) = [q EXCEPT !.position = @ + delta,
                                      !.open_notional = @ + delta * fill.price]
    BY <1>3 DEF ApplyPnl
  <2>2. q.position + delta \in Int
    BY <1>1, <1>2
  <2>3. q.open_notional + delta * fill.price \in Int
    BY <1>1, <1>2
  <2> HIDE DEF delta
  <2> QED BY <1>1, <2>1, <2>2, <2>3
<1>4. CASE ~(q.position = 0 \/ (q.position > 0) = (delta > 0))
  <2>1. Magnitude(q.position) \in Nat \ {0}
    BY <1>1, <1>4 DEF Magnitude
  <2>2. closed \in Int
    <3>1. PICK a \in Int, b \in Int : a = Magnitude(q.position) /\ b = fill.quantity
      BY <1>1, <2>1
    <3>2. Min({a, b}) \in {a, b}
      BY MinOfTwo
    <3> QED BY <3>1, <3>2
  <2>3. basis \in Int
    <3> HIDE DEF closed
    <3>1. q.open_notional * closed \in Int
      BY <1>1, <2>2
    <3> QED BY <2>1, <3>1, QuotientTyped
  <2>4. ApplyPnl(q, fill) =
          [position      |-> position,
           open_notional |-> IF position = 0 THEN 0
                             ELSE q.open_notional - basis + flipped * fill.price,
           realized      |-> q.realized + sign * closed * fill.price - basis]
    BY <1>4 DEF ApplyPnl
  <2> HIDE DEF delta, sign, closed, basis
  <2>5. sign * closed \in Int
    BY <1>2, <2>2
  <2>6. flipped \in Int /\ position \in Int
    BY <1>1, <1>2, <2>5
  <2>7. flipped * fill.price \in Int /\ (sign * closed) * fill.price \in Int
    <3> HIDE DEF flipped
    <3> QED BY <1>1, <2>5, <2>6
  <2> HIDE DEF flipped, position
  <2> QED BY <1>1, <2>3, <2>4, <2>6, <2>7
<1> QED
  BY <1>3, <1>4

LEMMA TypedInit == Init => Typed
<1> SUFFICES ASSUME Init PROVE Typed
  OBVIOUS
<1>1. MaxId \in Nat
  BY MaxIdIs DEF Init
<1>2. StrategyTyped
  <2>1. << >> \in Seq([side : Sides, price : Nat])
    BY Emptied
  <2>2. quote \in [Sides -> Nat]
    BY DEF Init
  <2> QED BY <2>1, <2>2 DEF Init, StrategyTyped
<1>3. OmsTyped
  BY <1>1 DEF Init, OmsTyped
<1>4. WireTyped
  BY DEF Init, WireTyped
<1>5. BooksTyped
  BY SessionAssumption DEF Init, BooksTyped, Deposits, NoPnl
<1>6. ExchangeTyped
  BY SessionAssumption DEF Init, ExchangeTyped, Deposits
<1> QED
  BY <1>2, <1>3, <1>4, <1>5, <1>6 DEF Typed

LEMMA AsksTyped ==
  ASSUME Typed, Asks
  PROVE  OmsTyped' /\ WireTyped' /\ BooksTyped' /\ ExchangeTyped'
<1>1. WireTyped' <=> sending' \in Seq(Requests) /\ Len(sending') <= 1
  BY DEF Typed, Asks, Others, WireTyped
<1>2. BooksTyped' /\ ExchangeTyped' /\ MaxId' = MaxId
  BY DEF Typed, Asks, Others, BooksTyped, ExchangeTyped, traderVars, exchangeVars, MaxId
<1>3. /\ MaxId \in Nat /\ nextId \in 1..(MaxId + 1) /\ DOMAIN orders \subseteq 1..(nextId - 1)
      /\ orders \in [DOMAIN orders -> ClientOrders]
  BY MaxIdIs DEF Typed, StrategyTyped, OmsTyped
<1>4. CASE AsksNothing
  BY <1>1, <1>2, <1>4 DEF AsksNothing, Typed, OmsTyped, WireTyped
<1>5. CASE AsksNew
  <2>1. PICK side \in Sides, price \in Nat, quantity \in Quantities, tif \in Tifs :
          Registers(side, price, quantity, tif)
    BY <1>5 DEF AsksNew
  <2>2. quantity \in Nat
    BY QuantitiesAre
  <2>3. ClientOrder(side, price, quantity, tif) \in ClientOrders
    BY <2>2, NewClientOrder
  <2>4. /\ orders' \in [DOMAIN orders \cup {nextId} -> ClientOrders]
        /\ DOMAIN orders' = DOMAIN orders \cup {nextId}
    BY <1>3, <2>1, <2>3 DEF Registers, Put
  <2>5. OmsTyped'
    BY <1>2, <1>3, <2>1, <2>4 DEF Registers, OmsTyped
  <2>6. NewOrder(side, price, quantity, tif) \in Requests
    BY <1>3 DEF NewOrder, Requests
  <2>7. sending' \in Seq(Requests) /\ Len(sending') = 1
    BY <2>1, <2>6, Alone DEF Registers
  <2> QED BY <1>1, <1>2, <2>5, <2>7
<1>6. CASE AsksCancel
  <2>1. PICK id \in DOMAIN orders : RequestCancel(id)
    BY <1>6 DEF AsksCancel
  <2>2. /\ orders' \in [DOMAIN orders -> ClientOrders] /\ DOMAIN orders' = DOMAIN orders
        /\ nextId' = nextId
    BY <1>3, <2>1 DEF RequestCancel, ClientOrders, PendingActions
  <2>3. [type |-> "CancelOrder", id |-> id] \in Requests
    BY <1>3 DEF Requests
  <2>4. sending' \in Seq(Requests) /\ Len(sending') = 1
    BY <2>1, <2>3, Alone DEF RequestCancel
  <2> QED BY <1>1, <1>2, <1>3, <2>2, <2>4 DEF OmsTyped
<1>7. CASE AsksReplace
  <2>1. PICK id \in DOMAIN orders, price \in Nat : nextId <= MaxId /\ RequestReplace(id, price)
    BY <1>7 DEF AsksReplace
  <2> DEFINE old == [orders EXCEPT ![id].pending = "Replace"]
             new == ClientOrder(orders[id].side, price, QuoteSize, orders[id].time_in_force)
  <2>2. old \in [DOMAIN orders -> ClientOrders] /\ DOMAIN old = DOMAIN orders
    BY <1>3 DEF ClientOrders, PendingActions
  <2>3. new \in ClientOrders
    <3>1. orders[id].side \in Sides /\ orders[id].time_in_force \in Tifs
      BY <1>3 DEF ClientOrders
    <3> QED BY <3>1, QuantitiesAre, NewClientOrder
  <2>4. orders' = Put(old, nextId, new) /\ nextId' = nextId + 1
    BY <2>1 DEF RequestReplace, RegisterReplace
  <2>5. /\ orders' \in [DOMAIN orders \cup {nextId} -> ClientOrders]
        /\ DOMAIN orders' = DOMAIN orders \cup {nextId}
    <3> HIDE DEF old, new
    <3> QED BY <2>2, <2>3, <2>4 DEF Put
  <2>6. OmsTyped'
    <3> HIDE DEF old, new
    <3> QED BY <1>2, <1>3, <2>1, <2>4, <2>5 DEF OmsTyped
  <2>7. [type |-> "ReplaceOrder", id |-> id, new_id |-> nextId,
         price |-> price, quantity |-> QuoteSize] \in Requests
    BY <1>3, QuantitiesAre DEF Requests
  <2>8. sending' \in Seq(Requests) /\ Len(sending') = 1
    BY <2>1, <2>7, Alone DEF RequestReplace
  <2> QED BY <1>1, <1>2, <2>6, <2>8
<1> QED
  BY <1>4, <1>5, <1>6, <1>7 DEF Asks

LEMMA WantTyped ==
  ASSUME NEW side \in Sides, NEW n \in Nat
  PROVE  [side |-> side, price |-> n] \in [side : Sides, price : Nat]
  OBVIOUS

LEMMA PlansTyped ==
  ASSUME NEW r \in References
  PROVE  /\ LadderPlan(r) \in Seq([side : Sides, price : Nat])
         /\ MarketMakerPlan(r) \in Seq([side : Sides, price : Nat])
<1> DEFINE W == [side : Sides, price : Nat]
<1>1. "Buy" \in Sides /\ "Sell" \in Sides
  BY DEF Sides
<1>2. Desired("Buy", r) \in Nat /\ Desired("Sell", r) \in Nat /\ Nothing \in Nat
  BY <1>1, DesiredPrice DEF Nothing
<1>3. \A x, y \in W : <<x, y>> \in Seq(W)
  OBVIOUS
<1>4. LadderPlan(r) \in Seq(W)
  <2> DEFINE want(side) ==
        [side |-> side,
         price |-> IF (IF side = "Buy" THEN pnl.position >= MaxPosition
                                       ELSE pnl.position <= -MaxPosition)
                   THEN Nothing ELSE Desired(side, r)]
  <2>1. want("Buy") \in W /\ want("Sell") \in W
    BY <1>1, <1>2
  <2>2. LadderPlan(r) = IF r >= reference THEN <<want("Sell"), want("Buy")>>
                                          ELSE <<want("Buy"), want("Sell")>>
    BY DEF LadderPlan
  <2> HIDE DEF want, W
  <2> QED BY <1>3, <2>1, <2>2
<1>5. MarketMakerPlan(r) \in Seq(W)
  <2> DEFINE bid == [side |-> "Buy",
                     price |-> IF account.holdings >= MaxHoldings THEN Nothing
                               ELSE Desired("Buy", r)]
             ask == [side |-> "Sell", price |-> Desired("Sell", r)]
  <2>1. bid \in W /\ ask \in W
    BY <1>1, <1>2
  <2>2. MarketMakerPlan(r) \in {<<ask, bid>>, <<bid, ask>>}
    BY DEF MarketMakerPlan
  <2> HIDE DEF bid, ask, W
  <2> QED BY <1>3, <2>1, <2>2
<1> QED
  BY <1>4, <1>5

LEMMA StrategyThreadTyped ==
  ASSUME Typed,
         BeginCycle \/ UpdateQuote \/ BeginWithdraw \/ Withdraw \/ MomentumOrder
  PROVE  Typed' /\ Asks
<1> DEFINE W == [side : Sides, price : Nat]
<1>0. todo \in Seq(W) /\ quote \in [Sides -> Nat] /\ nextId \in Nat
  <2>1. MaxId \in Nat
    BY MaxIdIs DEF Typed, StrategyTyped
  <2> QED BY <2>1 DEF Typed, StrategyTyped, OmsTyped
<1>1. CASE BeginCycle
  <2>1. PICK r \in References : todo' \in {LadderPlan(r), MarketMakerPlan(r)}
    BY <1>1 DEF BeginCycle
  <2>2. todo' \in Seq(W)
    BY <2>1, PlansTyped
  <2>3. StrategyTyped'
    BY <1>1, <2>2 DEF BeginCycle, Typed, StrategyTyped
  <2>4. Asks
    BY <1>1 DEF BeginCycle, Asks, AsksNothing, Others, omsVars, traderVars, exchangeVars
  <2> QED BY <2>3, <2>4, AsksTyped DEF Typed
<1>2. CASE UpdateQuote
  <2>1. Head(todo) \in W /\ Tail(todo) \in Seq(W)
    BY <1>0, <1>2, Beheaded DEF UpdateQuote
  <2>2. quote' \in [Sides -> Nat]
    <3>1. PICK side \in Sides, want \in Nat :
            \/ Forgets(side) \/ Opens(side, want) \/ Cancels(quote[side])
            \/ Moves(side, want) \/ UNCHANGED quote
      BY <1>2, UpdateQuoteKinds
    <3>2. \/ quote' = quote \/ quote' = [quote EXCEPT ![side] = 0]
          \/ quote' = [quote EXCEPT ![side] = nextId]
      BY <3>1 DEF Forgets, Opens, Cancels, Moves
    <3> QED BY <1>0, <3>2
  <2>3. StrategyTyped'
    BY <1>2, <2>1, <2>2 DEF UpdateQuote, Typed, StrategyTyped
  <2> QED BY <1>2, <2>3, UpdateQuoteAsks, AsksTyped DEF Typed
<1>3. CASE BeginWithdraw
  <2>1. "Buy" \in Sides /\ "Sell" \in Sides /\ Nothing \in Nat
    BY DEF Sides, Nothing
  <2>2. \A x, y \in W : <<x, y>> \in Seq(W)
    OBVIOUS
  <2>3. todo' \in Seq(W)
    BY <1>3, <2>1, <2>2 DEF BeginWithdraw
  <2>4. StrategyTyped'
    BY <1>3, <2>3 DEF BeginWithdraw, Typed, StrategyTyped
  <2>5. Asks
    BY <1>3 DEF BeginWithdraw, Asks, AsksNothing, Others, omsVars, traderVars, exchangeVars
  <2> QED BY <2>4, <2>5, AsksTyped DEF Typed
<1>4. CASE Withdraw
  <2>1. Head(todo) \in W /\ Tail(todo) \in Seq(W)
    BY <1>0, <1>4, Beheaded DEF Withdraw
  <2>2. quote' \in [Sides -> Nat]
    BY <1>0, <1>4, <2>1 DEF Withdraw
  <2>3. StrategyTyped'
    BY <1>4, <2>1, <2>2 DEF Withdraw, Typed, StrategyTyped
  <2> QED BY <1>4, <2>3, WithdrawAsks, AsksTyped DEF Typed
<1>5. CASE MomentumOrder
  <2>1. StrategyTyped'
    BY <1>5 DEF MomentumOrder, Typed, StrategyTyped, strategyVars
  <2> QED BY <1>5, <2>1, MomentumAsks, AsksTyped DEF Typed
<1> QED
  BY <1>1, <1>2, <1>3, <1>4, <1>5

\* What a request m that could not be sent leaves of the orders o.
Undone(o, m, h) ==
  /\ h \in [DOMAIN h -> ClientOrders]
  /\ DOMAIN h = IF m.type = "ReplaceOrder" THEN DOMAIN o \ {m.new_id} ELSE DOMAIN o
  /\ \A x \in DOMAIN h :
       /\ h[x].side = o[x].side /\ h[x].price = o[x].price
       /\ h[x].time_in_force = o[x].time_in_force
       /\ h[x].pending \in {o[x].pending, "None"}
       /\ x # m.id => h[x] = o[x]
       /\ m.type # "NewOrder" => h[x].state = o[x].state
       /\ x = m.id /\ m.type = "NewOrder" => h[x].state = "Rejected"

LEMMA SendFailedIs ==
  ASSUME NEW o, o \in [DOMAIN o -> ClientOrders], NEW m \in Requests,
         NEW h, h = SendFailed(o, m)
  PROVE  Undone(o, m, h)
<1> USE DEF Undone
<1> USE DEF ClientOrders, OrderStates, PendingActions
<1>1. CASE m.type = "NewOrder"
  <2>1. h = [o EXCEPT ![m.id].state = "Rejected"]
    BY <1>1 DEF SendFailed
  <2>2. DOMAIN h = DOMAIN o /\ \A x \in DOMAIN o : x # m.id => h[x] = o[x]
    BY <2>1
  <2>3. m.id \in DOMAIN o => h[m.id] = [o[m.id] EXCEPT !.state = "Rejected"]
    BY <2>1
  <2>4. m.id \in DOMAIN o =>
          /\ h[m.id] \in ClientOrders /\ h[m.id].side = o[m.id].side
          /\ h[m.id].price = o[m.id].price
          /\ h[m.id].time_in_force = o[m.id].time_in_force
          /\ h[m.id].state = "Rejected" /\ h[m.id].pending = o[m.id].pending
    BY <2>3
  <2>5. h \in [DOMAIN h -> ClientOrders]
    BY <2>1, <2>2, <2>4
  <2> HIDE DEF ClientOrders
  <2> QED BY <1>1, <2>2, <2>4, <2>5
<1>2. CASE m.type = "CancelOrder"
  <2>1. h = [o EXCEPT ![m.id].pending = "None"]
    BY <1>2 DEF SendFailed
  <2>2. DOMAIN h = DOMAIN o /\ \A x \in DOMAIN o : x # m.id => h[x] = o[x]
    BY <2>1
  <2>3. m.id \in DOMAIN o => h[m.id] = [o[m.id] EXCEPT !.pending = "None"]
    BY <2>1
  <2>4. m.id \in DOMAIN o =>
          /\ h[m.id] \in ClientOrders /\ h[m.id].side = o[m.id].side
          /\ h[m.id].price = o[m.id].price
          /\ h[m.id].time_in_force = o[m.id].time_in_force
          /\ h[m.id].pending = "None" /\ h[m.id].state = o[m.id].state
    BY <2>3
  <2>5. h \in [DOMAIN h -> ClientOrders]
    BY <2>1, <2>2, <2>4
  <2> HIDE DEF ClientOrders
  <2> QED BY <1>2, <2>2, <2>4, <2>5
<1>3. CASE m.type = "ReplaceOrder"
  <2>1. h = [Drop(o, m.new_id) EXCEPT ![m.id].pending = "None"]
    BY <1>3 DEF SendFailed
  <2>2. PICK d : d = Drop(o, m.new_id)
    OBVIOUS
  <2>3. /\ d \in [DOMAIN d -> ClientOrders] /\ DOMAIN d = DOMAIN o \ {m.new_id}
        /\ \A x \in DOMAIN d : d[x] = o[x]
    BY <2>2 DEF Drop
  <2>4. h = [d EXCEPT ![m.id].pending = "None"]
    BY <2>1, <2>2
  <2>5. DOMAIN h = DOMAIN d
    BY <2>4
  <2>6. \A x \in DOMAIN d : x # m.id => h[x] = d[x]
    BY <2>3, <2>4
  <2>7. m.id \in DOMAIN d => h[m.id] = [d[m.id] EXCEPT !.pending = "None"]
    BY <2>3, <2>4
  <2>8. m.id \in DOMAIN d =>
          /\ h[m.id] \in ClientOrders /\ h[m.id].side = d[m.id].side
          /\ h[m.id].price = d[m.id].price
          /\ h[m.id].time_in_force = d[m.id].time_in_force
          /\ h[m.id].pending = "None" /\ h[m.id].state = d[m.id].state
    BY <2>3, <2>7
  <2>9. h \in [DOMAIN h -> ClientOrders]
    BY <2>3, <2>4, <2>5, <2>6, <2>8
  <2> HIDE DEF ClientOrders
  <2> QED BY <1>3, <2>3, <2>5, <2>6, <2>8, <2>9
<1> QED
  BY <1>1, <1>2, <1>3, RequestForm

Sends == connected /\ toExchange' = toExchange \o sending /\ UNCHANGED <<orders, quote>>

FailsToSend(m) ==
  /\ ~connected /\ orders' = SendFailed(orders, m) /\ UNCHANGED toExchange
  /\ quote' = [side \in Sides |-> IF m.type = "ReplaceOrder" /\ quote[side] = m.new_id
                                  THEN m.id ELSE quote[side]]

LEMMA SendKinds ==
  ASSUME Typed, Send
  PROVE  \E m \in Requests :
           /\ sending = <<m>> /\ Range(sending) = {m}
           /\ sending' = << >> /\ Range(sending') = {}
           /\ UNCHANGED <<strategy, reference, todo, stopped, nextId, traderVars,
                          connected, toTrader, exchangeVars>>
           /\ Sends \/ FailsToSend(m)
<1>1. PICK m \in Requests : m = sending[1] /\ sending = <<m>> /\ Range(sending) = {m}
  BY Single DEF Send, Typed, WireTyped
<1>2. sending' = << >> /\ Range(sending') = {}
  BY Emptied DEF Send
<1> QED
  BY <1>1, <1>2 DEF Send, Sends, FailsToSend

LEMMA SendTyped ==
  ASSUME Typed, Send
  PROVE  Typed'
<1>1. PICK m \in Requests :
        /\ sending = <<m>> /\ sending' = << >>
        /\ UNCHANGED <<strategy, reference, todo, stopped, nextId, traderVars,
                       connected, toTrader, exchangeVars>>
        /\ Sends \/ FailsToSend(m)
  BY SendKinds
<1>2. ExchangeTyped' /\ BooksTyped' /\ MaxId' = MaxId
  BY <1>1 DEF Typed, ExchangeTyped, BooksTyped, exchangeVars, traderVars, MaxId
<1>3. sending' \in Seq(Requests) /\ Len(sending') <= 1
  BY <1>1, Emptied
<1>4. CASE Sends
  <2>1. toExchange' \in Seq(Requests)
    BY <1>4, Joined DEF Sends, Typed, WireTyped
  <2> QED BY <1>1, <1>2, <1>3, <1>4, <2>1 DEF Sends, Typed, StrategyTyped, OmsTyped, WireTyped
<1>5. CASE FailsToSend(m)
  <2>1. orders' \in [DOMAIN orders' -> ClientOrders] /\ DOMAIN orders' \subseteq DOMAIN orders
    <3>1. PICK h : h = SendFailed(orders, m)
      OBVIOUS
    <3>2. orders \in [DOMAIN orders -> ClientOrders]
      BY DEF Typed, OmsTyped
    <3>3. Undone(orders, m, h)
      BY <3>1, <3>2, SendFailedIs
    <3>4. h \in [DOMAIN h -> ClientOrders] /\ DOMAIN h \subseteq DOMAIN orders
      BY <3>3 DEF Undone
    <3> QED BY <1>5, <3>1, <3>4 DEF FailsToSend
  <2>2. quote' \in [Sides -> Nat]
    BY <1>5, RequestForm DEF FailsToSend, Typed, StrategyTyped
  <2>3. OmsTyped'
    BY <1>1, <1>2, <2>1 DEF Typed, OmsTyped
  <2>4. StrategyTyped'
    BY <1>1, <2>2 DEF Typed, StrategyTyped
  <2>5. WireTyped'
    BY <1>1, <1>3, <1>5 DEF FailsToSend, Typed, WireTyped
  <2> QED BY <1>2, <2>3, <2>4, <2>5 DEF Typed
<1> QED
  BY <1>1, <1>4, <1>5

LEMMA ReadKinds ==
  ASSUME Typed, ReadMessage
  PROVE  \E m \in Messages :
           /\ toTrader # << >> /\ m = Head(toTrader) /\ toTrader' = Tail(toTrader)
           /\ toTrader' \in Seq(Messages) /\ Range(toTrader) = {m} \cup Range(toTrader')
           /\ DOMAIN orders' = DOMAIN orders
           /\ \A x \in DOMAIN orders : orders'[x] = AfterMessage(orders[x], x, m)
           /\ orders' \in [DOMAIN orders' -> ClientOrders]
           /\ settling = << >> /\ settling' = FillsOf(orders, m)
           /\ settling' \in Seq(Fills) /\ Len(settling') <= 1
           /\ observing = << >>
           /\ UNCHANGED <<strategyVars, nextId, sending, account, pnl, observing, connected,
                          toExchange, exchangeVars>>
<1>1. PICK m \in Messages :
        /\ toTrader # << >> /\ m = Head(toTrader) /\ toTrader' = Tail(toTrader)
        /\ toTrader' \in Seq(Messages) /\ Range(toTrader) = {m} \cup Range(toTrader')
  BY Beheaded DEF ReadMessage, Typed, WireTyped
<1>2. orders \in [DOMAIN orders -> ClientOrders]
  BY DEF Typed, OmsTyped
<1>3. orders' = [x \in DOMAIN orders |-> AfterMessage(orders[x], x, m)]
  BY <1>1, <1>2, HandledOne DEF ReadMessage
<1>4. \A x \in DOMAIN orders : AfterMessage(orders[x], x, m) \in ClientOrders
  BY <1>2, AfterMessageIs
<1>5. settling' = FillsOf(orders, m) /\ settling = << >>
  BY <1>1 DEF ReadMessage
<1>6. settling' \in Seq(Fills) /\ Len(settling') <= 1
  <2>1. CASE m.type = "TradeReport" /\ m.id \in DOMAIN orders
    <3> DEFINE f == [side |-> orders[m.id].side, price |-> m.price, quantity |-> m.quantity]
    <3>1. f \in Fills
      BY <1>2, <2>1, MessageForm DEF Fills, ClientOrders
    <3>2. settling' = <<f>>
      BY <1>5, <2>1 DEF FillsOf
    <3> QED BY <3>1, <3>2, Alone
  <2>2. CASE ~(m.type = "TradeReport" /\ m.id \in DOMAIN orders)
    BY <1>5, <2>2, Emptied DEF FillsOf
  <2> QED BY <2>1, <2>2
<1> QED
  BY <1>1, <1>3, <1>4, <1>5, <1>6 DEF ReadMessage

LEMMA ReaderTyped ==
  ASSUME Typed, ReadMessage \/ SettlePosition \/ SettlePnl
  PROVE  Typed'
<1>1. CASE ReadMessage
  <2>1. PICK m \in Messages :
           /\ toTrader' \in Seq(Messages)
           /\ DOMAIN orders' = DOMAIN orders
           /\ orders' \in [DOMAIN orders' -> ClientOrders]
           /\ settling' \in Seq(Fills) /\ Len(settling') <= 1
           /\ observing = << >>
           /\ UNCHANGED <<strategyVars, nextId, sending, account, pnl, observing, connected,
                          toExchange, exchangeVars>>
    BY <1>1, ReadKinds
  <2> QED BY <2>1 DEF Typed, StrategyTyped, OmsTyped, WireTyped, BooksTyped, ExchangeTyped,
                       strategyVars, exchangeVars, MaxId
<1>2. CASE SettlePosition
  <2>1. settling[1] \in Fills
    BY <1>2, Single DEF SettlePosition, Typed, BooksTyped
  <2>2. account' \in [cash : Int, holdings : Nat]
    BY <1>2, <2>1, ApplyFillTyped DEF SettlePosition, Typed, BooksTyped, Fills
  <2>3. settling' \in Seq(Fills) /\ Len(settling') <= 1 /\ settling' = << >>
    BY <1>2, Emptied DEF SettlePosition
  <2>4. BooksTyped'
    BY <1>2, <2>2, <2>3 DEF SettlePosition, Typed, BooksTyped
  <2> QED BY <1>2, <2>4 DEF SettlePosition, Typed, StrategyTyped, OmsTyped, WireTyped,
                       ExchangeTyped, strategyVars, omsVars, exchangeVars, MaxId
<1>3. CASE SettlePnl
  <2>1. observing[1] \in Fills
    BY <1>3, Single DEF SettlePnl, Typed, BooksTyped
  <2>2. pnl' \in [position : Int, open_notional : Int, realized : Int]
    BY <1>3, <2>1, ApplyPnlTyped DEF SettlePnl, Typed, BooksTyped
  <2>3. observing' \in Seq(Fills) /\ Len(observing') <= 1 /\ observing' = << >>
    BY <1>3, Emptied DEF SettlePnl
  <2>4. BooksTyped'
    BY <1>3, <2>2, <2>3 DEF SettlePnl, Typed, BooksTyped
  <2> QED BY <1>3, <2>4 DEF SettlePnl, Typed, StrategyTyped, OmsTyped, WireTyped,
                       ExchangeTyped, strategyVars, omsVars, exchangeVars, MaxId
<1> QED
  BY <1>1, <1>2, <1>3

LEMMA FailedSend ==
  ASSUME Typed, NEW m \in Requests, FailsToSend(m)
  PROVE  Undone(orders, m, orders')
<1>1. PICK h : h = SendFailed(orders, m)
  OBVIOUS
<1>2. orders \in [DOMAIN orders -> ClientOrders]
  BY DEF Typed, OmsTyped
<1>3. Undone(orders, m, h)
  BY <1>1, <1>2, SendFailedIs
<1> QED
  BY <1>1, <1>3 DEF FailsToSend

\* The messages the exchange sends.
LEMMA MessagesTyped ==
  ASSUME NEW id \in Nat, NEW new \in Nat, NEW price \in Nat, NEW quantity \in Quantities,
         NEW n \in Nat \ {0}, NEW left \in Nat
  PROVE  /\ [type |-> "Accepted", id |-> id, quantity |-> quantity] \in Messages
         /\ [type |-> "Rejected", id |-> id] \in Messages
         /\ [type |-> "Cancelled", id |-> id] \in Messages
         /\ [type |-> "Replaced", id |-> id, new_id |-> new, price |-> price,
             quantity |-> quantity] \in Messages
         /\ TradeReport(id, price, n, left) \in Messages
  BY DEF Messages, TradeReport

\* Everything but the exchange and the two queues stays.
TraderStays ==
  UNCHANGED <<strategyVars, omsVars, sending, traderVars, connected>>

LEMMA TraderStaysTyped ==
  ASSUME Typed, TraderStays, ExchangeTyped', toExchange' \in Seq(Requests),
         toTrader' \in Seq(Messages)
  PROVE  Typed'
<1>1. StrategyTyped' /\ OmsTyped' /\ BooksTyped'
  BY DEF Typed, TraderStays, StrategyTyped, OmsTyped, BooksTyped, strategyVars, omsVars,
         traderVars, MaxId
<1>2. WireTyped'
  BY DEF Typed, TraderStays, WireTyped
<1> QED
  BY <1>1, <1>2 DEF Typed

LEMMA HandledRequest ==
  ASSUME Typed, NEW m \in Requests, Handles(m)
  PROVE  /\ TraderStays /\ UNCHANGED xaccount
         /\ toExchange' \in Seq(Requests) /\ Range(toExchange) = {m} \cup Range(toExchange')
         /\ Range(incoming) = {}
<1>1. toExchange \in Seq(Requests)
  BY DEF Typed, WireTyped
<1>2. Tail(toExchange) \in Seq(Requests)
      /\ Range(toExchange) = {Head(toExchange)} \cup Range(Tail(toExchange))
  BY <1>1, Beheaded DEF Handles
<1> QED
  BY <1>2, Emptied DEF Handles, TraderStays

LEMMA RefusesIs ==
  ASSUME Typed, NEW m \in Requests, Handles(m), Refuses(m)
  PROVE  /\ Report(<<[type |-> "Rejected", id |-> m.id]>>)
         /\ [type |-> "Rejected", id |-> m.id] \in Messages
         /\ UNCHANGED <<working, incoming>>
<1>1. m.id \in Nat
  BY RequestForm
<1> QED
  BY <1>1 DEF Refuses, Rejected, Messages

LEMMA AdmitsIs ==
  ASSUME Typed, NEW m \in Requests, Handles(m), Admits(m)
  PROVE  /\ Report(<<[type |-> "Accepted", id |-> m.id, quantity |-> m.quantity]>>)
         /\ [type |-> "Accepted", id |-> m.id, quantity |-> m.quantity] \in Messages
         /\ UNCHANGED working /\ m.type = "NewOrder"
         /\ \E o \in Arrivals :
              /\ incoming' = <<o>> /\ Range(incoming') = {o}
              /\ o.id = m.id /\ o.side = m.side /\ o.price = m.price
              /\ o.remaining = m.quantity /\ o.time_in_force = m.time_in_force
<1> DEFINE o == [id |-> m.id, side |-> m.side, price |-> m.price,
                 remaining |-> m.quantity, time_in_force |-> m.time_in_force]
<1>1. m.type = "NewOrder"
  BY DEF Admits
<1>2. /\ m.id \in Nat /\ m.side \in Sides /\ m.price \in Nat
      /\ m.quantity \in Quantities /\ m.quantity \in Nat /\ m.time_in_force \in Tifs
  BY <1>1, RequestForm, QuantitiesAre
<1>3. o \in Arrivals
  BY <1>2 DEF Arrivals
<1>4. incoming' = <<o>> /\ Range(incoming') = {o}
  BY <1>3, Alone DEF Admits
<1>5. [type |-> "Accepted", id |-> m.id, quantity |-> m.quantity] \in Messages
  BY <1>2 DEF Messages
<1> QED
  BY <1>1, <1>3, <1>4, <1>5 DEF Admits

LEMMA RemovesIs ==
  ASSUME Typed, NEW m \in Requests, Handles(m), Removes(m)
  PROVE  /\ Report(<<[type |-> "Cancelled", id |-> m.id]>>)
         /\ [type |-> "Cancelled", id |-> m.id] \in Messages
         /\ m.type = "CancelOrder" /\ m.id \in DOMAIN working
         /\ UNCHANGED incoming
         /\ DOMAIN working' = DOMAIN working \ {m.id}
         /\ working' \in [DOMAIN working' -> Resting]
         /\ \A x \in DOMAIN working' : working'[x] = working[x]
<1>1. m.id \in Nat
  BY RequestForm
<1>2. [type |-> "Cancelled", id |-> m.id] \in Messages
  BY <1>1 DEF Messages
<1>3. /\ DOMAIN working' = DOMAIN working \ {m.id}
      /\ working' \in [DOMAIN working' -> Resting]
      /\ \A x \in DOMAIN working' : working'[x] = working[x]
  BY DEF Removes, Drop, Typed, ExchangeTyped
<1> QED
  BY <1>2, <1>3 DEF Removes

LEMMA ExchangesIs ==
  ASSUME Typed, NEW m \in Requests, Handles(m), Exchanges(m)
  PROVE  /\ Report(<<[type |-> "Replaced", id |-> m.id, new_id |-> m.new_id,
                      price |-> m.price, quantity |-> m.quantity]>>)
         /\ [type |-> "Replaced", id |-> m.id, new_id |-> m.new_id,
             price |-> m.price, quantity |-> m.quantity] \in Messages
         /\ m.type = "ReplaceOrder" /\ m.id \in DOMAIN working
         /\ working[m.id] \in Resting /\ m.new_id \in Nat /\ m.price \in Nat
         /\ m.quantity \in Quantities /\ m.quantity \in Nat \ {0}
<1>1. m.type = "ReplaceOrder" /\ m.id \in DOMAIN working
  BY DEF Exchanges
<1>2. /\ m.id \in Nat /\ m.new_id \in Nat /\ m.price \in Nat /\ m.quantity \in Quantities
      /\ m.quantity \in Nat \ {0}
  BY <1>1, RequestForm, QuantitiesAre
<1>3. [type |-> "Replaced", id |-> m.id, new_id |-> m.new_id,
       price |-> m.price, quantity |-> m.quantity] \in Messages
  BY <1>2 DEF Messages
<1> QED
  BY <1>1, <1>2, <1>3 DEF Exchanges, Typed, ExchangeTyped

LEMMA AmendsIs ==
  ASSUME Typed, NEW m \in Requests, Handles(m), Amends(m)
  PROVE  /\ UNCHANGED incoming
         /\ DOMAIN working' = (DOMAIN working \ {m.id}) \cup {m.new_id}
         /\ working' \in [DOMAIN working' -> Resting]
         /\ \A x \in DOMAIN working' : x # m.new_id => working'[x] = working[x]
         /\ working'[m.new_id].side = working[m.id].side
         /\ working'[m.new_id].price = m.price
         /\ working'[m.new_id].remaining = m.quantity
<1>1. /\ working[m.id] \in Resting /\ m.new_id \in Nat /\ m.price \in Nat
      /\ m.quantity \in Nat \ {0} /\ m.id \in DOMAIN working
  BY ExchangesIs DEF Amends
<1>2. PICK old \in Resting, p \in Nat, n \in Nat \ {0} :
        old = working[m.id] /\ p = m.price /\ n = m.quantity
  BY <1>1
<1>3. PICK new : new = [old EXCEPT !.price = p, !.remaining = n]
  OBVIOUS
<1>4. new \in Resting /\ new.side = old.side /\ new.price = p /\ new.remaining = n
  BY <1>3 DEF Resting
<1>5. PICK d : d = Drop(working, m.id)
  OBVIOUS
<1>6. /\ DOMAIN d = DOMAIN working \ {m.id} /\ d \in [DOMAIN d -> Resting]
      /\ \A x \in DOMAIN d : d[x] = working[x]
  BY <1>5 DEF Drop, Typed, ExchangeTyped
<1>7. working' = Put(d, m.new_id, new) /\ UNCHANGED incoming
  BY <1>2, <1>3, <1>5 DEF Amends
<1>8. /\ DOMAIN working' = DOMAIN d \cup {m.new_id}
      /\ working' \in [DOMAIN working' -> Resting]
      /\ \A x \in DOMAIN working' : x # m.new_id => working'[x] = d[x]
      /\ working'[m.new_id] = new
  BY <1>4, <1>6, <1>7 DEF Put
<1> QED
  BY <1>2, <1>4, <1>6, <1>7, <1>8

LEMMA RequeuesIs ==
  ASSUME Typed, NEW m \in Requests, Handles(m), Requeues(m)
  PROVE  /\ DOMAIN working' = DOMAIN working \ {m.id}
         /\ working' \in [DOMAIN working' -> Resting]
         /\ \A x \in DOMAIN working' : working'[x] = working[x]
         /\ \E o \in Arrivals :
              /\ incoming' = <<o>> /\ Range(incoming') = {o}
              /\ o.id = m.new_id /\ o.side = working[m.id].side /\ o.price = m.price
              /\ o.remaining = m.quantity /\ o.time_in_force = "GTC"
<1> DEFINE o == [id |-> m.new_id, side |-> working[m.id].side, price |-> m.price,
                 remaining |-> m.quantity, time_in_force |-> "GTC"]
<1>1. /\ working[m.id] \in Resting /\ m.new_id \in Nat /\ m.price \in Nat
      /\ m.quantity \in Nat
  BY ExchangesIs DEF Requeues
<1>2. o \in Arrivals
  BY <1>1 DEF Arrivals, Resting, Tifs
<1>3. incoming' = <<o>> /\ Range(incoming') = {o}
  BY <1>2, Alone DEF Requeues
<1>4. /\ DOMAIN working' = DOMAIN working \ {m.id}
      /\ working' \in [DOMAIN working' -> Resting]
      /\ \A x \in DOMAIN working' : working'[x] = working[x]
  BY DEF Requeues, Drop, Typed, ExchangeTyped
<1> QED
  BY <1>2, <1>3, <1>4

Sold(id, n) ==
  ApplyFill(xaccount, [side |-> working[id].side, price |-> working[id].price,
                       quantity |-> n])

LEMMA OthersTradeIs ==
  ASSUME Typed, OthersTrade
  PROVE  /\ TraderStays /\ UNCHANGED <<toExchange, incoming>> /\ incoming = << >>
         /\ \E id \in DOMAIN working, n \in Nat \ {0} :
              /\ n \in 1..working[id].remaining
              /\ working' = Taken(id, n)
              /\ xaccount' = Sold(id, n)
              /\ working[id] \in Resting /\ id \in Nat
              /\ working[id].remaining - n \in Nat
              /\ TradeReport(id, working[id].price, n, working[id].remaining - n) \in Messages
              /\ Report(<<TradeReport(id, working[id].price, n, working[id].remaining - n)>>)
<1>1. TraderStays /\ UNCHANGED <<toExchange, incoming>> /\ incoming = << >>
  BY DEF OthersTrade, TraderStays
<1>2. PICK id \in DOMAIN working : \E n \in 1..working[id].remaining :
        LET order == working[id]
            left  == order.remaining - n
        IN  /\ working' = IF left = 0 THEN Drop(working, id)
                          ELSE [working EXCEPT ![id].remaining = left]
            /\ xaccount' = ApplyFill(xaccount, [side |-> order.side,
                                      price |-> order.price, quantity |-> n])
            /\ Report(<<TradeReport(id, order.price, n, left)>>)
  BY DEF OthersTrade
<1>3. PICK n \in 1..working[id].remaining :
        LET order == working[id]
            left  == order.remaining - n
        IN  /\ working' = IF left = 0 THEN Drop(working, id)
                          ELSE [working EXCEPT ![id].remaining = left]
            /\ xaccount' = ApplyFill(xaccount, [side |-> order.side,
                                      price |-> order.price, quantity |-> n])
            /\ Report(<<TradeReport(id, order.price, n, left)>>)
  BY <1>2
<1>4. working[id] \in Resting /\ id \in Nat /\ working \in [DOMAIN working -> Resting]
  BY DEF Typed, ExchangeTyped
<1>5. working[id].remaining \in Nat \ {0} /\ n \in Nat \ {0} /\ working[id].price \in Nat
  BY <1>4 DEF Resting
<1>6. /\ working[id].remaining - n \in Nat
      /\ working[id].remaining - n = 0 <=> working[id].remaining = n
  BY <1>5
<1>7. TradeReport(id, working[id].price, n, working[id].remaining - n) \in Messages
  BY <1>4, <1>5, <1>6 DEF TradeReport, Messages
<1>8. working' = Taken(id, n)
  BY <1>3, <1>4, <1>6 DEF Taken
<1>9. xaccount' = Sold(id, n)
  BY <1>3 DEF Sold
<1>10. Report(<<TradeReport(id, working[id].price, n, working[id].remaining - n)>>)
  BY <1>3
<1> QED
  BY <1>1, <1>4, <1>5, <1>6, <1>7, <1>8, <1>9, <1>10

\* The arriving order o after n of it traded.
Shrinks(o, n) ==
  /\ incoming' = <<[o EXCEPT !.remaining = @ - n]>>
  /\ \E x \in Arrivals :
       /\ incoming' = <<x>> /\ Range(incoming') = {x}
       /\ x.id = o.id /\ x.side = o.side /\ x.price = o.price
       /\ x.time_in_force = o.time_in_force /\ x.remaining = o.remaining - n

LEMMA Shrunk ==
  ASSUME NEW o \in Arrivals, NEW n \in 1..o.remaining,
         incoming' = <<[o EXCEPT !.remaining = @ - n]>>
  PROVE  Shrinks(o, n) /\ o.remaining - n \in Nat /\ n \in Nat \ {0}
<1>1. o.remaining - n \in Nat /\ n \in Nat \ {0}
  BY DEF Arrivals
<1>2. PICK x : x = [o EXCEPT !.remaining = @ - n]
  OBVIOUS
<1>3. /\ x \in Arrivals /\ x.id = o.id /\ x.side = o.side /\ x.price = o.price
      /\ x.time_in_force = o.time_in_force /\ x.remaining = o.remaining - n
  BY <1>1, <1>2 DEF Arrivals
<1>4. incoming' = <<x>> /\ Range(incoming') = {x}
  BY <1>2, <1>3, Alone
<1> QED
  BY <1>1, <1>3, <1>4 DEF Shrinks

LEMMA IncomingIs ==
  ASSUME Typed, incoming # << >>
  PROVE  \E o \in Arrivals :
           incoming = <<o>> /\ Range(incoming) = {o} /\ o = incoming[1]
  BY Single DEF Typed, ExchangeTyped

LEMMA MatchOthersIs ==
  ASSUME Typed, MatchOthers
  PROVE  /\ TraderStays /\ UNCHANGED <<toExchange, working>>
         /\ \E o \in Arrivals, p \in Nat, n \in Nat \ {0} :
              /\ incoming = <<o>> /\ Range(incoming) = {o} /\ Shrinks(o, n)
              /\ n \in 1..o.remaining
              /\ xaccount' = ApplyFill(xaccount, [side |-> o.side, price |-> p,
                                                  quantity |-> n])
              /\ o.remaining - n \in Nat
              /\ TradeReport(o.id, p, n, o.remaining - n) \in Messages
              /\ Report(<<TradeReport(o.id, p, n, o.remaining - n)>>)
<1>1. TraderStays /\ UNCHANGED <<toExchange, working>>
  BY DEF MatchOthers, TraderStays
<1>2. PICK o \in Arrivals : incoming = <<o>> /\ Range(incoming) = {o} /\ o = incoming[1]
  BY IncomingIs DEF MatchOthers
<1>3. PICK p \in Prices, n \in 1..o.remaining :
        /\ incoming' = <<[o EXCEPT !.remaining = @ - n]>>
        /\ xaccount' = ApplyFill(xaccount, [side |-> o.side, price |-> p, quantity |-> n])
        /\ Report(<<TradeReport(o.id, p, n, o.remaining - n)>>)
  BY <1>2 DEF MatchOthers
<1>4. Shrinks(o, n) /\ o.remaining - n \in Nat /\ n \in Nat \ {0}
  BY <1>3, Shrunk
<1>5. p \in Nat
  BY PricesAre
<1>6. TradeReport(o.id, p, n, o.remaining - n) \in Messages
  BY <1>4, <1>5 DEF TradeReport, Messages, Arrivals
<1> QED
  BY <1>1, <1>2, <1>3, <1>4, <1>5, <1>6

\* Both legs of a trade with an order of our own are reported, the buyer's first.
BothLegs(o, id, n) ==
  \E a \in Messages, b \in Messages :
    /\ Report(<<a, b>>)
    /\ {a, b} = {TradeReport(o.id, working[id].price, n, o.remaining - n),
                 TradeReport(id, working[id].price, n, working[id].remaining - n)}
    /\ a.id = IF o.side = "Buy" THEN o.id ELSE id
    /\ b.id = IF o.side = "Buy" THEN id ELSE o.id

LEMMA MatchOwnIs ==
  ASSUME Typed, MatchOwn
  PROVE  /\ TraderStays /\ UNCHANGED <<toExchange, xaccount>>
         /\ \E o \in Arrivals, id \in DOMAIN working, n \in Nat \ {0} :
              /\ incoming = <<o>> /\ Range(incoming) = {o} /\ Shrinks(o, n)
              /\ n \in 1..o.remaining /\ n \in 1..working[id].remaining
              /\ o.remaining - n \in Nat
              /\ working[id] \in Resting /\ id \in Nat /\ working[id].remaining - n \in Nat
              /\ working[id].side = Contra(o.side)
              /\ working' = Taken(id, n)
              /\ BothLegs(o, id, n)
<1>1. TraderStays /\ UNCHANGED <<toExchange, xaccount>>
  BY DEF MatchOwn, TraderStays
<1>2. PICK id \in OwnCrossing :
       LET order  == incoming[1]
           rest   == working[id]
           n      == Min({order.remaining, rest.remaining})
           mine   == TradeReport(order.id, rest.price, n, order.remaining - n)
           theirs == TradeReport(id, rest.price, n, rest.remaining - n)
       IN  /\ incoming' = <<[order EXCEPT !.remaining = @ - n]>>
           /\ working' = IF n = rest.remaining THEN Drop(working, id)
                         ELSE [working EXCEPT ![id].remaining = @ - n]
           /\ Report(IF order.side = "Buy" THEN <<mine, theirs>> ELSE <<theirs, mine>>)
  BY DEF MatchOwn
<1>3. PICK o \in Arrivals : incoming = <<o>> /\ Range(incoming) = {o} /\ o = incoming[1]
  BY IncomingIs DEF OwnCrossing
<1>4. /\ id \in DOMAIN working /\ o.remaining > 0
      /\ working[id].side = Contra(o.side)
  BY <1>3 DEF OwnCrossing
<1>5. /\ working[id] \in Resting /\ id \in Nat /\ working[id].remaining \in Nat \ {0}
      /\ o.remaining \in Nat \ {0} /\ working[id].price \in Nat /\ o.id \in Nat
  BY <1>4 DEF Typed, ExchangeTyped, Resting, Arrivals
<1>6. PICK n : n = Min({o.remaining, working[id].remaining})
  OBVIOUS
<1>7. /\ n \in 1..o.remaining /\ n \in 1..working[id].remaining /\ n \in Nat \ {0}
      /\ o.remaining - n \in Nat /\ working[id].remaining - n \in Nat
  <2>1. PICK a \in Nat \ {0}, b \in Nat \ {0} : a = o.remaining /\ b = working[id].remaining
    BY <1>5
  <2>2. n = Min({a, b})
    BY <1>6, <2>1
  <2>3. n \in {a, b} /\ n <= a /\ n <= b
    BY <2>2, MinOfTwo
  <2> QED BY <2>1, <2>3
<1>8. /\ TradeReport(o.id, working[id].price, n, o.remaining - n) \in Messages
      /\ TradeReport(id, working[id].price, n, working[id].remaining - n) \in Messages
  BY <1>5, <1>7 DEF TradeReport, Messages
<1>9. Shrinks(o, n)
  BY <1>2, <1>3, <1>6, <1>7, Shrunk
<1>10. working' = Taken(id, n)
  BY <1>2, <1>3, <1>6 DEF Taken
<1>11. PICK mine \in Messages, theirs \in Messages :
         /\ mine = TradeReport(o.id, working[id].price, n, o.remaining - n)
         /\ theirs = TradeReport(id, working[id].price, n, working[id].remaining - n)
  BY <1>8
<1>12. Report(IF o.side = "Buy" THEN <<mine, theirs>> ELSE <<theirs, mine>>)
  BY <1>2, <1>3, <1>6, <1>11
<1>13. mine.id = o.id /\ theirs.id = id
  BY <1>11 DEF TradeReport
<1>14. BothLegs(o, id, n)
  BY <1>11, <1>12, <1>13 DEF BothLegs
<1> QED
  BY <1>1, <1>3, <1>4, <1>5, <1>7, <1>8, <1>9, <1>10, <1>14

LEMMA FinishIs ==
  ASSUME Typed, FinishRequest
  PROVE  /\ TraderStays /\ UNCHANGED <<toExchange, toTrader, xaccount>>
         /\ incoming' = << >> /\ Range(incoming') = {}
         /\ working' \in [DOMAIN working' -> Resting]
         /\ \E o \in Arrivals :
              /\ incoming = <<o>> /\ Range(incoming) = {o}
              /\ \/ /\ ~(o.remaining > 0 /\ o.time_in_force = "GTC")
                    /\ working' = working
                 \/ /\ o.remaining > 0 /\ o.time_in_force = "GTC"
                    /\ DOMAIN working' = DOMAIN working \cup {o.id}
                    /\ \A x \in DOMAIN working : x # o.id => working'[x] = working[x]
                    /\ working'[o.id].side = o.side /\ working'[o.id].price = o.price
                    /\ working'[o.id].remaining = o.remaining
                    /\ working' = Put(working, o.id, working'[o.id])
<1>1. TraderStays /\ UNCHANGED <<toExchange, toTrader, xaccount>>
  BY DEF FinishRequest, TraderStays
<1>2. incoming' = << >> /\ Range(incoming') = {}
  BY Emptied DEF FinishRequest
<1>3. PICK o \in Arrivals : incoming = <<o>> /\ Range(incoming) = {o} /\ o = incoming[1]
  BY IncomingIs DEF FinishRequest
<1>4. working \in [DOMAIN working -> Resting]
  BY DEF Typed, ExchangeTyped
<1>5. CASE ~(o.remaining > 0 /\ o.time_in_force = "GTC")
  <2>1. working' = working
    BY <1>3, <1>5 DEF FinishRequest
  <2> QED BY <1>1, <1>2, <1>3, <1>4, <1>5, <2>1
<1>6. CASE o.remaining > 0 /\ o.time_in_force = "GTC"
  <2>1. PICK r : r = [side |-> o.side, price |-> o.price, remaining |-> o.remaining]
    OBVIOUS
  <2>2. r \in Resting /\ r.side = o.side /\ r.price = o.price /\ r.remaining = o.remaining
    BY <1>6, <2>1 DEF Arrivals, Resting
  <2>3. working' = Put(working, o.id, r)
    BY <1>3, <1>6, <2>1 DEF FinishRequest
  <2>4. /\ DOMAIN working' = DOMAIN working \cup {o.id} /\ working'[o.id] = r
        /\ \A x \in DOMAIN working : x # o.id => working'[x] = working[x]
        /\ working' \in [DOMAIN working' -> Resting]
    BY <1>4, <2>2, <2>3 DEF Put
  <2> QED BY <1>1, <1>2, <1>3, <1>6, <2>2, <2>3, <2>4
<1> QED
  BY <1>5, <1>6

LEMMA ProcessTyped ==
  ASSUME Typed, ProcessRequest
  PROVE  Typed'
<1>1. PICK m \in Requests :
        /\ Handles(m)
        /\ Refuses(m) \/ Admits(m) \/ Removes(m) \/ Amends(m) \/ Requeues(m)
  BY ProcessKinds
<1>2. TraderStays /\ UNCHANGED xaccount /\ toExchange' \in Seq(Requests)
  BY <1>1, HandledRequest
<1>3. ExchangeTyped <=>
        /\ working \in [DOMAIN working -> Resting] /\ DOMAIN working \subseteq Nat
        /\ incoming \in Seq(Arrivals) /\ Len(incoming) <= 1
        /\ xaccount \in [cash : Int, holdings : Nat]
  BY DEF ExchangeTyped
<1>4. xaccount' \in [cash : Int, holdings : Nat]
  BY <1>2, <1>3 DEF Typed
<1>5. CASE Refuses(m)
  <2>1. toTrader' \in Seq(Messages) /\ UNCHANGED <<working, incoming>>
    BY <1>1, <1>5, RefusesIs, ReportedOne
  <2>2. ExchangeTyped'
    BY <1>2, <2>1 DEF Typed, ExchangeTyped
  <2> QED BY <1>2, <2>1, <2>2, TraderStaysTyped
<1>6. CASE Admits(m)
  <2>1. toTrader' \in Seq(Messages)
    BY <1>1, <1>6, AdmitsIs, ReportedOne
  <2>2. PICK o \in Arrivals : incoming' = <<o>> /\ UNCHANGED working
    BY <1>1, <1>6, AdmitsIs
  <2>3. incoming' \in Seq(Arrivals) /\ Len(incoming') <= 1
    BY <2>2, Alone
  <2>4. ExchangeTyped'
    BY <1>4, <2>2, <2>3 DEF Typed, ExchangeTyped
  <2> QED BY <1>2, <2>1, <2>4, TraderStaysTyped
<1>7. CASE Removes(m)
  <2>1. toTrader' \in Seq(Messages)
    BY <1>1, <1>7, RemovesIs, ReportedOne
  <2>2. ExchangeTyped'
    BY <1>1, <1>4, <1>7, RemovesIs DEF Typed, ExchangeTyped
  <2> QED BY <1>2, <2>1, <2>2, TraderStaysTyped
<1>8. CASE Amends(m)
  <2>0. Exchanges(m)
    BY <1>8 DEF Amends
  <2>1. toTrader' \in Seq(Messages)
    BY <1>1, <2>0, ExchangesIs, ReportedOne
  <2>2. m.new_id \in Nat
    BY <1>1, <2>0, ExchangesIs
  <2>3. ExchangeTyped'
    BY <1>1, <1>4, <1>8, <2>2, AmendsIs DEF Typed, ExchangeTyped
  <2> QED BY <1>2, <2>1, <2>3, TraderStaysTyped
<1>9. CASE Requeues(m)
  <2>0. Exchanges(m)
    BY <1>9 DEF Requeues
  <2>1. toTrader' \in Seq(Messages)
    BY <1>1, <2>0, ExchangesIs, ReportedOne
  <2>2. PICK o \in Arrivals : incoming' = <<o>>
    BY <1>1, <1>9, RequeuesIs
  <2>3. incoming' \in Seq(Arrivals) /\ Len(incoming') <= 1
    BY <2>2, Alone
  <2>4. ExchangeTyped'
    BY <1>1, <1>4, <1>9, <2>3, RequeuesIs DEF Typed, ExchangeTyped
  <2> QED BY <1>2, <2>1, <2>4, TraderStaysTyped
<1> QED
  BY <1>1, <1>5, <1>6, <1>7, <1>8, <1>9

LEMMA Pair ==
  ASSUME NEW S, NEW x \in S, NEW y \in S
  PROVE  /\ <<x, y>> \in Seq(S) /\ Len(<<x, y>>) = 2
         /\ <<x, y>>[1] = x /\ <<x, y>>[2] = y /\ DOMAIN <<x, y>> = {1, 2}
         /\ Range(<<x, y>>) = {x, y}
<1>1. /\ <<x, y>> \in Seq(S) /\ Len(<<x, y>>) = 2
      /\ <<x, y>>[1] = x /\ <<x, y>>[2] = y
  OBVIOUS
<1>2. DOMAIN <<x, y>> = {1, 2}
  OBVIOUS
<1>3. PICK s : s = <<x, y>>
  OBVIOUS
<1> QED
  BY <1>1, <1>2, <1>3 DEF Range

LEMMA TradesTyped ==
  ASSUME Typed, OthersTrade \/ MatchOthers \/ MatchOwn \/ FinishRequest
  PROVE  Typed'
<1>0. /\ working \in [DOMAIN working -> Resting] /\ DOMAIN working \subseteq Nat
      /\ incoming \in Seq(Arrivals) /\ Len(incoming) <= 1
      /\ xaccount \in [cash : Int, holdings : Nat]
      /\ toExchange \in Seq(Requests) /\ toTrader \in Seq(Messages)
  BY DEF Typed, ExchangeTyped, WireTyped
<1>1. CASE OthersTrade
  <2>1. TraderStays /\ UNCHANGED <<toExchange, incoming>>
    BY <1>1, OthersTradeIs
  <2>3. PICK id \in DOMAIN working, n \in Nat \ {0} :
          /\ n \in 1..working[id].remaining
          /\ working' = Taken(id, n)
          /\ xaccount' = Sold(id, n)
          /\ working[id] \in Resting
          /\ TradeReport(id, working[id].price, n, working[id].remaining - n) \in Messages
          /\ Report(<<TradeReport(id, working[id].price, n, working[id].remaining - n)>>)
    BY <1>1, OthersTradeIs
  <2>4. toTrader' \in Seq(Messages)
    BY <2>3, ReportedOne
  <2>5. xaccount' \in [cash : Int, holdings : Nat]
    BY <1>0, <2>3, ApplyFillTyped DEF Sold, Resting
  <2>6. /\ working' \in [DOMAIN working' -> Resting]
        /\ DOMAIN working' \subseteq DOMAIN working
    BY <2>3, TakenIs
  <2>7. ExchangeTyped'
    BY <1>0, <2>1, <2>5, <2>6 DEF ExchangeTyped
  <2> QED BY <1>0, <2>1, <2>4, <2>7, TraderStaysTyped
<1>2. CASE MatchOthers
  <2>1. TraderStays /\ UNCHANGED <<toExchange, working>>
    BY <1>2, MatchOthersIs
  <2>3. PICK o \in Arrivals, p \in Nat, n \in Nat \ {0} :
              /\ Shrinks(o, n)
              /\ xaccount' = ApplyFill(xaccount, [side |-> o.side, price |-> p,
                                                  quantity |-> n])
              /\ TradeReport(o.id, p, n, o.remaining - n) \in Messages
              /\ Report(<<TradeReport(o.id, p, n, o.remaining - n)>>)
    BY <1>2, MatchOthersIs
  <2>4. toTrader' \in Seq(Messages)
    BY <2>3, ReportedOne
  <2>5. xaccount' \in [cash : Int, holdings : Nat]
    BY <1>0, <2>3, ApplyFillTyped
  <2>6. incoming' \in Seq(Arrivals) /\ Len(incoming') <= 1
    BY <2>3, Alone DEF Shrinks
  <2>7. ExchangeTyped'
    BY <1>0, <2>1, <2>5, <2>6 DEF ExchangeTyped
  <2> QED BY <1>0, <2>1, <2>4, <2>7, TraderStaysTyped
<1>3. CASE MatchOwn
  <2>1. TraderStays /\ UNCHANGED <<toExchange, xaccount>>
    BY <1>3, MatchOwnIs
  <2>2. PICK o \in Arrivals, id \in DOMAIN working, n \in Nat \ {0} :
          /\ Shrinks(o, n) /\ n \in 1..working[id].remaining
          /\ working' = Taken(id, n) /\ BothLegs(o, id, n)
    BY <1>3, MatchOwnIs
  <2>3. toTrader' \in Seq(Messages)
    BY <2>2, Pair, Reported DEF BothLegs
  <2>4. incoming' \in Seq(Arrivals) /\ Len(incoming') <= 1
    BY <2>2, Alone DEF Shrinks
  <2>5. /\ working' \in [DOMAIN working' -> Resting]
        /\ DOMAIN working' \subseteq DOMAIN working
    BY <2>2, TakenIs
  <2>6. ExchangeTyped'
    BY <1>0, <2>1, <2>4, <2>5 DEF ExchangeTyped
  <2> QED BY <1>0, <2>1, <2>3, <2>6, TraderStaysTyped
<1>4. CASE FinishRequest
  <2>1. /\ TraderStays /\ UNCHANGED <<toExchange, toTrader, xaccount>>
        /\ incoming' = << >> /\ working' \in [DOMAIN working' -> Resting]
    BY <1>4, FinishIs
  <2>2. DOMAIN working' \subseteq Nat
    <3>1. PICK o \in Arrivals : \/ working' = working
                                \/ DOMAIN working' = DOMAIN working \cup {o.id}
      BY <1>4, FinishIs
    <3> QED BY <1>0, <3>1 DEF Arrivals
  <2>3. ExchangeTyped'
    BY <1>0, <2>1, <2>2, Emptied DEF ExchangeTyped
  <2> QED BY <1>0, <2>1, <2>3, TraderStaysTyped
<1> QED
  BY <1>1, <1>2, <1>3, <1>4

LEMMA DisconnectIs ==
  ASSUME Typed, Disconnect
  PROVE  /\ connected' = FALSE
         /\ \E n \in 0..Len(toExchange) : toExchange' = SubSeq(toExchange, 1, n)
         /\ \E n \in 0..Len(toTrader) : toTrader' = SubSeq(toTrader, 1, n)
         /\ toExchange' \in Seq(Requests) /\ Range(toExchange') \subseteq Range(toExchange)
         /\ toTrader' \in Seq(Messages) /\ Range(toTrader') \subseteq Range(toTrader)
         /\ UNCHANGED <<strategyVars, omsVars, sending, traderVars, exchangeVars>>
<1>1. toExchange \in Seq(Requests) /\ toTrader \in Seq(Messages)
  BY DEF Typed, WireTyped
<1> QED
  BY <1>1, Cut DEF Disconnect

LEMMA TypedStep == Typed /\ [Next]_vars => Typed'
<1> SUFFICES ASSUME Typed, [Next]_vars PROVE Typed'
  OBVIOUS
<1>1. CASE BeginCycle \/ UpdateQuote \/ BeginWithdraw \/ Withdraw \/ MomentumOrder
  BY <1>1, StrategyThreadTyped
<1>2. CASE Send
  BY <1>2, SendTyped
<1>3. CASE ReadMessage \/ SettlePosition \/ SettlePnl
  BY <1>3, ReaderTyped
<1>4. CASE ProcessRequest
  BY <1>4, ProcessTyped
<1>5. CASE OthersTrade \/ MatchOthers \/ MatchOwn \/ FinishRequest
  BY <1>5, TradesTyped
<1>6. CASE Disconnect
  <2>1. WireTyped'
    BY <1>6, DisconnectIs DEF Typed, WireTyped
  <2> QED BY <1>6, <2>1, DisconnectIs DEF Typed, StrategyTyped, OmsTyped, BooksTyped,
            ExchangeTyped, strategyVars, omsVars, traderVars, exchangeVars, MaxId
<1>7. CASE UNCHANGED vars
  BY <1>7 DEF vars, Typed, StrategyTyped, OmsTyped, WireTyped, BooksTyped, ExchangeTyped,
     strategyVars, omsVars, traderVars, exchangeVars, MaxId
<1> QED
  BY <1>1, <1>2, <1>3, <1>4, <1>5, <1>6, <1>7 DEF Next
-----------------------------------------------------------------------------
(***************************************************************************)
(* Ids: who knows which order, and as what.                                *)
(***************************************************************************)
Introduces(m) == m.type # "CancelOrder"

\* The id a request introduces.
NewId(m) == IF m.type = "NewOrder" THEN m.id ELSE m.new_id

InOrder(s) ==
  \A i, j \in DOMAIN s :
    i < j /\ Introduces(s[i]) /\ Introduces(s[j]) => NewId(s[i]) < NewId(s[j])

\* Requests that are registered and not yet processed.
Waiting == Range(toExchange) \cup Range(sending)

Unanswered(m) ==
  /\ NewId(m) \in DOMAIN orders
  /\ orders[NewId(m)].state = "PendingNew" /\ orders[NewId(m)].pending = "None"
  /\ NewId(m) \notin DOMAIN working
  /\ \A o \in Range(incoming) : o.id # NewId(m)
  /\ \A r \in Range(toTrader) : ~Mentions(r, NewId(m))

\* Nobody has heard of an order whose request is still waiting.
Fresh == \A m \in Waiting : Introduces(m) => Unanswered(m)

AsRegistered(m) ==
  /\ m.type = "NewOrder" =>
       /\ orders[m.id].side = m.side /\ orders[m.id].price = m.price
       /\ orders[m.id].time_in_force = m.time_in_force
  /\ m.type = "ReplaceOrder" =>
       /\ orders[m.new_id].price = m.price
       /\ orders[m.new_id].side = orders[m.id].side
       /\ orders[m.new_id].time_in_force = orders[m.id].time_in_force
  /\ m.type # "NewOrder" =>
       m.id \in DOMAIN orders /\ orders[m.id].state # "PendingNew"

\* Requests say what is registered.
RequestsKnown == \A m \in Waiting : AsRegistered(m)

\* Ids are introduced in increasing order.
Sequenced ==
  /\ InOrder(toExchange)
  /\ \A m \in Range(toExchange), s \in Range(sending) :
       Introduces(m) /\ Introduces(s) => NewId(m) < NewId(s)

MessageKnown(m) ==
  /\ m.id \in DOMAIN orders
  /\ m.type = "Replaced" => /\ m.new_id \in DOMAIN orders /\ m.new_id # m.id
                            /\ orders[m.new_id].price = m.price

MessagesKnown == \A m \in Range(toTrader) : MessageKnown(m)

\* What rests is the registered order.
WorkingKnown ==
  \A id \in DOMAIN working :
    /\ id \in DOMAIN orders
    /\ working[id].side = orders[id].side /\ working[id].price = orders[id].price
    /\ orders[id].time_in_force = "GTC"

IncomingKnown ==
  \A o \in Range(incoming) :
    /\ o.id \in DOMAIN orders /\ o.id \notin DOMAIN working
    /\ o.side = orders[o.id].side /\ o.price = orders[o.id].price
    /\ o.time_in_force = orders[o.id].time_in_force

Known == /\ Fresh /\ RequestsKnown /\ Sequenced /\ MessagesKnown
         /\ WorkingKnown /\ IncomingKnown

\* A request that the strategy thread has just registered.
AskedFor(m) ==
  /\ sending' = <<m>> /\ Range(sending') = {m}
  /\ Introduces(m) =>
       /\ NewId(m) = nextId /\ nextId \notin DOMAIN orders /\ nextId' = nextId + 1
       /\ DOMAIN orders' = DOMAIN orders \cup {nextId}
       /\ orders'[nextId].state = "PendingNew" /\ orders'[nextId].pending = "None"
  /\ ~Introduces(m) => DOMAIN orders' = DOMAIN orders /\ nextId' = nextId
  /\ m.type = "NewOrder" =>
       /\ orders'[m.id].side = m.side /\ orders'[m.id].price = m.price
       /\ orders'[m.id].time_in_force = m.time_in_force
  /\ m.type = "ReplaceOrder" =>
       /\ orders'[m.new_id].price = m.price
       /\ orders'[m.new_id].side = orders[m.id].side
       /\ orders'[m.new_id].time_in_force = orders[m.id].time_in_force
  /\ m.type # "NewOrder" =>
       /\ m.id \in DOMAIN orders /\ IsLive(orders[m.id].state)
       /\ orders[m.id].pending = "None"

\* What registering a request leaves of an order there was before.
SameOrder(x) ==
  /\ orders'[x].side = orders[x].side /\ orders'[x].price = orders[x].price
  /\ orders'[x].time_in_force = orders[x].time_in_force
  /\ orders'[x].state = orders[x].state /\ orders'[x].remaining = orders[x].remaining

LEMMA AskedIs ==
  ASSUME Typed, Asks
  PROVE  /\ UNCHANGED Others /\ Range(sending) = {}
         /\ DOMAIN orders \subseteq DOMAIN orders'
         /\ nextId' \in {nextId, nextId + 1}
         /\ \A x \in DOMAIN orders : SameOrder(x)
         /\ \/ AsksNothing /\ Range(sending') = {}
            \/ \E m \in Requests :
                 /\ AskedFor(m)
                 /\ \A x \in DOMAIN orders :
                      x # m.id \/ m.type = "NewOrder" => orders'[x] = orders[x]
<1>1. UNCHANGED Others /\ Range(sending) = {}
  BY Emptied DEF Asks
<1>2. orders \in [DOMAIN orders -> ClientOrders] /\ nextId \in Nat /\ nextId \notin DOMAIN orders
  <2>1. MaxId \in Nat
    BY MaxIdIs DEF Typed, StrategyTyped
  <2> QED BY <2>1 DEF Typed, OmsTyped
<1>3. CASE AsksNothing
  BY <1>1, <1>3 DEF AsksNothing, SameOrder
<1>4. CASE AsksNew
  <2>1. PICK side \in Sides, price \in Nat, quantity \in Quantities, tif \in Tifs :
          Registers(side, price, quantity, tif)
    BY <1>4 DEF AsksNew
  <2>2. PICK m : m = NewOrder(side, price, quantity, tif)
    OBVIOUS
  <2>3. /\ m \in Requests /\ m.type = "NewOrder" /\ m.id = nextId /\ m.side = side
        /\ m.price = price /\ m.time_in_force = tif
    BY <1>2, <2>2 DEF NewOrder, Requests
  <2>4. PICK o : o = ClientOrder(side, price, quantity, tif)
    OBVIOUS
  <2>5. /\ o.state = "PendingNew" /\ o.pending = "None" /\ o.side = side /\ o.price = price
        /\ o.time_in_force = tif
    BY <2>4 DEF ClientOrder
  <2>6. /\ DOMAIN orders' = DOMAIN orders \cup {nextId} /\ orders'[nextId] = o
        /\ \A x \in DOMAIN orders : orders'[x] = orders[x]
        /\ nextId' = nextId + 1
    BY <1>2, <2>1, <2>4 DEF Registers, Put
  <2>7. sending' = <<m>> /\ Range(sending') = {m}
    BY <2>1, <2>2, <2>3, Alone DEF Registers
  <2>8. AskedFor(m)
    BY <1>2, <2>3, <2>5, <2>6, <2>7 DEF AskedFor, Introduces, NewId
  <2> QED BY <1>1, <2>3, <2>6, <2>8 DEF SameOrder
<1>5. CASE AsksCancel
  <2>1. PICK id \in DOMAIN orders : MayChange(orders, id) /\ RequestCancel(id)
    BY <1>5 DEF AsksCancel
  <2>2. PICK m : m = [type |-> "CancelOrder", id |-> id]
    OBVIOUS
  <2>3. m \in Requests /\ m.type = "CancelOrder" /\ m.id = id
    BY <1>2, <2>2 DEF Requests, Typed, OmsTyped
  <2>4. sending' = <<m>> /\ Range(sending') = {m} /\ nextId' = nextId
    BY <2>1, <2>2, <2>3, Alone DEF RequestCancel
  <2>5. orders' = [orders EXCEPT ![id].pending = "Cancel"]
    BY <2>1 DEF RequestCancel
  <2>6. /\ DOMAIN orders' = DOMAIN orders
        /\ \A x \in DOMAIN orders : x # id => orders'[x] = orders[x]
    BY <1>2, <2>5
  <2>7. SameOrder(id)
    BY <1>2, <2>5 DEF SameOrder, ClientOrders
  <2>8. \A x \in DOMAIN orders : SameOrder(x)
    BY <2>6, <2>7 DEF SameOrder
  <2>9. AskedFor(m)
    BY <2>1, <2>3, <2>4, <2>6 DEF AskedFor, Introduces, NewId, MayChange
  <2> QED BY <1>1, <2>3, <2>4, <2>6, <2>8, <2>9
<1>6. CASE AsksReplace
  <2>1. PICK id \in DOMAIN orders, price \in Nat :
          MayChange(orders, id) /\ RequestReplace(id, price)
    BY <1>6 DEF AsksReplace
  <2>2. PICK m : m = [type |-> "ReplaceOrder", id |-> id, new_id |-> nextId,
                      price |-> price, quantity |-> QuoteSize]
    OBVIOUS
  <2>3. m \in Requests /\ m.type = "ReplaceOrder" /\ m.id = id /\ m.new_id = nextId /\ m.price = price
    BY <1>2, <2>2, QuantitiesAre DEF Requests, Typed, OmsTyped
  <2>4. sending' = <<m>> /\ Range(sending') = {m} /\ nextId' = nextId + 1
    BY <2>1, <2>2, <2>3, Alone DEF RequestReplace
  <2>5. PICK o, old : /\ o = ClientOrder(orders[id].side, price, QuoteSize, orders[id].time_in_force)
                      /\ old = [orders EXCEPT ![id].pending = "Replace"]
    OBVIOUS
  <2>6. /\ o.state = "PendingNew" /\ o.pending = "None" /\ o.side = orders[id].side
        /\ o.price = price /\ o.time_in_force = orders[id].time_in_force
    BY <2>5 DEF ClientOrder
  <2>7. /\ DOMAIN old = DOMAIN orders
        /\ \A x \in DOMAIN orders : x # id => old[x] = orders[x]
        /\ old[id] = [orders[id] EXCEPT !.pending = "Replace"]
    BY <1>2, <2>5
  <2>8. orders' = Put(old, nextId, o)
    BY <2>1, <2>5 DEF RequestReplace, RegisterReplace
  <2>9. /\ DOMAIN orders' = DOMAIN orders \cup {nextId} /\ orders'[nextId] = o
        /\ \A x \in DOMAIN orders : orders'[x] = old[x]
    BY <1>2, <2>7, <2>8 DEF Put
  <2>10. SameOrder(id)
    BY <1>2, <2>7, <2>9 DEF SameOrder, ClientOrders
  <2>11. \A x \in DOMAIN orders : SameOrder(x)
    BY <2>7, <2>9, <2>10 DEF SameOrder
  <2>12. AskedFor(m)
    BY <1>2, <2>1, <2>3, <2>4, <2>6, <2>9 DEF AskedFor, Introduces, NewId, MayChange
  <2> QED BY <1>1, <2>3, <2>4, <2>7, <2>9, <2>11, <2>12
<1> QED
  BY <1>3, <1>4, <1>5, <1>6 DEF Asks

LEMMA KnownAsks ==
  ASSUME Typed, Known, Asks
  PROVE  Known'
<1>1. /\ UNCHANGED <<toExchange, toTrader, working, incoming>>
      /\ Range(sending) = {} /\ DOMAIN orders \subseteq DOMAIN orders'
      /\ \A x \in DOMAIN orders : SameOrder(x)
  BY AskedIs DEF Others, exchangeVars
<1>2. Waiting' = Waiting \cup Range(sending')
  BY <1>1 DEF Waiting
<1>3. MessagesKnown' /\ WorkingKnown' /\ IncomingKnown'
  BY <1>1 DEF Known, MessagesKnown, MessageKnown, WorkingKnown, IncomingKnown, SameOrder
<1>4. ASSUME NEW m \in Waiting
      PROVE  /\ AsRegistered(m)'
             /\ Introduces(m) => NewId(m) \in DOMAIN orders /\ NewId(m) < nextId
  <2>1. m \in Requests
    BY <1>1, RangeOfSeq DEF Waiting, Typed, WireTyped
  <2>2. AsRegistered(m) /\ (Introduces(m) => Unanswered(m))
    BY DEF Known, Fresh, RequestsKnown
  <2>3. Introduces(m) => NewId(m) \in DOMAIN orders
    BY <2>2 DEF Unanswered
  <2>4. \A x \in DOMAIN orders : x < nextId
    BY MaxIdIs DEF Typed, StrategyTyped, OmsTyped
  <2>5. m.type \in {"NewOrder", "CancelOrder", "ReplaceOrder"}
    BY <2>1, RequestForm
  <2>6. AsRegistered(m)'
    BY <1>1, <2>2, <2>3, <2>5 DEF AsRegistered, SameOrder, Introduces, NewId
  <2> QED BY <2>3, <2>4, <2>6
<1>5. CASE AsksNothing
  <2>1. Waiting' = Waiting
    BY <1>1, <1>5 DEF AsksNothing, Waiting
  <2>2. Fresh'
    BY <1>1, <1>5, <2>1 DEF Known, Fresh, Unanswered, AsksNothing
  <2>3. RequestsKnown'
    BY <1>4, <2>1 DEF RequestsKnown
  <2>4. Sequenced'
    BY <1>1, <1>5 DEF Known, Sequenced, AsksNothing
  <2> QED BY <1>3, <2>2, <2>3, <2>4 DEF Known
<1>6. ASSUME NEW q \in Requests, AskedFor(q),
             \A x \in DOMAIN orders : x # q.id \/ q.type = "NewOrder" => orders'[x] = orders[x]
      PROVE  Known'
  <2>1. Waiting' = Waiting \cup {q} /\ Range(sending') = {q}
    BY <1>2, <1>6 DEF AskedFor
  <2>2. ASSUME NEW m \in Waiting, Introduces(m) PROVE Unanswered(m)'
    <3>1. Unanswered(m)
      BY <2>2 DEF Known, Fresh
    <3>2. orders'[NewId(m)] = orders[NewId(m)]
      BY <1>6, <3>1 DEF Unanswered, AskedFor, IsLive
    <3> QED BY <1>1, <3>1, <3>2 DEF Unanswered
  <2>3. ASSUME Introduces(q) PROVE Unanswered(q)'
    <3>1. /\ NewId(q) = nextId /\ nextId \notin DOMAIN orders /\ nextId \in DOMAIN orders'
          /\ orders'[nextId].state = "PendingNew" /\ orders'[nextId].pending = "None"
      BY <1>6, <2>3 DEF AskedFor
    <3>2. nextId \notin DOMAIN working /\ \A o \in Range(incoming) : o.id # nextId
      BY <3>1 DEF Known, WorkingKnown, IncomingKnown
    <3>3. \A r \in Range(toTrader) : ~Mentions(r, nextId)
      BY <3>1 DEF Known, MessagesKnown, MessageKnown, Mentions
    <3> QED BY <1>1, <3>1, <3>2, <3>3 DEF Unanswered
  <2>4. Fresh'
    BY <2>1, <2>2, <2>3 DEF Fresh
  <2>5. AsRegistered(q)'
    <3>1. q.type # "NewOrder" => /\ q.id \in DOMAIN orders' /\ orders'[q.id].state # "PendingNew"
                                 /\ SameOrder(q.id)
      BY <1>1, <1>6 DEF AskedFor, SameOrder, IsLive
    <3> QED BY <1>6, <3>1 DEF AsRegistered, AskedFor, SameOrder
  <2>6. RequestsKnown'
    BY <1>4, <2>1, <2>5 DEF RequestsKnown
  <2>7. Sequenced'
    <3>1. Introduces(q) => NewId(q) = nextId
      BY <1>6 DEF AskedFor
    <3>2. Range(toExchange) \subseteq Waiting
      BY DEF Waiting
    <3> QED BY <1>1, <1>4, <2>1, <3>1, <3>2 DEF Known, Sequenced
  <2> QED BY <1>3, <2>4, <2>6, <2>7 DEF Known
<1> QED
  BY <1>5, <1>6, AskedIs

LEMMA InOrderJoined ==
  ASSUME NEW s \in Seq(Requests), NEW m \in Requests, InOrder(s),
         \A r \in Range(s) : Introduces(r) /\ Introduces(m) => NewId(r) < NewId(m)
  PROVE  InOrder(s \o <<m>>)
<1>1. /\ \A j \in DOMAIN s : (s \o <<m>>)[j] = s[j] /\ s[j] \in Range(s)
      /\ DOMAIN s = 1..Len(s) /\ Len(s) \in Nat
  BY DEF Range
<1>2. (s \o <<m>>)[Len(s) + 1] = m /\ DOMAIN (s \o <<m>>) = 1..(Len(s) + 1)
  OBVIOUS
<1>3. PICK t : t = s \o <<m>>
  OBVIOUS
<1>4. InOrder(t)
  BY <1>1, <1>2, <1>3 DEF InOrder
<1> QED
  BY <1>3, <1>4

LEMMA InOrderTail ==
  ASSUME NEW s \in Seq(Requests), s # << >>, InOrder(s)
  PROVE  /\ InOrder(Tail(s))
         /\ \A r \in Range(Tail(s)) :
              Introduces(r) /\ Introduces(Head(s)) => NewId(Head(s)) < NewId(r)
<1>1. /\ \A j \in DOMAIN Tail(s) : j + 1 \in DOMAIN s /\ Tail(s)[j] = s[j + 1]
      /\ 1 \in DOMAIN s /\ Head(s) = s[1] /\ Tail(s) \in Seq(Requests)
  BY Beheaded
<1>2. PICK t \in Seq(Requests) : t = Tail(s)
  BY <1>1
<1>3. \A j \in DOMAIN t : j \in Nat \ {0}
  BY <1>2
<1>4. InOrder(t)
  BY <1>1, <1>2, <1>3 DEF InOrder
<1>5. \A r \in Range(t) : Introduces(r) /\ Introduces(s[1]) => NewId(s[1]) < NewId(r)
  BY <1>1, <1>2, <1>3 DEF InOrder, Range
<1> QED
  BY <1>1, <1>2, <1>4, <1>5

LEMMA KnownSend ==
  ASSUME Typed, Known, Send
  PROVE  Known'
<1>1. PICK q \in Requests :
           /\ sending = <<q>> /\ Range(sending) = {q}
           /\ sending' = << >> /\ Range(sending') = {}
           /\ UNCHANGED <<strategy, reference, todo, stopped, nextId, traderVars,
                          connected, toTrader, exchangeVars>>
           /\ Sends \/ FailsToSend(q)
  BY SendKinds
<1>2. UNCHANGED <<toTrader, working, incoming>>
  BY <1>1 DEF exchangeVars
<1>3. Range(toExchange) \subseteq Requests /\ toExchange \in Seq(Requests)
  BY RangeOfSeq DEF Typed, WireTyped
<1>4. CASE Sends
  <2>1. /\ orders' = orders
        /\ toExchange' = toExchange \o <<q>> /\ Range(toExchange') = Range(toExchange) \cup {q}
    <3>1. PICK s \in Seq(Requests) : s = <<q>> /\ Range(s) = {q}
      BY Alone
    <3>2. Range(toExchange \o s) = Range(toExchange) \cup Range(s)
      BY <1>3, Joined
    <3>3. orders' = orders /\ toExchange' = toExchange \o <<q>>
      BY <1>1, <1>4 DEF Sends
    <3>4. Range(toExchange \o <<q>>) = Range(toExchange) \cup {q}
      BY <3>1, <3>2, Zenon
    <3> QED BY <3>3, <3>4, Zenon
  <2>2. Waiting' = Waiting
    BY <1>1, <2>1 DEF Waiting
  <2>3. Fresh' /\ RequestsKnown' /\ MessagesKnown' /\ WorkingKnown' /\ IncomingKnown'
    BY <1>2, <2>1, <2>2 DEF Known, Fresh, Unanswered, RequestsKnown, AsRegistered,
      MessagesKnown, MessageKnown, WorkingKnown, IncomingKnown
  <2>4. InOrder(toExchange')
    BY <1>1, <1>3, <2>1, InOrderJoined DEF Known, Sequenced
  <2> QED BY <1>1, <2>3, <2>4 DEF Known, Sequenced
<1>5. CASE FailsToSend(q)
  <2>1. toExchange' = toExchange /\ Undone(orders, q, orders')
    BY <1>5, FailedSend DEF FailsToSend
  <2>2. Waiting' = Range(toExchange) /\ Range(toExchange) \subseteq Waiting /\ q \in Waiting
    BY <1>1, <2>1 DEF Waiting
  <2>3. Introduces(q) => Unanswered(q)
    BY <2>2 DEF Known, Fresh
  <2>4. DOMAIN orders' \subseteq DOMAIN orders
    BY <2>1 DEF Undone
  <2>5. ASSUME NEW x \in DOMAIN orders, Introduces(q) => x # NewId(q)
        PROVE  /\ x \in DOMAIN orders'
               /\ orders'[x].side = orders[x].side /\ orders'[x].price = orders[x].price
               /\ orders'[x].time_in_force = orders[x].time_in_force
               /\ orders'[x].state = orders[x].state
               /\ orders[x].pending = "None" => orders'[x].pending = "None"
    <3>1. x \in DOMAIN orders'
      BY <2>1, <2>5 DEF Undone, Introduces, NewId
    <3>2. q.type = "NewOrder" => x # q.id
      BY <2>5 DEF Introduces, NewId
    <3> QED BY <2>1, <3>1, <3>2 DEF Undone
  <2>6. ASSUME NEW m \in Range(toExchange)
        PROVE  (Introduces(m) => Unanswered(m)') /\ AsRegistered(m)'
    <3>1. (Introduces(m) => Unanswered(m)) /\ AsRegistered(m)
      BY <2>2 DEF Known, Fresh, RequestsKnown
    <3>2. Introduces(m) => /\ NewId(m) \in DOMAIN orders
                           /\ Introduces(q) => NewId(m) # NewId(q)
      <4>1. Introduces(m) /\ Introduces(q) => NewId(m) < NewId(q)
        BY <1>1 DEF Known, Sequenced
      <4>2. Introduces(m) => NewId(m) \in Nat
        BY <1>3, RequestForm DEF Introduces, NewId
      <4> QED BY <3>1, <4>1, <4>2 DEF Unanswered
    <3>3. m.type # "NewOrder" => m.id \in DOMAIN orders /\ (Introduces(q) => m.id # NewId(q))
      BY <2>3, <3>1 DEF AsRegistered, Unanswered
    <3>4. Introduces(m) => Unanswered(m)'
      BY <1>2, <2>5, <3>1, <3>2 DEF Unanswered
    <3>5. AsRegistered(m)'
      BY <1>3, <2>5, <3>1, <3>2, <3>3, RequestForm DEF AsRegistered, Introduces, NewId
    <3> QED BY <3>4, <3>5
  <2>7. Fresh' /\ RequestsKnown'
    BY <2>2, <2>6 DEF Fresh, RequestsKnown
  <2>8. Sequenced'
    BY <1>1, <2>1 DEF Known, Sequenced
  <2>9. MessagesKnown'
    <3>1. ASSUME NEW m \in Range(toTrader) PROVE MessageKnown(m)'
      <4>1. MessageKnown(m) /\ (Introduces(q) => ~Mentions(m, NewId(q)))
        BY <2>3 DEF Known, MessagesKnown, Unanswered
      <4> QED BY <2>5, <4>1 DEF MessageKnown, Mentions
    <3> QED BY <1>2, <3>1 DEF MessagesKnown
  <2>10. WorkingKnown'
    <3>1. \A id \in DOMAIN working : id \in DOMAIN orders /\ (Introduces(q) => id # NewId(q))
      BY <2>3 DEF Known, WorkingKnown, Unanswered
    <3> QED BY <1>2, <2>5, <3>1 DEF Known, WorkingKnown
  <2>11. IncomingKnown'
    <3>1. \A o \in Range(incoming) : o.id \in DOMAIN orders /\ (Introduces(q) => o.id # NewId(q))
      BY <2>3 DEF Known, IncomingKnown, Unanswered
    <3> QED BY <1>2, <2>5, <3>1 DEF Known, IncomingKnown
  <2> QED BY <2>7, <2>8, <2>9, <2>10, <2>11 DEF Known
<1> QED
  BY <1>1, <1>4, <1>5

LEMMA KnownRead ==
  ASSUME Typed, Known, ReadMessage
  PROVE  Known'
<1>1. PICK m \in Messages :
        /\ Range(toTrader) = {m} \cup Range(toTrader')
        /\ DOMAIN orders' = DOMAIN orders
        /\ \A x \in DOMAIN orders : orders'[x] = AfterMessage(orders[x], x, m)
        /\ UNCHANGED <<strategyVars, nextId, sending, account, pnl, connected,
                       toExchange, exchangeVars>>
  BY ReadKinds
<1>2. MessageKnown(m)
  BY <1>1 DEF Known, MessagesKnown
<1>3. ASSUME NEW x \in DOMAIN orders
      PROVE  /\ orders'[x].side = orders[x].side /\ orders'[x].price = orders[x].price
             /\ orders'[x].time_in_force = orders[x].time_in_force
             /\ ~Mentions(m, x) => orders'[x] = orders[x]
             /\ orders[x].state # "PendingNew" => orders'[x].state # "PendingNew"
  <2>1. orders[x] \in ClientOrders
    BY DEF Typed, OmsTyped
  <2>2. PICK h : h = AfterMessage(orders[x], x, m)
    OBVIOUS
  <2>3. /\ h.side = orders[x].side /\ h.time_in_force = orders[x].time_in_force
        /\ ~Mentions(m, x) => h = orders[x]
        /\ orders[x].state # "PendingNew" => h.state # "PendingNew"
        /\ ~(m.type = "Replaced" /\ m.new_id = x) => h.price = orders[x].price
        /\ m.type = "Replaced" /\ m.new_id = x => h.price \in {orders[x].price, m.price}
    BY <2>1, <2>2, AfterMessageIs
  <2>4. h.price = orders[x].price
    BY <1>2, <2>3 DEF MessageKnown
  <2>5. orders'[x] = h
    BY <1>1, <2>2
  <2> QED BY <2>3, <2>4, <2>5
<1>4. Waiting' = Waiting /\ UNCHANGED <<working, incoming, toExchange, sending>>
  BY <1>1 DEF Waiting, exchangeVars
<1>5. ASSUME NEW q \in Waiting
      PROVE  (Introduces(q) => Unanswered(q)') /\ AsRegistered(q)'
  <2>1. (Introduces(q) => Unanswered(q)) /\ AsRegistered(q)
    BY DEF Known, Fresh, RequestsKnown
  <2>2. Introduces(q) => orders'[NewId(q)] = orders[NewId(q)]
    BY <1>1, <1>3, <2>1 DEF Unanswered
  <2>3. Introduces(q) => Unanswered(q)'
    BY <1>1, <1>4, <2>1, <2>2 DEF Unanswered
  <2>4. AsRegistered(q)'
    BY <1>1, <1>3, <2>1 DEF AsRegistered, Introduces, NewId, Unanswered
  <2> QED BY <2>3, <2>4
<1>6. Fresh' /\ RequestsKnown'
  BY <1>4, <1>5 DEF Fresh, RequestsKnown
<1>7. Sequenced'
  BY <1>4 DEF Known, Sequenced
<1>8. MessagesKnown'
  BY <1>1, <1>3 DEF Known, MessagesKnown, MessageKnown
<1>9. WorkingKnown' /\ IncomingKnown'
  BY <1>1, <1>3, <1>4 DEF Known, WorkingKnown, IncomingKnown
<1> QED
  BY <1>6, <1>7, <1>8, <1>9 DEF Known

\* Somebody beside the OMS knows the id.
Heard(id) ==
  \/ id \in DOMAIN working
  \/ \E o \in Range(incoming) : o.id = id
  \/ \E r \in Range(toTrader) : Mentions(r, id)

\* A step of the exchange keeps Known if it says nothing of an order that is
\* still waiting and what it leaves behind is as registered.
LEMMA KnownExchange ==
  ASSUME Known, UNCHANGED <<orders, sending>>,
         Range(toExchange') \subseteq Range(toExchange), InOrder(toExchange'),
         \A q \in Waiting' : Introduces(q) /\ Heard(NewId(q))' => Heard(NewId(q)),
         MessagesKnown', WorkingKnown', IncomingKnown'
  PROVE  Known'
<1>1. Waiting' \subseteq Waiting
  BY DEF Waiting
<1>2. Fresh'
  <2>1. ASSUME NEW q \in Waiting', Introduces(q) PROVE Unanswered(q)'
    <3>1. Unanswered(q)
      BY <1>1, <2>1 DEF Known, Fresh
    <3>2. ~Heard(NewId(q))
      BY <3>1 DEF Unanswered, Heard
    <3>3. ~Heard(NewId(q))'
      BY <2>1, <3>2
    <3> QED BY <3>1, <3>3 DEF Unanswered, Heard
  <2> QED BY <2>1 DEF Fresh
<1>3. RequestsKnown'
  BY <1>1 DEF Known, RequestsKnown, AsRegistered
<1>4. Sequenced'
  BY DEF Known, Sequenced
<1> QED
  BY <1>2, <1>3, <1>4 DEF Known

\* The request that is handled is about other orders than those that wait.
LEMMA HandledApart ==
  ASSUME Typed, Known, NEW m \in Requests, Handles(m)
  PROVE  /\ Range(toExchange') \subseteq Range(toExchange) /\ InOrder(toExchange')
         /\ m \in Waiting /\ AsRegistered(m) /\ (Introduces(m) => Unanswered(m))
         /\ \A q \in Waiting' :
              /\ q \in Requests /\ q \in Waiting
              /\ Introduces(q) /\ Introduces(m) => NewId(m) < NewId(q)
              /\ Introduces(q) => NewId(q) # m.id
              /\ Introduces(q) /\ m.type = "ReplaceOrder" => NewId(q) # m.new_id
<1>1. /\ toExchange \in Seq(Requests) /\ toExchange # << >> /\ m = Head(toExchange)
      /\ toExchange' = Tail(toExchange) /\ sending' = sending /\ sending \in Seq(Requests)
  BY DEF Handles, Typed, WireTyped
<1>2. /\ Range(toExchange) = {m} \cup Range(toExchange') /\ toExchange' \in Seq(Requests)
  BY <1>1, Beheaded
<1>3. /\ InOrder(toExchange')
      /\ \A r \in Range(toExchange') : Introduces(r) /\ Introduces(m) => NewId(m) < NewId(r)
  BY <1>1, InOrderTail DEF Known, Sequenced
<1>4. m \in Waiting /\ AsRegistered(m) /\ (Introduces(m) => Unanswered(m))
  BY <1>2 DEF Known, Fresh, RequestsKnown, Waiting
<1>5. ASSUME NEW q \in Waiting'
      PROVE  /\ q \in Requests /\ q \in Waiting
             /\ Introduces(q) /\ Introduces(m) => NewId(m) < NewId(q)
             /\ Introduces(q) => NewId(q) # m.id
             /\ Introduces(q) /\ m.type = "ReplaceOrder" => NewId(q) # m.new_id
  <2>1. q \in Requests /\ q \in Waiting
    BY <1>1, <1>2, RangeOfSeq DEF Waiting
  <2>2. Introduces(q) /\ Introduces(m) => NewId(m) < NewId(q)
    BY <1>1, <1>2, <1>3 DEF Known, Sequenced, Waiting
  <2>3. (Introduces(q) => NewId(q) \in Nat) /\ (Introduces(m) => NewId(m) \in Nat)
    BY <2>1, RequestForm DEF Introduces, NewId
  <2>4. Introduces(q) => Unanswered(q)
    BY <2>1 DEF Known, Fresh
  <2>5. Introduces(q) /\ m.type # "NewOrder" => NewId(q) # m.id
    BY <1>4, <2>4 DEF AsRegistered, Unanswered
  <2>6. Introduces(q) /\ Introduces(m) => NewId(m) # NewId(q)
    BY <2>2, <2>3
  <2>7. /\ m.type = "NewOrder" => Introduces(m) /\ NewId(m) = m.id
        /\ m.type = "ReplaceOrder" => Introduces(m) /\ NewId(m) = m.new_id
    BY DEF Introduces, NewId
  <2> QED BY <2>1, <2>2, <2>5, <2>6, <2>7
<1> QED
  BY <1>2, <1>3, <1>4, <1>5

LEMMA KnownProcess ==
  ASSUME Typed, Known, ProcessRequest
  PROVE  Known'
<1>1. PICK m \in Requests :
        /\ Handles(m)
        /\ Refuses(m) \/ Admits(m) \/ Removes(m) \/ Amends(m) \/ Requeues(m)
  BY ProcessKinds
<1>2. /\ UNCHANGED <<orders, sending>> /\ Range(incoming) = {}
  BY <1>1, HandledRequest DEF TraderStays, omsVars
<1>3. /\ Range(toExchange') \subseteq Range(toExchange) /\ InOrder(toExchange')
      /\ AsRegistered(m) /\ (Introduces(m) => Unanswered(m))
      /\ \A q \in Waiting' : /\ Introduces(q) => NewId(q) # m.id
                             /\ Introduces(q) /\ m.type = "ReplaceOrder" => NewId(q) # m.new_id
  BY <1>1, HandledApart
<1>4. m.id \in DOMAIN orders
  BY <1>3 DEF AsRegistered, Introduces, Unanswered, NewId
<1>5. ASSUME NEW r \in Messages, r.id = m.id, r.type # "Replaced", Report(<<r>>)
      PROVE  /\ MessagesKnown'
             /\ \A x : x # m.id /\ (\E k \in Range(toTrader') : Mentions(k, x))
                  => \E k \in Range(toTrader) : Mentions(k, x)
  <2>1. Range(toTrader') \subseteq Range(toTrader) \cup {r}
    BY <1>5, ReportedOne
  <2> QED BY <1>2, <1>4, <1>5, <2>1 DEF Known, MessagesKnown, MessageKnown, Mentions
<1>6. CASE Refuses(m)
  <2>1. UNCHANGED <<working, incoming>> /\ MessagesKnown'
        /\ \A x : x # m.id /\ (\E k \in Range(toTrader') : Mentions(k, x))
             => \E k \in Range(toTrader) : Mentions(k, x)
    <3>1. PICK r \in Messages : r = [type |-> "Rejected", id |-> m.id] /\ Report(<<r>>)
      BY <1>1, <1>6, RefusesIs
    <3>2. r.id = m.id /\ r.type # "Replaced"
      BY <3>1
    <3> QED BY <1>1, <1>5, <1>6, <3>1, <3>2, RefusesIs
  <2>2. WorkingKnown' /\ IncomingKnown'
    BY <1>2, <2>1 DEF Known, WorkingKnown, IncomingKnown
  <2>3. \A q \in Waiting' : Introduces(q) /\ Heard(NewId(q))' => Heard(NewId(q))
    BY <1>3, <2>1 DEF Heard
  <2> QED BY <1>2, <1>3, <2>1, <2>2, <2>3, KnownExchange
<1>7. CASE Admits(m)
  <2>1. MessagesKnown'
        /\ \A x : x # m.id /\ (\E k \in Range(toTrader') : Mentions(k, x))
             => \E k \in Range(toTrader) : Mentions(k, x)
    <3>1. PICK r \in Messages : /\ r = [type |-> "Accepted", id |-> m.id, quantity |-> m.quantity]
                                /\ Report(<<r>>)
      BY <1>1, <1>7, AdmitsIs
    <3>2. r.id = m.id /\ r.type # "Replaced"
      BY <3>1
    <3> QED BY <1>5, <3>1, <3>2
  <2>2. PICK o \in Arrivals :
          /\ Range(incoming') = {o}
          /\ o.id = m.id /\ o.side = m.side /\ o.price = m.price
          /\ o.time_in_force = m.time_in_force
          /\ UNCHANGED working /\ m.type = "NewOrder"
    BY <1>1, <1>7, AdmitsIs
  <2>3. WorkingKnown'
    BY <1>2, <2>2 DEF Known, WorkingKnown
  <2>4. IncomingKnown'
    BY <1>2, <1>3, <1>4, <2>2 DEF IncomingKnown, AsRegistered, Introduces, Unanswered, NewId
  <2>5. \A q \in Waiting' : Introduces(q) /\ Heard(NewId(q))' => Heard(NewId(q))
    BY <1>3, <2>1, <2>2 DEF Heard
  <2> QED BY <1>2, <1>3, <2>1, <2>3, <2>4, <2>5, KnownExchange
<1>8. CASE Removes(m)
  <2>1. MessagesKnown'
        /\ \A x : x # m.id /\ (\E k \in Range(toTrader') : Mentions(k, x))
             => \E k \in Range(toTrader) : Mentions(k, x)
    <3>1. PICK r \in Messages : r = [type |-> "Cancelled", id |-> m.id] /\ Report(<<r>>)
      BY <1>1, <1>8, RemovesIs
    <3>2. r.id = m.id /\ r.type # "Replaced"
      BY <3>1
    <3> QED BY <1>5, <3>1, <3>2
  <2>2. /\ UNCHANGED incoming /\ DOMAIN working' = DOMAIN working \ {m.id}
        /\ \A x \in DOMAIN working' : working'[x] = working[x]
    BY <1>1, <1>8, RemovesIs
  <2>3. WorkingKnown' /\ IncomingKnown'
    BY <1>2, <2>2 DEF Known, WorkingKnown, IncomingKnown
  <2>4. \A q \in Waiting' : Introduces(q) /\ Heard(NewId(q))' => Heard(NewId(q))
    BY <1>3, <2>1, <2>2 DEF Heard
  <2> QED BY <1>2, <1>3, <2>1, <2>3, <2>4, KnownExchange
<1>9. ASSUME Exchanges(m)
      PROVE  /\ m.type = "ReplaceOrder" /\ m.id \in DOMAIN working
             /\ m.new_id \in DOMAIN orders /\ m.new_id # m.id /\ m.new_id \notin DOMAIN working
             /\ orders[m.new_id].price = m.price
             /\ orders[m.new_id].side = working[m.id].side
             /\ orders[m.new_id].time_in_force = "GTC"
             /\ MessagesKnown'
             /\ \A x : /\ x # m.id /\ x # m.new_id
                       /\ \E k \in Range(toTrader') : Mentions(k, x)
                  => \E k \in Range(toTrader) : Mentions(k, x)
  <2>1. m.type = "ReplaceOrder" /\ m.id \in DOMAIN working
    BY <1>9 DEF Exchanges
  <2>2. /\ m.new_id \in DOMAIN orders /\ m.new_id # m.id
        /\ m.new_id \notin DOMAIN working /\ orders[m.new_id].price = m.price
        /\ orders[m.new_id].side = orders[m.id].side
        /\ orders[m.new_id].time_in_force = orders[m.id].time_in_force
    BY <1>3, <2>1 DEF AsRegistered, Introduces, Unanswered, NewId
  <2>3. orders[m.id].side = working[m.id].side /\ orders[m.id].time_in_force = "GTC"
    BY <2>1 DEF Known, WorkingKnown
  <2>4. PICK r \in Messages :
          /\ r = [type |-> "Replaced", id |-> m.id, new_id |-> m.new_id,
                  price |-> m.price, quantity |-> m.quantity]
          /\ Report(<<r>>)
    BY <1>1, <1>9, ExchangesIs
  <2>5. r.type = "Replaced" /\ r.id = m.id /\ r.new_id = m.new_id /\ r.price = m.price
    BY <2>4
  <2>6. Range(toTrader') \subseteq Range(toTrader) \cup {r}
    BY <2>4, ReportedOne
  <2>7. MessagesKnown'
    BY <1>2, <1>4, <2>2, <2>5, <2>6 DEF Known, MessagesKnown, MessageKnown
  <2>8. \A x : x # m.id /\ x # m.new_id => ~Mentions(r, x)
    BY <2>5 DEF Mentions
  <2> QED BY <2>1, <2>2, <2>3, <2>6, <2>7, <2>8
<1>10. CASE Amends(m)
  <2>1. Exchanges(m)
    BY <1>10 DEF Amends
  <2>2. /\ UNCHANGED incoming
        /\ DOMAIN working' = (DOMAIN working \ {m.id}) \cup {m.new_id}
        /\ \A x \in DOMAIN working' : x # m.new_id => working'[x] = working[x]
        /\ working'[m.new_id].side = working[m.id].side
        /\ working'[m.new_id].price = m.price
    BY <1>1, <1>10, AmendsIs
  <2>3. WorkingKnown' /\ IncomingKnown'
    BY <1>2, <1>9, <2>1, <2>2 DEF Known, WorkingKnown, IncomingKnown
  <2>4. \A q \in Waiting' : Introduces(q) /\ Heard(NewId(q))' => Heard(NewId(q))
    BY <1>3, <1>9, <2>1, <2>2 DEF Heard
  <2> QED BY <1>2, <1>3, <1>9, <2>1, <2>3, <2>4, KnownExchange
<1>11. CASE Requeues(m)
  <2>1. Exchanges(m)
    BY <1>11 DEF Requeues
  <2>2. /\ DOMAIN working' = DOMAIN working \ {m.id}
        /\ \A x \in DOMAIN working' : working'[x] = working[x]
    BY <1>1, <1>11, RequeuesIs
  <2>3. PICK o \in Arrivals :
          /\ Range(incoming') = {o} /\ o.id = m.new_id /\ o.side = working[m.id].side
          /\ o.price = m.price /\ o.time_in_force = "GTC"
    BY <1>1, <1>11, RequeuesIs
  <2>4. WorkingKnown'
    BY <1>2, <2>2 DEF Known, WorkingKnown
  <2>5. IncomingKnown'
    BY <1>2, <1>9, <2>1, <2>2, <2>3 DEF IncomingKnown
  <2>6. \A q \in Waiting' : Introduces(q) /\ Heard(NewId(q))' => Heard(NewId(q))
    BY <1>3, <1>9, <2>1, <2>2, <2>3 DEF Heard
  <2> QED BY <1>2, <1>3, <1>9, <2>1, <2>4, <2>5, <2>6, KnownExchange
<1> QED
  BY <1>1, <1>6, <1>7, <1>8, <1>10, <1>11

LEMMA KnownTrades ==
  ASSUME Typed, Known, OthersTrade \/ MatchOthers \/ MatchOwn \/ FinishRequest
  PROVE  Known'
<1>0. InOrder(toExchange)
  BY DEF Known, Sequenced
<1>1. CASE OthersTrade
  <2>1. UNCHANGED <<orders, sending, toExchange, incoming>>
    BY <1>1, OthersTradeIs DEF TraderStays, omsVars
  <2>2. PICK id \in DOMAIN working, n \in Nat \ {0} :
          /\ n \in 1..working[id].remaining
          /\ working' = Taken(id, n)
          /\ TradeReport(id, working[id].price, n, working[id].remaining - n) \in Messages
          /\ Report(<<TradeReport(id, working[id].price, n, working[id].remaining - n)>>)
    BY <1>1, OthersTradeIs
  <2>3. PICK r \in Messages :
          r = TradeReport(id, working[id].price, n, working[id].remaining - n)
    BY <2>2
  <2>4. r.id = id /\ r.type = "TradeReport" /\ Report(<<r>>)
    BY <2>2, <2>3 DEF TradeReport
  <2>5. Range(toTrader') \subseteq Range(toTrader) \cup {r}
    BY <2>4, ReportedOne
  <2>6. /\ DOMAIN working' \subseteq DOMAIN working
        /\ \A x \in DOMAIN working' : /\ working'[x].side = working[x].side
                                      /\ working'[x].price = working[x].price
    BY <2>2, TakenIs
  <2>7. MessagesKnown'
    BY <2>1, <2>4, <2>5 DEF Known, MessagesKnown, MessageKnown, WorkingKnown
  <2>8. WorkingKnown' /\ IncomingKnown'
    BY <2>1, <2>6 DEF Known, WorkingKnown, IncomingKnown
  <2>9. \A x : Heard(x)' => Heard(x)
    BY <2>1, <2>4, <2>5, <2>6 DEF Heard, Mentions
  <2> QED BY <1>0, <2>1, <2>7, <2>8, <2>9, KnownExchange
<1>2. CASE MatchOthers
  <2>1. UNCHANGED <<orders, sending, toExchange, working>>
    BY <1>2, MatchOthersIs DEF TraderStays, omsVars
  <2>2. PICK o \in Arrivals, p \in Nat, n \in Nat \ {0} :
          /\ Range(incoming) = {o} /\ Shrinks(o, n)
          /\ TradeReport(o.id, p, n, o.remaining - n) \in Messages
          /\ Report(<<TradeReport(o.id, p, n, o.remaining - n)>>)
    BY <1>2, MatchOthersIs
  <2>3. PICK r \in Messages : r = TradeReport(o.id, p, n, o.remaining - n)
    BY <2>2
  <2>4. r.id = o.id /\ r.type = "TradeReport" /\ Report(<<r>>)
    BY <2>2, <2>3 DEF TradeReport
  <2>5. Range(toTrader') \subseteq Range(toTrader) \cup {r}
    BY <2>4, ReportedOne
  <2>6. PICK x \in Arrivals :
          /\ Range(incoming') = {x} /\ x.id = o.id /\ x.side = o.side /\ x.price = o.price
          /\ x.time_in_force = o.time_in_force
    BY <2>2 DEF Shrinks
  <2>7. MessagesKnown'
    BY <2>1, <2>2, <2>4, <2>5 DEF Known, MessagesKnown, MessageKnown, IncomingKnown
  <2>8. WorkingKnown' /\ IncomingKnown'
    BY <2>1, <2>2, <2>6 DEF Known, WorkingKnown, IncomingKnown
  <2>9. \A y : Heard(y)' => Heard(y)
    BY <2>1, <2>2, <2>4, <2>5, <2>6 DEF Heard, Mentions
  <2> QED BY <1>0, <2>1, <2>7, <2>8, <2>9, KnownExchange
<1>3. CASE MatchOwn
  <2>1. UNCHANGED <<orders, sending, toExchange>>
    BY <1>3, MatchOwnIs DEF TraderStays, omsVars
  <2>2. PICK o \in Arrivals, id \in DOMAIN working, n \in Nat \ {0} :
          /\ Range(incoming) = {o} /\ Shrinks(o, n) /\ n \in 1..working[id].remaining
          /\ working' = Taken(id, n) /\ BothLegs(o, id, n)
    BY <1>3, MatchOwnIs
  <2>3. PICK a \in Messages, b \in Messages :
          /\ Report(<<a, b>>)
          /\ {a, b} = {TradeReport(o.id, working[id].price, n, o.remaining - n),
                       TradeReport(id, working[id].price, n, working[id].remaining - n)}
    BY <2>2 DEF BothLegs
  <2>4. Range(toTrader') \subseteq Range(toTrader) \cup {a, b}
    <3>1. <<a, b>> \in Seq(Messages) /\ Range(<<a, b>>) = {a, b}
      BY Pair
    <3> QED BY <2>3, <3>1, Reported
  <2>5. \A r \in {a, b} : r.type = "TradeReport" /\ r.id \in {o.id, id}
    BY <2>3 DEF TradeReport
  <2>6. /\ DOMAIN working' \subseteq DOMAIN working
        /\ \A x \in DOMAIN working' : /\ working'[x].side = working[x].side
                                      /\ working'[x].price = working[x].price
    BY <2>2, TakenIs
  <2>7. PICK x \in Arrivals :
          /\ Range(incoming') = {x} /\ x.id = o.id /\ x.side = o.side /\ x.price = o.price
          /\ x.time_in_force = o.time_in_force
    BY <2>2 DEF Shrinks
  <2>8. o.id \in DOMAIN orders /\ id \in DOMAIN orders
    BY <2>2 DEF Known, IncomingKnown, WorkingKnown
  <2>9. MessagesKnown'
    BY <2>1, <2>4, <2>5, <2>8 DEF Known, MessagesKnown, MessageKnown
  <2>10. WorkingKnown' /\ IncomingKnown'
    BY <2>1, <2>2, <2>6, <2>7 DEF Known, WorkingKnown, IncomingKnown
  <2>11. \A y : Heard(y)' => Heard(y)
    BY <2>1, <2>2, <2>4, <2>5, <2>6, <2>7 DEF Heard, Mentions
  <2> QED BY <1>0, <2>1, <2>9, <2>10, <2>11, KnownExchange
<1>4. CASE FinishRequest
  <2>1. UNCHANGED <<orders, sending, toExchange, toTrader>> /\ Range(incoming') = {}
    BY <1>4, FinishIs DEF TraderStays, omsVars
  <2>2. PICK o \in Arrivals :
          /\ Range(incoming) = {o}
          /\ \/ working' = working
             \/ /\ o.time_in_force = "GTC"
                /\ DOMAIN working' = DOMAIN working \cup {o.id}
                /\ \A x \in DOMAIN working : x # o.id => working'[x] = working[x]
                /\ working'[o.id].side = o.side /\ working'[o.id].price = o.price
    BY <1>4, FinishIs
  <2>3. MessagesKnown' /\ IncomingKnown'
    BY <2>1 DEF Known, MessagesKnown, MessageKnown, IncomingKnown
  <2>4. WorkingKnown'
    BY <2>1, <2>2 DEF Known, WorkingKnown, IncomingKnown
  <2>5. \A y : Heard(y)' => Heard(y)
    BY <2>1, <2>2 DEF Heard
  <2> QED BY <1>0, <2>1, <2>3, <2>4, <2>5, KnownExchange
<1> QED
  BY <1>1, <1>2, <1>3, <1>4

LEMMA InOrderCut ==
  ASSUME NEW s \in Seq(Requests), NEW n \in 0..Len(s), InOrder(s)
  PROVE  InOrder(SubSeq(s, 1, n))
<1>1. PICK t : t = SubSeq(s, 1, n)
  OBVIOUS
<1>2. \A j \in DOMAIN t : j \in DOMAIN s /\ t[j] = s[j]
  BY <1>1, Cut
<1>3. InOrder(t)
  BY <1>2 DEF InOrder
<1> QED
  BY <1>1, <1>3

LEMMA KnownInit == Init => Known
<1> SUFFICES ASSUME Init PROVE Known
  OBVIOUS
<1>1. /\ Range(toExchange) = {} /\ Range(sending) = {} /\ Range(toTrader) = {}
      /\ Range(incoming) = {} /\ DOMAIN working = {} /\ DOMAIN toExchange = {}
  BY Emptied DEF Init
<1> QED
  BY <1>1 DEF Known, Fresh, RequestsKnown, Sequenced, MessagesKnown, WorkingKnown,
     IncomingKnown, Waiting, InOrder

LEMMA KnownStep == Typed /\ Known /\ [Next]_vars => Known'
<1> SUFFICES ASSUME Typed, Known, [Next]_vars PROVE Known'
  OBVIOUS
<1>1. CASE BeginCycle \/ UpdateQuote \/ BeginWithdraw \/ Withdraw \/ MomentumOrder
  BY <1>1, StrategyThreadTyped, KnownAsks
<1>2. CASE Send
  BY <1>2, KnownSend
<1>3. CASE ReadMessage
  BY <1>3, KnownRead
<1>4. CASE ProcessRequest
  BY <1>4, KnownProcess
<1>5. CASE OthersTrade \/ MatchOthers \/ MatchOwn \/ FinishRequest
  BY <1>5, KnownTrades
<1>6. CASE Disconnect
  <2>1. /\ UNCHANGED <<orders, sending, working, incoming>>
        /\ Range(toExchange') \subseteq Range(toExchange)
        /\ Range(toTrader') \subseteq Range(toTrader)
    BY <1>6, DisconnectIs DEF omsVars, exchangeVars
  <2>2. PICK n \in 0..Len(toExchange) : toExchange' = SubSeq(toExchange, 1, n)
    BY <1>6, DisconnectIs
  <2>3. InOrder(toExchange')
    BY <2>2, InOrderCut DEF Known, Sequenced, Typed, WireTyped
  <2>4. MessagesKnown' /\ WorkingKnown' /\ IncomingKnown'
    BY <2>1 DEF Known, MessagesKnown, MessageKnown, WorkingKnown, IncomingKnown
  <2>5. \A y : Heard(y)' => Heard(y)
    BY <2>1 DEF Heard
  <2> QED BY <2>1, <2>3, <2>4, <2>5, KnownExchange
<1>7. CASE SettlePosition \/ SettlePnl \/ UNCHANGED vars
  <2>1. UNCHANGED <<orders, sending, toExchange, toTrader, working, incoming>>
    BY <1>7 DEF SettlePosition, SettlePnl, vars, omsVars, exchangeVars
  <2> QED BY <2>1 DEF Known, Fresh, Unanswered, RequestsKnown, AsRegistered, Sequenced,
      MessagesKnown, MessageKnown, WorkingKnown, IncomingKnown, Waiting
<1> QED
  BY <1>1, <1>2, <1>3, <1>4, <1>5, <1>6, <1>7 DEF Next
-----------------------------------------------------------------------------
(***************************************************************************)
(* An order that is locked is waiting for something.                       *)
(***************************************************************************)
Locked(id) == id \in DOMAIN orders /\ orders[id].pending # "None"

Answers(r, id) == r.id = id /\ r.type \in {"Cancelled", "Replaced", "Rejected"}

UnderWay(id) ==
  \/ \E m \in Range(sending) : m.id = id
  \/ \E m \in Range(toExchange) : m.id = id /\ m.type # "NewOrder"
  \/ \E r \in Range(toTrader) : Answers(r, id)

LockedIsUnderWay == connected => \A id : Locked(id) => UnderWay(id)

LEMMA PendingIsUnderWayIs == PendingIsUnderWay <=> LockedIsUnderWay
<1>1. ASSUME NEW id
      PROVE  UnderWay(id) <=>
               \/ \E j \in DOMAIN sending : sending[j].id = id
               \/ \E j \in DOMAIN toExchange :
                    toExchange[j].id = id /\ toExchange[j].type # "NewOrder"
               \/ \E j \in DOMAIN toTrader :
                    /\ toTrader[j].id = id
                    /\ toTrader[j].type \in {"Cancelled", "Replaced", "Rejected"}
  BY DEF UnderWay, Answers, Range
<1> QED
  BY <1>1 DEF PendingIsUnderWay, Locked, LockedIsUnderWay

\* Answering the request that is handled.
LEMMA HandledIsAnswered ==
  ASSUME Typed, connected, NEW m \in Requests, Handles(m), m.type # "NewOrder",
         Refuses(m) \/ Admits(m) \/ Removes(m) \/ Amends(m) \/ Requeues(m)
  PROVE  \E r \in Range(toTrader') : Answers(r, m.id)
<1>1. CASE Refuses(m)
  <2>1. PICK r \in Messages : r = [type |-> "Rejected", id |-> m.id] /\ Report(<<r>>)
    BY <1>1, RefusesIs
  <2>2. Range(toTrader') = Range(toTrader) \cup {r}
    BY <2>1, ReportedOne
  <2>3. Answers(r, m.id)
    BY <2>1 DEF Answers
  <2> QED BY <2>2, <2>3
<1>2. CASE Removes(m)
  <2>1. PICK r \in Messages : r = [type |-> "Cancelled", id |-> m.id] /\ Report(<<r>>)
    BY <1>2, RemovesIs
  <2>2. Range(toTrader') = Range(toTrader) \cup {r}
    BY <2>1, ReportedOne
  <2>3. Answers(r, m.id)
    BY <2>1 DEF Answers
  <2> QED BY <2>2, <2>3
<1>3. CASE Exchanges(m)
  <2>1. PICK r \in Messages :
          /\ r = [type |-> "Replaced", id |-> m.id, new_id |-> m.new_id,
                  price |-> m.price, quantity |-> m.quantity]
          /\ Report(<<r>>)
    BY <1>3, ExchangesIs
  <2>2. Range(toTrader') = Range(toTrader) \cup {r}
    BY <2>1, ReportedOne
  <2>3. Answers(r, m.id)
    BY <2>1 DEF Answers
  <2> QED BY <2>2, <2>3
<1> QED
  BY <1>1, <1>2, <1>3 DEF Admits, Amends, Requeues

\* Every step of the exchange only adds to what is on its way to the trader.
LEMMA ReportsStay ==
  ASSUME Typed, \/ ProcessRequest \/ OthersTrade \/ MatchOthers \/ MatchOwn \/ FinishRequest
  PROVE  Range(toTrader) \subseteq Range(toTrader')
<1>1. CASE ProcessRequest
  <2>1. PICK m \in Requests :
          /\ Handles(m)
          /\ Refuses(m) \/ Admits(m) \/ Removes(m) \/ Amends(m) \/ Requeues(m)
    BY <1>1, ProcessKinds
  <2>2. \E r \in Messages : Report(<<r>>)
    <3>1. Refuses(m) => \E r \in Messages : Report(<<r>>)
      BY <2>1, RefusesIs
    <3>2. Admits(m) => \E r \in Messages : Report(<<r>>)
      BY <2>1, AdmitsIs
    <3>3. Removes(m) => \E r \in Messages : Report(<<r>>)
      BY <2>1, RemovesIs
    <3>4. Exchanges(m) => \E r \in Messages : Report(<<r>>)
      BY <2>1, ExchangesIs
    <3> QED BY <2>1, <3>1, <3>2, <3>3, <3>4 DEF Amends, Requeues
  <2> QED BY <2>2, ReportedOne
<1>2. CASE OthersTrade
  <2>1. \E r \in Messages : Report(<<r>>)
    BY <1>2, OthersTradeIs
  <2> QED BY <2>1, ReportedOne
<1>3. CASE MatchOthers
  <2>1. \E r \in Messages : Report(<<r>>)
    BY <1>3, MatchOthersIs
  <2> QED BY <2>1, ReportedOne
<1>4. CASE MatchOwn
  <2>1. PICK a \in Messages, b \in Messages : Report(<<a, b>>)
    BY <1>4, MatchOwnIs DEF BothLegs
  <2>2. <<a, b>> \in Seq(Messages)
    BY Pair
  <2> QED BY <2>1, <2>2, Reported
<1>5. CASE FinishRequest
  BY <1>5, FinishIs
<1> QED
  BY <1>1, <1>2, <1>3, <1>4, <1>5

LEMMA PendingStep ==
  Typed /\ Known /\ PendingIsUnderWay /\ [Next]_vars => PendingIsUnderWay'
<1> SUFFICES ASSUME Typed, Known, PendingIsUnderWay, [Next]_vars,
                    connected', NEW id, Locked(id)'
             PROVE  UnderWay(id)'
  <2>1. PendingIsUnderWay' <=> LockedIsUnderWay'
    BY PendingIsUnderWayIs, PTL
  <2> QED BY <2>1 DEF LockedIsUnderWay
<1>0. connected => (Locked(id) => UnderWay(id))
  BY PendingIsUnderWayIs DEF LockedIsUnderWay
<1>1. CASE BeginCycle \/ UpdateQuote \/ BeginWithdraw \/ Withdraw \/ MomentumOrder
  <2>1. /\ UNCHANGED <<connected, toExchange, toTrader>> /\ Range(sending) = {}
        /\ \/ AsksNothing
           \/ \E m \in Requests :
                 /\ AskedFor(m)
                 /\ \A x \in DOMAIN orders :
                      x # m.id \/ m.type = "NewOrder" => orders'[x] = orders[x]
    BY <1>1, StrategyThreadTyped, AskedIs DEF Others
  <2>2. CASE AsksNothing
    BY <1>0, <2>1, <2>2 DEF AsksNothing, Locked, UnderWay
  <2>3. ASSUME NEW m \in Requests, AskedFor(m),
               \A x \in DOMAIN orders : x # m.id \/ m.type = "NewOrder" => orders'[x] = orders[x]
        PROVE  UnderWay(id)'
    <3>1. CASE id = m.id
      BY <2>3, <3>1 DEF AskedFor, UnderWay
    <3>2. CASE id # m.id
      <4>1. Introduces(m) => orders'[NewId(m)].pending = "None"
        BY <2>3 DEF AskedFor
      <4>2. id \in DOMAIN orders
        BY <2>3, <4>1 DEF AskedFor, Locked
      <4>3. Locked(id)
        BY <2>3, <3>2, <4>2 DEF Locked
      <4> QED BY <1>0, <2>1, <4>3 DEF UnderWay
    <3> QED BY <3>1, <3>2
  <2> QED BY <2>1, <2>2, <2>3
<1>2. CASE Send
  <2>1. PICK q \in Requests :
           /\ sending = <<q>> /\ Range(sending) = {q} /\ Range(sending') = {}
           /\ UNCHANGED <<connected, toTrader>>
           /\ Sends
    BY <1>2, SendKinds DEF FailsToSend
  <2>2. orders' = orders /\ Range(toExchange') = Range(toExchange) \cup {q}
    <3>1. toExchange \in Seq(Requests) /\ sending \in Seq(Requests)
      BY DEF Typed, WireTyped
    <3>2. Range(toExchange \o sending) = Range(toExchange) \cup Range(sending)
      BY <3>1, Joined
    <3> QED BY <2>1, <3>2 DEF Sends
  <2>3. q.type = "NewOrder" => ~Locked(q.id)
    <3>1. q.type = "NewOrder" => Unanswered(q) /\ NewId(q) = q.id
      BY <2>1 DEF Known, Fresh, Waiting, Introduces, NewId
    <3> QED BY <3>1 DEF Unanswered, Locked
  <2>4. Locked(id)
    BY <2>2 DEF Locked
  <2> QED BY <1>0, <2>1, <2>2, <2>3, <2>4 DEF UnderWay
<1>3. CASE ReadMessage
  <2>1. PICK m \in Messages :
          /\ Range(toTrader) = {m} \cup Range(toTrader')
          /\ DOMAIN orders' = DOMAIN orders
          /\ \A x \in DOMAIN orders : orders'[x] = AfterMessage(orders[x], x, m)
          /\ UNCHANGED <<strategyVars, nextId, sending, account, pnl, connected,
                         toExchange, exchangeVars>>
    BY <1>3, ReadKinds
  <2>2. id \in DOMAIN orders /\ orders[id] \in ClientOrders
    BY <2>1 DEF Locked, Typed, OmsTyped
  <2>3. PICK h : h = AfterMessage(orders[id], id, m)
    OBVIOUS
  <2>4. /\ h.pending \in {orders[id].pending, "None"}
        /\ id = m.id /\ m.type \in {"Rejected", "Cancelled", "Replaced"}
             => h.pending = "None"
    BY <2>2, <2>3, AfterMessageIs
  <2>5. h.pending # "None"
    BY <2>1, <2>2, <2>3 DEF Locked
  <2>6. Locked(id) /\ ~Answers(m, id)
    BY <2>2, <2>4, <2>5 DEF Locked, Answers
  <2> QED BY <1>0, <2>1, <2>6 DEF UnderWay
<1>4. CASE ProcessRequest
  <2>1. PICK m \in Requests :
          /\ Handles(m)
          /\ Refuses(m) \/ Admits(m) \/ Removes(m) \/ Amends(m) \/ Requeues(m)
    BY <1>4, ProcessKinds
  <2>2. /\ UNCHANGED <<orders, sending, connected>>
        /\ Range(toExchange) = {m} \cup Range(toExchange')
    BY <2>1, HandledRequest DEF TraderStays, omsVars
  <2>3. m.type # "NewOrder" => \E r \in Range(toTrader') : Answers(r, m.id)
    BY <2>1, <2>2, HandledIsAnswered
  <2>4. Range(toTrader) \subseteq Range(toTrader')
    BY <1>4, ReportsStay
  <2>5. UnderWay(id)
    BY <1>0, <2>2 DEF Locked
  <2> QED BY <2>2, <2>3, <2>4, <2>5 DEF UnderWay
<1>5. CASE OthersTrade \/ MatchOthers \/ MatchOwn \/ FinishRequest
  <2>1. UNCHANGED <<orders, sending, connected, toExchange>>
    BY <1>5 DEF OthersTrade, MatchOthers, MatchOwn, FinishRequest, omsVars
  <2>2. Range(toTrader) \subseteq Range(toTrader')
    BY <1>5, ReportsStay
  <2> QED BY <1>0, <2>1, <2>2 DEF UnderWay, Locked
<1>6. CASE Disconnect
  BY <1>6 DEF Disconnect
<1>7. CASE SettlePosition \/ SettlePnl \/ UNCHANGED vars
  <2>1. UNCHANGED <<orders, sending, toExchange, toTrader, connected>>
    BY <1>7 DEF SettlePosition, SettlePnl, vars, omsVars
  <2> QED BY <1>0, <2>1 DEF Locked, UnderWay
<1> QED
  BY <1>1, <1>2, <1>3, <1>4, <1>5, <1>6, <1>7 DEF Next
-----------------------------------------------------------------------------
(***************************************************************************)
(* One order per quote: a quoting strategy has at most one order a side at *)
(* the exchange or on its way there, and while there is one it believes in *)
(* an order that is not over.                                              *)
(***************************************************************************)
Item(id, side) ==
  \/ id \in DOMAIN working /\ working[id].side = side
  \/ \E o \in Range(incoming) : o.id = id /\ o.side = side /\ o.remaining > 0
  \/ \E m \in Waiting : m.type = "NewOrder" /\ m.side = side /\ m.id = id

Busy(side) == \E x : Item(x, side)

OneItem ==
  strategy # "Momentum" =>
    \A side \in Sides : \A x, y : Item(x, side) /\ Item(y, side) => x = y

\* The order a quote stands for, and the one it falls back on if the replace
\* that is being sent fails.
Believes(id, side) ==
  \/ id = quote[side]
  \/ \E m \in Range(sending) : m.type = "ReplaceOrder" /\ m.new_id = quote[side] /\ m.id = id

FollowedOn(id, side) ==
  /\ Tracked(id) /\ orders[id].side = side
  /\ \A r \in Range(toTrader) : ~Ends(r, id, orders)
  /\ \A m \in Range(toExchange) : m.type = "ReplaceOrder" => m.id # id

Followed ==
  strategy # "Momentum" /\ ~stopped =>
    \A side \in Sides : Busy(side) => \A id : Believes(id, side) => FollowedOn(id, side)

\* A quote stands for an order of its side, also while it is being moved.
Sided ==
  /\ \A side \in Sides :
       /\ quote[side] < nextId
       /\ quote[side] \in DOMAIN orders => orders[quote[side]].side = side
  /\ \A q \in Range(sending) :
       q.type = "ReplaceOrder" => quote[orders[q.id].side] = q.new_id

LEMMA SidesOfOrders ==
  ASSUME Typed, NEW id \in DOMAIN orders
  PROVE  orders[id].side \in Sides /\ id \in Nat /\ id < nextId
<1>1. MaxId \in Nat
  BY MaxIdIs DEF Typed, StrategyTyped
<1> QED
  BY <1>1 DEF Typed, OmsTyped, ClientOrders

LEMMA NextIdIs ==
  ASSUME Typed
  PROVE  nextId \in Nat \ {0} /\ nextId \notin DOMAIN orders /\ quote \in [Sides -> Nat]
<1>1. MaxId \in Nat
  BY MaxIdIs DEF Typed, StrategyTyped
<1> QED
  BY <1>1 DEF Typed, OmsTyped, StrategyTyped

\* The messages a request becomes.
LEMMA RegistersIs ==
  ASSUME Typed, NEW side \in Sides, NEW price \in Nat,
         Registers(side, price, QuoteSize, "GTC")
  PROVE  /\ nextId' = nextId + 1
         /\ DOMAIN orders' = DOMAIN orders \cup {nextId}
         /\ \A x \in DOMAIN orders : orders'[x] = orders[x]
         /\ orders'[nextId].side = side /\ orders'[nextId].state = "PendingNew"
         /\ \E m \in Requests : /\ Range(sending') = {m} /\ m.type = "NewOrder"
                                /\ m.id = nextId /\ m.side = side
<1>1. orders \in [DOMAIN orders -> ClientOrders] /\ nextId \in Nat /\ nextId \notin DOMAIN orders
  BY NextIdIs DEF Typed, OmsTyped
<1>2. PICK m : m = NewOrder(side, price, QuoteSize, "GTC")
  OBVIOUS
<1>3. m \in Requests /\ m.type = "NewOrder" /\ m.id = nextId /\ m.side = side
  BY <1>1, <1>2, QuantitiesAre DEF NewOrder, Requests, Tifs
<1>4. Range(sending') = {m}
  BY <1>2, <1>3, Alone DEF Registers
<1>5. PICK o : o = ClientOrder(side, price, QuoteSize, "GTC")
  OBVIOUS
<1>6. o.side = side /\ o.state = "PendingNew"
  BY <1>5 DEF ClientOrder
<1>7. /\ DOMAIN orders' = DOMAIN orders \cup {nextId} /\ orders'[nextId] = o
      /\ \A x \in DOMAIN orders : orders'[x] = orders[x]
      /\ nextId' = nextId + 1
  BY <1>1, <1>5 DEF Registers, Put
<1> QED
  BY <1>3, <1>4, <1>6, <1>7

LEMMA CancelIs ==
  ASSUME Typed, NEW id, MayChange(orders, id), RequestCancel(id)
  PROVE  /\ nextId' = nextId /\ DOMAIN orders' = DOMAIN orders
         /\ \A x \in DOMAIN orders : SameOrder(x)
         /\ \E m \in Requests : Range(sending') = {m} /\ m.type = "CancelOrder"
<1>1. orders \in [DOMAIN orders -> ClientOrders] /\ id \in DOMAIN orders /\ id \in Nat
  BY SidesOfOrders DEF Typed, OmsTyped, MayChange
<1>2. PICK m : m = [type |-> "CancelOrder", id |-> id]
  OBVIOUS
<1>3. m \in Requests /\ m.type = "CancelOrder"
  BY <1>1, <1>2 DEF Requests
<1>4. Range(sending') = {m} /\ nextId' = nextId
  BY <1>2, <1>3, Alone DEF RequestCancel
<1>5. orders' = [orders EXCEPT ![id].pending = "Cancel"]
  BY DEF RequestCancel
<1>6. /\ DOMAIN orders' = DOMAIN orders
      /\ \A x \in DOMAIN orders : x # id => orders'[x] = orders[x]
  BY <1>1, <1>5
<1>7. SameOrder(id)
  BY <1>1, <1>5 DEF SameOrder, ClientOrders
<1> QED
  BY <1>3, <1>4, <1>6, <1>7 DEF SameOrder

LEMMA ReplaceIs ==
  ASSUME Typed, NEW id, NEW price \in Nat, MayChange(orders, id), RequestReplace(id, price)
  PROVE  /\ nextId' = nextId + 1
         /\ DOMAIN orders' = DOMAIN orders \cup {nextId}
         /\ \A x \in DOMAIN orders : SameOrder(x)
         /\ orders'[nextId].side = orders[id].side /\ orders'[nextId].state = "PendingNew"
         /\ \E m \in Requests : /\ Range(sending') = {m} /\ m.type = "ReplaceOrder"
                                /\ m.id = id /\ m.new_id = nextId
<1>1. /\ orders \in [DOMAIN orders -> ClientOrders] /\ id \in DOMAIN orders /\ id \in Nat
      /\ nextId \in Nat /\ nextId \notin DOMAIN orders
  BY SidesOfOrders, NextIdIs DEF Typed, OmsTyped, MayChange
<1>2. PICK m : m = [type |-> "ReplaceOrder", id |-> id, new_id |-> nextId,
                    price |-> price, quantity |-> QuoteSize]
  OBVIOUS
<1>3. m \in Requests /\ m.type = "ReplaceOrder" /\ m.id = id /\ m.new_id = nextId
  BY <1>1, <1>2, QuantitiesAre DEF Requests
<1>4. Range(sending') = {m} /\ nextId' = nextId + 1
  BY <1>2, <1>3, Alone DEF RequestReplace
<1>5. PICK o, old : /\ o = ClientOrder(orders[id].side, price, QuoteSize, orders[id].time_in_force)
                    /\ old = [orders EXCEPT ![id].pending = "Replace"]
  OBVIOUS
<1>6. o.state = "PendingNew" /\ o.side = orders[id].side
  BY <1>5 DEF ClientOrder
<1>7. /\ DOMAIN old = DOMAIN orders
      /\ \A x \in DOMAIN orders : x # id => old[x] = orders[x]
      /\ old[id] = [orders[id] EXCEPT !.pending = "Replace"]
  BY <1>1, <1>5
<1>8. orders' = Put(old, nextId, o)
  BY <1>5 DEF RequestReplace, RegisterReplace
<1>9. /\ DOMAIN orders' = DOMAIN orders \cup {nextId} /\ orders'[nextId] = o
      /\ \A x \in DOMAIN orders : orders'[x] = old[x]
  BY <1>1, <1>7, <1>8 DEF Put
<1>10. SameOrder(id)
  BY <1>1, <1>7, <1>9 DEF SameOrder, ClientOrders
<1>11. \A x \in DOMAIN orders : SameOrder(x)
  BY <1>7, <1>9, <1>10 DEF SameOrder
<1> QED
  BY <1>3, <1>4, <1>6, <1>9, <1>11

LEMMA SidedUpdate ==
  ASSUME Typed, Known, Sided, UpdateQuote
  PROVE  Sided'
<1>0. nextId \in Nat \ {0} /\ nextId \notin DOMAIN orders /\ quote \in [Sides -> Nat]
  BY NextIdIs
<1>1. Range(sending) = {}
  BY UpdateQuoteKinds, Emptied
<1>2. PICK side \in Sides, want \in Nat :
              \/ Forgets(side)
              \/ Opens(side, want)
              \/ Cancels(quote[side])
              \/ Moves(side, want)
              \/ AsksNothing /\ UNCHANGED quote
  BY UpdateQuoteKinds
<1>3. CASE Forgets(side)
  <2>1. 0 \notin DOMAIN orders
    BY SidesOfOrders DEF Typed, OmsTyped
  <2> QED BY <1>0, <1>1, <1>3, <2>1 DEF Forgets, AsksNothing, Sided
<1>4. CASE Opens(side, want)
  <2>1. /\ nextId' = nextId + 1 /\ DOMAIN orders' = DOMAIN orders \cup {nextId}
        /\ \A x \in DOMAIN orders : orders'[x] = orders[x]
        /\ orders'[nextId].side = side
        /\ \A m \in Range(sending') : m.type = "NewOrder"
    BY <1>4, RegistersIs DEF Opens
  <2>2. quote' = [quote EXCEPT ![side] = nextId]
    BY <1>4 DEF Opens
  <2> QED BY <1>0, <2>1, <2>2 DEF Sided
<1>5. CASE Cancels(quote[side])
  <2>1. /\ nextId' = nextId /\ DOMAIN orders' = DOMAIN orders
        /\ \A x \in DOMAIN orders : SameOrder(x)
        /\ \A m \in Range(sending') : m.type = "CancelOrder"
        /\ quote' = quote
    BY <1>5, CancelIs DEF Cancels
  <2> QED BY <2>1 DEF Sided, SameOrder
<1>6. CASE Moves(side, want)
  <2>1. PICK m \in Requests :
        /\ nextId' = nextId + 1 /\ DOMAIN orders' = DOMAIN orders \cup {nextId}
        /\ \A x \in DOMAIN orders : SameOrder(x)
        /\ orders'[nextId].side = orders[quote[side]].side
        /\ Range(sending') = {m} /\ m.type = "ReplaceOrder"
        /\ m.id = quote[side] /\ m.new_id = nextId
    BY <1>6, ReplaceIs DEF Moves
  <2>2. quote' = [quote EXCEPT ![side] = nextId] /\ quote[side] \in DOMAIN orders
    BY <1>6 DEF Moves, MayChange
  <2>3. orders[quote[side]].side = side /\ orders'[quote[side]].side = side
    BY <2>1, <2>2 DEF Sided, SameOrder
  <2> QED BY <1>0, <2>1, <2>2, <2>3 DEF Sided, SameOrder
<1>7. CASE AsksNothing /\ UNCHANGED quote
  BY <1>7 DEF AsksNothing, Sided
<1> QED
  BY <1>2, <1>3, <1>4, <1>5, <1>6, <1>7

LEMMA SidedInit == Init => Sided
<1> SUFFICES ASSUME Init PROVE Sided
  OBVIOUS
<1>1. Range(sending) = {} /\ DOMAIN orders = {}
  BY Emptied DEF Init
<1> QED
  BY <1>1 DEF Init, Sided

LEMMA SidedStep == Typed /\ Known /\ Sided /\ [Next]_vars => Sided'
<1> SUFFICES ASSUME Typed, Known, Sided, [Next]_vars PROVE Sided'
  OBVIOUS
<1>0. nextId \in Nat \ {0} /\ nextId \notin DOMAIN orders /\ quote \in [Sides -> Nat]
  BY NextIdIs
<1>1. CASE UpdateQuote
  BY <1>1, SidedUpdate
<1>2. CASE BeginCycle \/ BeginWithdraw
  BY <1>2 DEF BeginCycle, BeginWithdraw, Sided, omsVars
<1>3. CASE MomentumOrder
  <2>1. Asks /\ quote' = quote
    BY <1>3, StrategyThreadTyped DEF MomentumOrder, strategyVars
  <2>2. /\ DOMAIN orders' \subseteq DOMAIN orders \cup {nextId}
        /\ \A x \in DOMAIN orders : SameOrder(x)
        /\ nextId' \in {nextId, nextId + 1}
    BY <2>1, AskedIs DEF AskedFor, AsksNothing
  <2>3. \A m \in Range(sending') : m.type # "ReplaceOrder"
    <3>1. PICK side, price, quantity, tif : Submit(side, price, quantity, tif)
      BY <1>3 DEF MomentumOrder
    <3>2. PICK m : m = NewOrder(side, price, quantity, tif)
      OBVIOUS
    <3>3. m.type = "NewOrder"
      BY <3>2 DEF NewOrder
    <3>4. sending' \in {sending, <<m>>} /\ sending = << >>
      BY <1>3, <3>1, <3>2 DEF Submit, MomentumOrder
    <3>5. Range(<< >>) = {} /\ Range(<<m>>) = {m}
      BY Emptied, Alone
    <3> QED BY <3>3, <3>4, <3>5
  <2>4. \A side \in Sides : quote[side] \in DOMAIN orders' => quote[side] \in DOMAIN orders
    BY <1>0, <2>2 DEF Sided
  <2> QED BY <1>0, <2>1, <2>2, <2>3, <2>4 DEF Sided, SameOrder
<1>4. CASE Withdraw
  <2>1. PICK side \in Sides : side = Head(todo).side
    <3>1. Head(todo) \in [side : Sides, price : Nat]
      BY <1>4, Beheaded DEF Withdraw, Typed, StrategyTyped
    <3> QED BY <3>1
  <2>2. quote' = [quote EXCEPT ![side] = 0] /\ sending = << >>
    BY <1>4, <2>1 DEF Withdraw
  <2>3. 0 \notin DOMAIN orders
    BY SidesOfOrders DEF Typed, OmsTyped
  <2>4. CASE MayChange(orders, quote[side])
    <3>1. /\ nextId' = nextId /\ DOMAIN orders' = DOMAIN orders
          /\ \A x \in DOMAIN orders : SameOrder(x)
          /\ \A m \in Range(sending') : m.type = "CancelOrder"
      BY <1>4, <2>1, <2>4, CancelIs DEF Withdraw
    <3> QED BY <1>0, <2>2, <2>3, <3>1 DEF Sided, SameOrder
  <2>5. CASE ~MayChange(orders, quote[side])
    <3>1. UNCHANGED <<orders, nextId, sending>> /\ Range(sending) = {}
      BY <1>4, <2>1, <2>2, <2>5, Emptied DEF Withdraw, omsVars
    <3> QED BY <1>0, <2>2, <2>3, <3>1 DEF Sided
  <2> QED BY <2>4, <2>5
<1>5. CASE Send
  <2>1. PICK q \in Requests :
           /\ sending = <<q>> /\ Range(sending) = {q} /\ Range(sending') = {}
           /\ UNCHANGED nextId
           /\ Sends \/ FailsToSend(q)
    BY <1>5, SendKinds
  <2>2. CASE Sends
    BY <2>1, <2>2 DEF Sends, Sided
  <2>3. CASE FailsToSend(q)
    <3>1. Undone(orders, q, orders')
      BY <2>3, FailedSend
    <3>2. /\ DOMAIN orders' \subseteq DOMAIN orders
          /\ \A x \in DOMAIN orders' : orders'[x].side = orders[x].side
      BY <3>1 DEF Undone
    <3>3. CASE q.type # "ReplaceOrder"
      <4>1. quote' = quote
        BY <1>0, <2>3, <3>3 DEF FailsToSend
      <4> QED BY <2>1, <3>2, <4>1 DEF Sided
    <3>4. CASE q.type = "ReplaceOrder"
      <4>1. AsRegistered(q) /\ Unanswered(q)
        BY <2>1, <3>4 DEF Known, Fresh, RequestsKnown, Waiting, Introduces
      <4>2. /\ q.id \in DOMAIN orders /\ q.new_id \in DOMAIN orders
            /\ orders[q.new_id].side = orders[q.id].side
        BY <3>4, <4>1 DEF AsRegistered, Unanswered, NewId
      <4>3. q.id < nextId
        BY <4>2, SidesOfOrders
      <4>4. ASSUME NEW side \in Sides
            PROVE  quote'[side] < nextId /\ (quote'[side] \in DOMAIN orders' =>
                      orders'[quote'[side]].side = side)
        <5>1. quote'[side] = IF quote[side] = q.new_id THEN q.id ELSE quote[side]
          BY <2>3, <3>4 DEF FailsToSend
        <5> QED BY <3>2, <4>2, <4>3, <5>1 DEF Sided
      <4> QED BY <2>1, <4>4 DEF Sided
    <3> QED BY <3>3, <3>4
  <2> QED BY <2>1, <2>2, <2>3
<1>6. CASE ReadMessage
  <2>1. PICK m \in Messages :
          /\ DOMAIN orders' = DOMAIN orders
          /\ \A x \in DOMAIN orders : orders'[x] = AfterMessage(orders[x], x, m)
          /\ UNCHANGED <<strategyVars, nextId, sending>>
    BY <1>6, ReadKinds
  <2>2. ASSUME NEW x \in DOMAIN orders PROVE orders'[x].side = orders[x].side
    <3>1. orders[x] \in ClientOrders
      BY DEF Typed, OmsTyped
    <3>2. PICK h : h = AfterMessage(orders[x], x, m)
      OBVIOUS
    <3>3. h.side = orders[x].side
      BY <3>1, <3>2, AfterMessageIs
    <3> QED BY <2>1, <3>2, <3>3
  <2>3. \A q \in Range(sending) : q.type = "ReplaceOrder" => q.id \in DOMAIN orders
    BY DEF Known, RequestsKnown, AsRegistered, Waiting
  <2> QED BY <2>1, <2>2, <2>3 DEF Sided, strategyVars
<1>7. CASE ~(UpdateQuote \/ BeginCycle \/ BeginWithdraw \/ MomentumOrder \/ Withdraw
             \/ Send \/ ReadMessage)
  <2>1. UNCHANGED <<quote, nextId, orders, sending>>
    BY <1>7 DEF Next, SettlePosition, SettlePnl, ProcessRequest, OthersTrade, MatchOthers, MatchOwn,
       FinishRequest, Disconnect, vars, strategyVars, omsVars
  <2> QED BY <2>1 DEF Sided
<1> QED
  BY <1>1, <1>2, <1>3, <1>4, <1>5, <1>6, <1>7

Quoted == OneItem /\ Followed

\* While a side is busy its quote is tracked.
LEMMA BusyIsTracked ==
  ASSUME Quoted, strategy # "Momentum", ~stopped, NEW side \in Sides, Busy(side)
  PROVE  FollowedOn(quote[side], side)
  BY DEF Quoted, Followed, Believes

LEMMA QuotedUpdate ==
  ASSUME Typed, Known, Sided, Quoted, UpdateQuote
  PROVE  Quoted'
<1>0. nextId \in Nat \ {0} /\ nextId \notin DOMAIN orders /\ quote \in [Sides -> Nat]
  BY NextIdIs
<1>1. /\ Range(sending) = {} /\ ~stopped /\ UNCHANGED stopped
      /\ UNCHANGED <<strategy, toExchange, toTrader, working, incoming>>
  BY UpdateQuoteKinds, Emptied DEF Others, exchangeVars
<1>2. PICK side \in Sides, want \in Nat :
              \/ ~Tracked(quote[side]) /\ Forgets(side)
              \/ ~Tracked(quote[side]) /\ Opens(side, want)
              \/ Cancels(quote[side])
              \/ Tracked(quote[side]) /\ Moves(side, want)
              \/ AsksNothing /\ UNCHANGED quote
  BY UpdateQuoteKinds
<1>3. SUFFICES ASSUME strategy # "Momentum" PROVE Quoted'
  BY <1>1 DEF Quoted, OneItem, Followed
<1>4. ASSUME \A m \in Range(sending') : m.type # "NewOrder"
      PROVE  OneItem' /\ \A s \in Sides : Busy(s)' <=> Busy(s)
  <2>1. \A x : \A s \in Sides : Item(x, s)' <=> Item(x, s)
    BY <1>1, <1>4 DEF Item, Waiting
  <2> QED BY <1>1, <2>1 DEF Quoted, OneItem, Busy
<1>5. ASSUME NEW id, NEW s \in Sides, FollowedOn(id, s), DOMAIN orders \subseteq DOMAIN orders',
             SameOrder(id)
      PROVE  FollowedOn(id, s)'
  BY <1>1, <1>5 DEF FollowedOn, Tracked, SameOrder, Ends
<1>6. ~Heard(nextId) /\ \A m \in Range(toExchange) : m.type = "ReplaceOrder" => m.id # nextId
  <2>1. \A m \in Range(toExchange) : m.type = "ReplaceOrder" => m.id \in DOMAIN orders
    BY DEF Known, RequestsKnown, AsRegistered, Waiting
  <2>2. ~Heard(nextId)
    BY <1>0 DEF Known, WorkingKnown, IncomingKnown, MessagesKnown, MessageKnown, Heard, Mentions
  <2> QED BY <1>0, <2>1, <2>2
<1>n. PICK new : new = nextId
  OBVIOUS
<1>7. ASSUME NEW s \in Sides, nextId \in DOMAIN orders', orders'[nextId].side = s,
             orders'[nextId].state = "PendingNew"
      PROVE  FollowedOn(new, s)'
  <2>1. \A r \in Range(toTrader) : r.id # new
    BY <1>6, <1>n DEF Heard, Mentions
  <2>2. new \in DOMAIN orders' /\ orders'[new].side = s /\ orders'[new].state = "PendingNew"
    BY <1>7, <1>n
  <2>3. \A m \in Range(toExchange) : m.type = "ReplaceOrder" => m.id # new
    BY <1>6, <1>n
  <2> QED BY <1>1, <2>1, <2>2, <2>3 DEF FollowedOn, Tracked, IsTerminal, Ends
<1>8. CASE ~Tracked(quote[side]) /\ Forgets(side)
  <2>1. UNCHANGED <<orders, sending>> /\ quote' = [quote EXCEPT ![side] = 0]
    BY <1>8 DEF Forgets, AsksNothing
  <2>2. OneItem' /\ \A s \in Sides : Busy(s)' <=> Busy(s)
    BY <1>1, <1>4, <2>1
  <2>3. ~Busy(side)
    BY <1>1, <1>3, <1>8, BusyIsTracked DEF FollowedOn
  <2>4. ASSUME NEW s \in Sides, Busy(s)', NEW id, Believes(id, s)'
        PROVE  FollowedOn(id, s)'
    <3>1. Busy(s) /\ s # side
      BY <2>2, <2>3, <2>4
    <3>2. Believes(id, s)
      BY <1>0, <2>1, <2>4, <3>1 DEF Believes
    <3>3. FollowedOn(id, s)
      BY <1>1, <1>3, <3>1, <3>2 DEF Quoted, Followed
    <3> QED BY <1>1, <2>1, <3>3 DEF FollowedOn, Tracked
  <2> QED BY <2>2, <2>4 DEF Quoted, Followed
<1>9. CASE ~Tracked(quote[side]) /\ Opens(side, want)
  <2>1. PICK m \in Requests :
        /\ DOMAIN orders' = DOMAIN orders \cup {nextId}
        /\ \A x \in DOMAIN orders : orders'[x] = orders[x]
        /\ orders'[nextId].side = side /\ orders'[nextId].state = "PendingNew"
        /\ Range(sending') = {m} /\ m.type = "NewOrder" /\ m.id = nextId /\ m.side = side
    BY <1>9, RegistersIs DEF Opens
  <2>2. quote' = [quote EXCEPT ![side] = nextId]
    BY <1>9 DEF Opens
  <2>3. ~Busy(side)
    BY <1>1, <1>3, <1>9, BusyIsTracked DEF FollowedOn
  <2>4. \A x : \A s \in Sides : Item(x, s)' <=> Item(x, s) \/ (x = nextId /\ s = side)
    BY <1>1, <2>1 DEF Item, Waiting
  <2>5. OneItem'
    BY <1>1, <1>3, <2>3, <2>4 DEF Quoted, OneItem, Busy
  <2>6. ASSUME NEW s \in Sides, Busy(s)', NEW id, Believes(id, s)'
        PROVE  FollowedOn(id, s)'
    <3>1. id = quote'[s]
      BY <2>1, <2>6 DEF Believes
    <3>2. CASE s = side
      <4>1. id = new
        BY <1>0, <1>n, <2>2, <3>1, <3>2
      <4> QED BY <1>7, <2>1, <3>2, <4>1
    <3>3. CASE s # side
      <4>1. id = quote[s] /\ Busy(s)
        BY <1>0, <2>2, <2>4, <2>6, <3>1, <3>3 DEF Busy
      <4>2. FollowedOn(id, s)
        BY <1>1, <1>3, <4>1, BusyIsTracked
      <4>3. SameOrder(id)
        BY <2>1, <4>2 DEF SameOrder, FollowedOn, Tracked
      <4> QED BY <1>5, <2>1, <4>2, <4>3
    <3> QED BY <3>2, <3>3
  <2> QED BY <2>5, <2>6 DEF Quoted, Followed
<1>10. CASE Cancels(quote[side])
  <2>1. /\ DOMAIN orders' = DOMAIN orders /\ \A x \in DOMAIN orders : SameOrder(x)
        /\ \A m \in Range(sending') : m.type = "CancelOrder"
        /\ quote' = quote
    BY <1>10, CancelIs DEF Cancels
  <2>2. OneItem' /\ \A s \in Sides : Busy(s)' <=> Busy(s)
    BY <1>4, <2>1
  <2>3. ASSUME NEW s \in Sides, Busy(s)', NEW id, Believes(id, s)'
        PROVE  FollowedOn(id, s)'
    <3>1. id = quote[s] /\ Busy(s)
      BY <2>1, <2>2, <2>3 DEF Believes
    <3>2. FollowedOn(id, s)
      BY <1>1, <1>3, <3>1, BusyIsTracked
    <3> QED BY <1>5, <2>1, <3>2 DEF FollowedOn, Tracked
  <2> QED BY <2>2, <2>3 DEF Quoted, Followed
<1>11. CASE Tracked(quote[side]) /\ Moves(side, want)
  <2>1. PICK m \in Requests :
        /\ DOMAIN orders' = DOMAIN orders \cup {nextId}
        /\ \A x \in DOMAIN orders : SameOrder(x)
        /\ orders'[nextId].side = orders[quote[side]].side
        /\ orders'[nextId].state = "PendingNew"
        /\ Range(sending') = {m} /\ m.type = "ReplaceOrder"
        /\ m.id = quote[side] /\ m.new_id = nextId
    BY <1>11, ReplaceIs DEF Moves
  <2>2. quote' = [quote EXCEPT ![side] = nextId] /\ quote[side] \in DOMAIN orders
    BY <1>11 DEF Moves, MayChange
  <2>3. OneItem' /\ \A s \in Sides : Busy(s)' <=> Busy(s)
    BY <1>4, <2>1
  <2>4. orders[quote[side]].side = side
    BY <2>2 DEF Sided
  <2>5. ASSUME NEW s \in Sides, Busy(s)', NEW id, Believes(id, s)'
        PROVE  FollowedOn(id, s)'
    <3>1. Busy(s)
      BY <2>3, <2>5
    <3>2. PICK y : y = quote[s]
      OBVIOUS
    <3>3. FollowedOn(y, s) /\ SameOrder(y)
      BY <1>1, <1>3, <2>1, <3>1, <3>2, BusyIsTracked DEF FollowedOn, Tracked
    <3>4. FollowedOn(y, s)' /\ y # new
      BY <1>0, <1>n, <1>5, <2>1, <3>3 DEF FollowedOn, Tracked
    <3>5. CASE s = side
      <4>1. id \in {new, y}
        BY <1>0, <1>n, <2>1, <2>2, <2>5, <3>2, <3>5 DEF Believes
      <4>2. FollowedOn(new, s)'
        BY <1>7, <2>1, <2>4, <3>5
      <4> QED BY <3>4, <4>1, <4>2
    <3>6. CASE s # side
      <4>1. id = y
        BY <1>0, <1>n, <2>1, <2>2, <2>5, <3>2, <3>4, <3>6 DEF Believes
      <4> QED BY <3>4, <4>1
    <3> QED BY <3>5, <3>6
  <2> QED BY <2>3, <2>5 DEF Quoted, Followed
<1>12. CASE AsksNothing /\ UNCHANGED quote
  BY <1>1, <1>12 DEF AsksNothing, Quoted, OneItem, Followed, FollowedOn, Believes, Tracked,
     Busy, Item, Waiting
<1> QED
  BY <1>2, <1>8, <1>9, <1>10, <1>11, <1>12

LEMMA QuotedSend ==
  ASSUME Typed, Known, Sided, Quoted, Send
  PROVE  Quoted'
<1>1. PICK q \in Requests :
         /\ sending = <<q>> /\ Range(sending) = {q} /\ Range(sending') = {}
         /\ UNCHANGED <<strategy, stopped, toTrader, exchangeVars>>
         /\ Sends \/ FailsToSend(q)
  BY SendKinds
<1>2. SUFFICES ASSUME strategy # "Momentum" PROVE Quoted'
  BY <1>1 DEF Quoted, OneItem, Followed
<1>3. /\ UNCHANGED <<working, incoming>> /\ q \in Waiting
      /\ AsRegistered(q) /\ (Introduces(q) => Unanswered(q))
  BY <1>1 DEF exchangeVars, Known, Fresh, RequestsKnown, Waiting
<1>4. CASE Sends
  <2>1. UNCHANGED <<orders, quote>> /\ Range(toExchange') = Range(toExchange) \cup {q}
    <3>1. toExchange \in Seq(Requests) /\ sending \in Seq(Requests)
      BY DEF Typed, WireTyped
    <3>2. Range(toExchange \o sending) = Range(toExchange) \cup Range(sending)
      BY <3>1, Joined
    <3> QED BY <1>1, <1>4, <3>2 DEF Sends
  <2>2. Waiting' = Waiting
    BY <1>1, <2>1 DEF Waiting
  <2>3. \A x, s : Item(x, s)' <=> Item(x, s)
    BY <1>3, <2>2 DEF Item
  <2>4. OneItem' /\ \A s : Busy(s)' <=> Busy(s)
    BY <1>1, <2>3 DEF Quoted, OneItem, Busy
  <2>5. ASSUME NEW s \in Sides, Busy(s)', ~stopped', NEW id, Believes(id, s)'
        PROVE  FollowedOn(id, s)'
    <3>1. id = quote[s] /\ Busy(s) /\ ~stopped
      BY <1>1, <2>1, <2>4, <2>5 DEF Believes
    <3>2. FollowedOn(id, s)
      BY <1>2, <3>1, BusyIsTracked
    <3>3. q.type = "ReplaceOrder" => q.id # id
      <4>1. SUFFICES ASSUME q.type = "ReplaceOrder", q.id = id PROVE FALSE
        OBVIOUS
      <4>2. quote[orders[id].side] = q.new_id /\ orders[id].side = s
        BY <1>1, <3>2, <4>1 DEF Sided, FollowedOn
      <4>3. q.new_id = q.id
        BY <3>1, <4>1, <4>2
      <4> QED BY <1>3, <4>1, <4>3 DEF AsRegistered, Unanswered, Introduces, NewId
    <3> QED BY <1>1, <2>1, <3>2, <3>3 DEF FollowedOn, Tracked
  <2> QED BY <2>4, <2>5 DEF Quoted, Followed
<1>5. CASE FailsToSend(q)
  <2>1. toExchange' = toExchange /\ Undone(orders, q, orders')
    BY <1>5, FailedSend DEF FailsToSend
  <2>2. Waiting' = Range(toExchange) /\ Waiting = Range(toExchange) \cup {q}
    BY <1>1, <2>1 DEF Waiting
  <2>3. \A x, s : Item(x, s)' => Item(x, s)
    BY <1>3, <2>2 DEF Item
  <2>4. OneItem' /\ \A s : Busy(s)' => Busy(s)
    BY <1>1, <2>3 DEF Quoted, OneItem, Busy
  <2>5. ASSUME NEW s \in Sides, Busy(s)', ~stopped', NEW id, Believes(id, s)'
        PROVE  FollowedOn(id, s)'
    <3>1. id = quote'[s] /\ Busy(s) /\ ~stopped
      BY <1>1, <2>4, <2>5 DEF Believes
    <3>2. quote'[s] = IF q.type = "ReplaceOrder" /\ quote[s] = q.new_id THEN q.id ELSE quote[s]
      BY <1>5 DEF FailsToSend
    <3>3. Believes(id, s)
      BY <1>1, <3>1, <3>2 DEF Believes
    <3>4. FollowedOn(id, s)
      BY <1>2, <3>1, <3>3 DEF Quoted, Followed
    <3>5. q.type = "ReplaceOrder" => id # q.new_id
      <4>1. q.type = "ReplaceOrder" => q.id # q.new_id
        BY <1>3 DEF AsRegistered, Unanswered, Introduces, NewId
      <4> QED BY <3>1, <3>2, <4>1
    <3>6. q.type = "NewOrder" => id # q.id
      <4>1. SUFFICES ASSUME q.type = "NewOrder", id = q.id PROVE FALSE
        OBVIOUS
      <4>2. q.side = s /\ Item(q.id, s)
        BY <1>3, <2>2, <3>4, <4>1 DEF AsRegistered, FollowedOn, Item
      <4>3. PICK x : Item(x, s)'
        BY <2>5 DEF Busy
      <4>4. x = q.id
        BY <1>2, <2>3, <4>2, <4>3 DEF Quoted, OneItem
      <4>5. \A m \in Range(toExchange) : m.type = "NewOrder" => m.id # q.id
        <5>1. \A m \in Range(toExchange) : m.type = "NewOrder" => m.id < q.id /\ m.id \in Nat
          BY <1>1, <4>1, RangeOfSeq, RequestForm
             DEF Known, Sequenced, Introduces, NewId, Typed, WireTyped
        <5>2. q.id \in Nat
          BY RequestForm
        <5> QED BY <5>1, <5>2
      <4> QED BY <1>3, <2>2, <4>1, <4>3, <4>4, <4>5
              DEF Item, Unanswered, Introduces, NewId
    <3>7. /\ id \in DOMAIN orders' /\ orders'[id].state = orders[id].state
          /\ orders'[id].side = orders[id].side
      BY <2>1, <3>4, <3>5, <3>6 DEF Undone, FollowedOn, Tracked
    <3> QED BY <1>1, <2>1, <3>4, <3>7 DEF FollowedOn, Tracked, Ends
  <2> QED BY <2>4, <2>5 DEF Quoted, Followed
<1> QED
  BY <1>1, <1>4, <1>5

LEMMA QuotedRead ==
  ASSUME Typed, Known, Quoted, ReadMessage
  PROVE  Quoted'
<1>1. PICK m \in Messages :
        /\ Range(toTrader) = {m} \cup Range(toTrader')
        /\ DOMAIN orders' = DOMAIN orders
        /\ \A x \in DOMAIN orders : orders'[x] = AfterMessage(orders[x], x, m)
        /\ UNCHANGED <<strategyVars, nextId, sending, account, pnl, connected,
                       toExchange, exchangeVars>>
  BY ReadKinds
<1>2. UNCHANGED <<strategy, stopped, quote, sending, toExchange, working, incoming>>
  BY <1>1 DEF strategyVars, exchangeVars
<1>3. \A x, s : (Item(x, s)' <=> Item(x, s)) /\ (Believes(x, s)' <=> Believes(x, s))
  BY <1>2 DEF Item, Waiting, Believes
<1>4. OneItem' /\ \A s : Busy(s)' <=> Busy(s)
  BY <1>2, <1>3 DEF Quoted, OneItem, Busy
<1>5. ASSUME NEW s \in Sides, NEW id, FollowedOn(id, s)
      PROVE  FollowedOn(id, s)'
  <2>1. id \in DOMAIN orders /\ orders[id] \in ClientOrders /\ ~Ends(m, id, orders)
    BY <1>1, <1>5 DEF FollowedOn, Tracked, Typed, OmsTyped
  <2>2. PICK h : h = AfterMessage(orders[id], id, m)
    OBVIOUS
  <2>3. /\ h.side = orders[id].side
        /\ orders[id].state # "PendingNew" => h.state # "PendingNew"
        /\ IsTerminal(h.state) => IsTerminal(orders[id].state) \/ Ends(m, id, orders)
    BY <2>1, <2>2, AfterMessageIs
  <2>4. orders'[id] = h
    BY <1>1, <2>1, <2>2
  <2> QED BY <1>1, <1>2, <1>5, <2>1, <2>3, <2>4 DEF FollowedOn, Tracked, Ends
<1> QED
  BY <1>2, <1>3, <1>4, <1>5 DEF Quoted, Followed

\* A step of the exchange keeps the beliefs if every order it ends is either
\* replaced or the last one of its side.
LEMMA FollowedExchange ==
  ASSUME Followed, UNCHANGED <<strategy, stopped, quote, sending, orders>>,
         Range(toExchange') \subseteq Range(toExchange),
         \A side \in Sides : Busy(side)' => Busy(side),
         \A r \in Range(toTrader'), id \in DOMAIN orders :
           Ends(r, id, orders) =>
             \/ r \in Range(toTrader)
             \/ \E m \in Range(toExchange) : m.type = "ReplaceOrder" /\ m.id = id
             \/ ~Busy(orders[id].side)'
  PROVE  Followed'
<1>1. SUFFICES ASSUME strategy # "Momentum", ~stopped, NEW side \in Sides, Busy(side)',
                      NEW id, Believes(id, side)'
               PROVE  FollowedOn(id, side)'
  BY DEF Followed
<1>2. FollowedOn(id, side)
  BY <1>1 DEF Followed, Believes
<1>3. \A r \in Range(toTrader') : ~Ends(r, id, orders)
  BY <1>1, <1>2 DEF FollowedOn, Tracked
<1> QED
  BY <1>2, <1>3 DEF FollowedOn, Tracked

LEMMA QuotedProcess ==
  ASSUME Typed, Known, Quoted, ProcessRequest
  PROVE  Quoted'
<1>1. PICK m \in Requests :
        /\ Handles(m)
        /\ Refuses(m) \/ Admits(m) \/ Removes(m) \/ Amends(m) \/ Requeues(m)
  BY ProcessKinds
<1>2. /\ UNCHANGED <<strategy, stopped, quote, sending, orders>> /\ Range(incoming) = {}
  BY <1>1, HandledRequest DEF TraderStays, omsVars, strategyVars
<1>3. /\ Range(toExchange) = {m} \cup Range(toExchange')
      /\ Range(toExchange') \subseteq Range(toExchange)
  BY <1>1, HandledRequest
<1>4. /\ m \in Waiting /\ AsRegistered(m) /\ (Introduces(m) => Unanswered(m))
      /\ \A q \in Waiting' : q.type = "NewOrder" => q.id # m.id
      /\ Waiting = Waiting' \cup {m}
  <2>1. \A q \in Waiting' : Introduces(q) => NewId(q) # m.id
    BY <1>1, HandledApart
  <2> QED BY <1>1, <1>2, <1>3, <2>1, HandledApart DEF Introduces, NewId, Waiting
<1>5. SUFFICES ASSUME strategy # "Momentum" PROVE Quoted'
  BY <1>2 DEF Quoted, OneItem, Followed
<1>6. \A side \in Sides : \A x, y : Item(x, side) /\ Item(y, side) => x = y
  BY <1>5 DEF Quoted, OneItem
<1>7. CASE Refuses(m)
  <2>1. UNCHANGED <<working, incoming>>
    BY <1>1, <1>7, RefusesIs
  <2>2. PICK r \in Messages : r = [type |-> "Rejected", id |-> m.id] /\ Report(<<r>>)
    BY <1>1, <1>7, RefusesIs
  <2>3. Range(toTrader') \subseteq Range(toTrader) \cup {r}
    BY <2>2, ReportedOne
  <2>4. r.type = "Rejected" /\ r.id = m.id
    BY <2>2
  <2>5. \A x : \A s \in Sides : Item(x, s)' => Item(x, s)
    BY <1>4, <2>1 DEF Item
  <2>6. OneItem' /\ \A s \in Sides : Busy(s)' => Busy(s)
    BY <1>2, <1>6, <2>5 DEF OneItem, Busy
  <2>7. ASSUME NEW id \in DOMAIN orders, Ends(r, id, orders) PROVE ~Busy(orders[id].side)'
    <3>1. id = m.id /\ orders[id].state = "PendingNew"
      BY <2>4, <2>7 DEF Ends
    <3>2. m.type = "NewOrder" /\ orders[id].side = m.side /\ m.side \in Sides
      BY <1>4, <3>1, SidesOfOrders DEF AsRegistered
    <3>3. Item(id, m.side)
      BY <1>4, <3>1, <3>2 DEF Item
    <3>4. ASSUME NEW x, Item(x, m.side)' PROVE FALSE
      <4>1. x = m.id
        BY <1>6, <2>5, <3>1, <3>2, <3>3, <3>4
      <4> QED BY <1>2, <1>4, <2>1, <3>2, <3>4, <4>1 DEF Item, Unanswered, Introduces, NewId
    <3> QED BY <1>2, <3>2, <3>4 DEF Busy
  <2>8. Followed'
    BY <1>2, <1>3, <2>3, <2>6, <2>7, FollowedExchange DEF Quoted
  <2> QED BY <2>6, <2>8 DEF Quoted
<1>8. CASE Admits(m)
  <2>1. PICK o \in Arrivals :
          /\ Range(incoming') = {o} /\ o.id = m.id /\ o.side = m.side
          /\ UNCHANGED working /\ m.type = "NewOrder"
    BY <1>1, <1>8, AdmitsIs
  <2>2. PICK r \in Messages : /\ r = [type |-> "Accepted", id |-> m.id, quantity |-> m.quantity]
                              /\ Report(<<r>>)
    BY <1>1, <1>8, AdmitsIs
  <2>3. Range(toTrader') \subseteq Range(toTrader) \cup {r}
    BY <2>2, ReportedOne
  <2>4. \A id : ~Ends(r, id, orders)
    <3>1. r.type = "Accepted"
      BY <2>2
    <3> QED BY <3>1 DEF Ends
  <2>5. \A x : \A s \in Sides : Item(x, s)' => Item(x, s)
    BY <1>4, <2>1 DEF Item
  <2>6. OneItem' /\ \A s \in Sides : Busy(s)' => Busy(s)
    BY <1>2, <1>6, <2>5 DEF OneItem, Busy
  <2>7. Followed'
    BY <1>2, <1>3, <2>3, <2>4, <2>6, FollowedExchange DEF Quoted
  <2> QED BY <2>6, <2>7 DEF Quoted
<1>9. CASE Removes(m)
  <2>1. /\ UNCHANGED incoming /\ DOMAIN working' = DOMAIN working \ {m.id}
        /\ \A x \in DOMAIN working' : working'[x] = working[x]
        /\ m.id \in DOMAIN working
    BY <1>1, <1>9, RemovesIs
  <2>2. PICK r \in Messages : r = [type |-> "Cancelled", id |-> m.id] /\ Report(<<r>>)
    BY <1>1, <1>9, RemovesIs
  <2>3. Range(toTrader') \subseteq Range(toTrader) \cup {r} /\ r.id = m.id
    BY <2>2, ReportedOne
  <2>4. \A x : \A s \in Sides : Item(x, s)' => Item(x, s)
    BY <1>4, <2>1 DEF Item
  <2>5. OneItem' /\ \A s \in Sides : Busy(s)' => Busy(s)
    BY <1>2, <1>6, <2>4 DEF OneItem, Busy
  <2>6. ASSUME NEW id \in DOMAIN orders, Ends(r, id, orders) PROVE ~Busy(orders[id].side)'
    <3>1. id = m.id
      BY <2>3, <2>6 DEF Ends
    <3>2. PICK s \in Sides : s = orders[id].side /\ s = working[m.id].side
      BY <2>1, <3>1, SidesOfOrders DEF Known, WorkingKnown
    <3>3. Item(m.id, s)
      BY <2>1, <3>2 DEF Item
    <3>4. ASSUME NEW x, Item(x, s)' PROVE FALSE
      <4>1. x = m.id
        BY <1>6, <2>4, <3>3, <3>4
      <4> QED BY <1>2, <1>4, <2>1, <3>4, <4>1 DEF Item
    <3> QED BY <1>2, <3>2, <3>4 DEF Busy
  <2>7. Followed'
    BY <1>2, <1>3, <2>3, <2>5, <2>6, FollowedExchange DEF Quoted
  <2> QED BY <2>5, <2>7 DEF Quoted
<1>10. ASSUME Exchanges(m), OneItem', \A s \in Sides : Busy(s)' => Busy(s)
       PROVE  Quoted'
  <2>1. PICK r \in Messages :
          /\ r = [type |-> "Replaced", id |-> m.id, new_id |-> m.new_id,
                  price |-> m.price, quantity |-> m.quantity]
          /\ Report(<<r>>)
    BY <1>1, <1>10, ExchangesIs
  <2>2. Range(toTrader') \subseteq Range(toTrader) \cup {r} /\ r.id = m.id
    BY <2>1, ReportedOne
  <2>3. \A id : Ends(r, id, orders) => id = m.id
    BY <2>2 DEF Ends
  <2>4. m.type = "ReplaceOrder" /\ m \in Range(toExchange)
    BY <1>3, <1>10 DEF Exchanges
  <2>5. Followed'
    BY <1>2, <1>3, <1>10, <2>2, <2>3, <2>4, FollowedExchange DEF Quoted
  <2> QED BY <1>10, <2>5 DEF Quoted
<1>11. CASE Amends(m)
  <2>1. Exchanges(m) /\ m.id \in DOMAIN working /\ m.type = "ReplaceOrder"
    BY <1>11 DEF Amends, Exchanges
  <2>2. /\ UNCHANGED incoming
        /\ DOMAIN working' = (DOMAIN working \ {m.id}) \cup {m.new_id}
        /\ \A x \in DOMAIN working' : x # m.new_id => working'[x] = working[x]
        /\ working'[m.new_id].side = working[m.id].side
    BY <1>1, <1>11, AmendsIs
  <2>3. \A x : \A s \in Sides :
          Item(x, s)' => \/ Item(x, s) /\ x # m.id
                         \/ x = m.new_id /\ s = working[m.id].side
    BY <1>2, <1>4, <2>1, <2>2 DEF Item
  <2>4. \A s \in Sides : s = working[m.id].side => Item(m.id, s)
    BY <2>1 DEF Item
  <2>5. OneItem' /\ \A s \in Sides : Busy(s)' => Busy(s)
    BY <1>2, <1>6, <2>3, <2>4 DEF OneItem, Busy
  <2> QED BY <1>10, <2>1, <2>5
<1>12. CASE Requeues(m)
  <2>1. Exchanges(m) /\ m.id \in DOMAIN working /\ m.type = "ReplaceOrder"
    BY <1>12 DEF Requeues, Exchanges
  <2>2. /\ DOMAIN working' = DOMAIN working \ {m.id}
        /\ \A x \in DOMAIN working' : working'[x] = working[x]
    BY <1>1, <1>12, RequeuesIs
  <2>3. PICK o \in Arrivals :
          Range(incoming') = {o} /\ o.id = m.new_id /\ o.side = working[m.id].side
    BY <1>1, <1>12, RequeuesIs
  <2>4. \A x : \A s \in Sides :
          Item(x, s)' => \/ Item(x, s) /\ x # m.id
                         \/ x = m.new_id /\ s = working[m.id].side
    BY <1>2, <1>4, <2>1, <2>2, <2>3 DEF Item
  <2>5. \A s \in Sides : s = working[m.id].side => Item(m.id, s)
    BY <2>1 DEF Item
  <2>6. OneItem' /\ \A s \in Sides : Busy(s)' => Busy(s)
    BY <1>2, <1>6, <2>4, <2>5 DEF OneItem, Busy
  <2> QED BY <1>10, <2>1, <2>6
<1> QED
  BY <1>1, <1>7, <1>8, <1>9, <1>11, <1>12

\* A trade keeps the beliefs if the orders it reports as filled are gone.
LEMMA QuotedTrade ==
  ASSUME Typed, Known, Quoted,
         UNCHANGED <<strategy, stopped, quote, sending, orders, toExchange>>,
         \A x : \A s \in Sides : Item(x, s)' => Item(x, s),
         \A r \in Range(toTrader') \ Range(toTrader) :
           /\ r.type = "TradeReport" /\ r.id \in DOMAIN orders
           /\ r.remaining = 0 => /\ Item(r.id, orders[r.id].side)
                                 /\ ~Item(r.id, orders[r.id].side)'
  PROVE  Quoted'
<1>1. SUFFICES ASSUME strategy # "Momentum" PROVE Quoted'
  BY DEF Quoted, OneItem, Followed
<1>2. \A side \in Sides : \A x, y : Item(x, side) /\ Item(y, side) => x = y
  BY <1>1 DEF Quoted, OneItem
<1>3. OneItem' /\ \A s \in Sides : Busy(s)' => Busy(s)
  BY <1>2 DEF OneItem, Busy
<1>4. ASSUME NEW r \in Range(toTrader'), r \notin Range(toTrader), NEW id \in DOMAIN orders,
             Ends(r, id, orders)
      PROVE  ~Busy(orders[id].side)'
  <2>1. r.id = id /\ r.remaining = 0
    BY <1>4 DEF Ends
  <2>2. PICK s \in Sides : s = orders[id].side
    BY SidesOfOrders
  <2>3. Item(id, s)
    BY <1>4, <2>1, <2>2
  <2>4. ~Item(id, orders[id].side)'
    BY <1>4, <2>1
  <2>5. ~Item(id, s)'
    BY <2>2, <2>4
  <2>6. ASSUME NEW x, Item(x, s)' PROVE FALSE
    BY <1>2, <2>3, <2>5, <2>6
  <2> QED BY <2>2, <2>6 DEF Busy
<1>5. Followed'
  BY <1>3, <1>4, FollowedExchange DEF Quoted
<1> QED
  BY <1>3, <1>5 DEF Quoted

LEMMA HeardIsNotWaiting ==
  ASSUME Known, NEW id, Heard(id)
  PROVE  \A m \in Waiting : m.type = "NewOrder" => m.id # id
  BY DEF Known, Fresh, Unanswered, Introduces, NewId, Heard

LEMMA QuotedTrades ==
  ASSUME Typed, Known, Quoted, OthersTrade \/ MatchOthers \/ MatchOwn \/ FinishRequest
  PROVE  Quoted'
<1>1. /\ UNCHANGED <<strategy, stopped, quote, sending, orders, toExchange>>
      /\ Waiting' = Waiting
  BY DEF OthersTrade, MatchOthers, MatchOwn, FinishRequest, strategyVars, omsVars, Waiting
<1>2. CASE OthersTrade
  <2>1. UNCHANGED incoming /\ Range(incoming) = {}
    BY <1>2, OthersTradeIs, Emptied
  <2>2. PICK id \in DOMAIN working, n \in Nat \ {0} :
          /\ n \in 1..working[id].remaining
          /\ working' = Taken(id, n)
          /\ TradeReport(id, working[id].price, n, working[id].remaining - n) \in Messages
          /\ Report(<<TradeReport(id, working[id].price, n, working[id].remaining - n)>>)
    BY <1>2, OthersTradeIs
  <2>3. PICK r \in Messages :
          r = TradeReport(id, working[id].price, n, working[id].remaining - n)
    BY <2>2
  <2>4. /\ r.id = id /\ r.type = "TradeReport" /\ Report(<<r>>)
        /\ r.remaining = working[id].remaining - n
    BY <2>2, <2>3 DEF TradeReport
  <2>5. Range(toTrader') \subseteq Range(toTrader) \cup {r}
    BY <2>4, ReportedOne
  <2>6. /\ DOMAIN working' \subseteq DOMAIN working
        /\ \A x \in DOMAIN working' : working'[x].side = working[x].side
        /\ id \in DOMAIN working' <=> n # working[id].remaining
    BY <2>2, TakenIs
  <2>7. \A x : \A s \in Sides : Item(x, s)' => Item(x, s)
    BY <1>1, <2>1, <2>6 DEF Item
  <2>8. id \in DOMAIN orders /\ working[id].side = orders[id].side /\ Heard(id)
    BY DEF Known, WorkingKnown, Heard
  <2>9. working[id].remaining \in Nat
    BY DEF Typed, ExchangeTyped, Resting
  <2>10. r.remaining = 0 => Item(id, orders[id].side) /\ ~Item(id, orders[id].side)'
    BY <1>1, <2>1, <2>4, <2>6, <2>8, <2>9, HeardIsNotWaiting DEF Item
  <2> QED BY <1>1, <2>4, <2>5, <2>7, <2>8, <2>10, QuotedTrade
<1>3. CASE MatchOthers
  <2>1. UNCHANGED working
    BY <1>3, MatchOthersIs
  <2>2. PICK o \in Arrivals, p \in Nat, n \in Nat \ {0} :
          /\ Range(incoming) = {o} /\ Shrinks(o, n) /\ n \in 1..o.remaining
          /\ TradeReport(o.id, p, n, o.remaining - n) \in Messages
          /\ Report(<<TradeReport(o.id, p, n, o.remaining - n)>>)
    BY <1>3, MatchOthersIs
  <2>3. PICK r \in Messages : r = TradeReport(o.id, p, n, o.remaining - n)
    BY <2>2
  <2>4. /\ r.id = o.id /\ r.type = "TradeReport" /\ Report(<<r>>)
        /\ r.remaining = o.remaining - n
    BY <2>2, <2>3 DEF TradeReport
  <2>5. Range(toTrader') \subseteq Range(toTrader) \cup {r}
    BY <2>4, ReportedOne
  <2>6. PICK x \in Arrivals :
          /\ Range(incoming') = {x} /\ x.id = o.id /\ x.side = o.side
          /\ x.remaining = o.remaining - n
    BY <2>2 DEF Shrinks
  <2>7. o.remaining > 0 /\ o.remaining \in Nat
    BY <2>2 DEF Arrivals
  <2>8. \A y : \A s \in Sides : Item(y, s)' => Item(y, s)
    BY <1>1, <2>1, <2>2, <2>6, <2>7 DEF Item
  <2>9. /\ o.id \in DOMAIN orders /\ o.side = orders[o.id].side /\ Heard(o.id)
        /\ o.id \notin DOMAIN working
    BY <2>2 DEF Known, IncomingKnown, Heard
  <2>10. r.remaining = 0 => Item(o.id, orders[o.id].side) /\ ~Item(o.id, orders[o.id].side)'
    BY <1>1, <2>1, <2>2, <2>4, <2>6, <2>7, <2>9, HeardIsNotWaiting DEF Item
  <2> QED BY <1>1, <2>4, <2>5, <2>8, <2>9, <2>10, QuotedTrade
<1>4. CASE MatchOwn
  <2>1. PICK o \in Arrivals, id \in DOMAIN working, n \in Nat \ {0} :
          /\ Range(incoming) = {o} /\ Shrinks(o, n) /\ n \in 1..working[id].remaining
          /\ n \in 1..o.remaining
          /\ working' = Taken(id, n) /\ BothLegs(o, id, n)
    BY <1>4, MatchOwnIs
  <2>2. PICK a \in Messages, b \in Messages :
          /\ Report(<<a, b>>)
          /\ {a, b} = {TradeReport(o.id, working[id].price, n, o.remaining - n),
                       TradeReport(id, working[id].price, n, working[id].remaining - n)}
    BY <2>1 DEF BothLegs
  <2>3. Range(toTrader') \subseteq Range(toTrader) \cup {a, b}
    <3>1. <<a, b>> \in Seq(Messages) /\ Range(<<a, b>>) = {a, b}
      BY Pair
    <3> QED BY <2>2, <3>1, Reported
  <2>4. \A r \in {a, b} :
          /\ r.type = "TradeReport"
          /\ \/ r.id = o.id /\ r.remaining = o.remaining - n
             \/ r.id = id /\ r.remaining = working[id].remaining - n
    BY <2>2 DEF TradeReport
  <2>5. /\ DOMAIN working' \subseteq DOMAIN working
        /\ \A x \in DOMAIN working' : working'[x].side = working[x].side
        /\ id \in DOMAIN working' <=> n # working[id].remaining
    BY <2>1, TakenIs
  <2>6. PICK x \in Arrivals :
          /\ Range(incoming') = {x} /\ x.id = o.id /\ x.side = o.side
          /\ x.remaining = o.remaining - n
    BY <2>1 DEF Shrinks
  <2>7. o.remaining > 0 /\ o.remaining \in Nat /\ working[id].remaining \in Nat
    BY <2>1 DEF Arrivals, Typed, ExchangeTyped, Resting
  <2>8. \A y : \A s \in Sides : Item(y, s)' => Item(y, s)
    BY <1>1, <2>1, <2>5, <2>6, <2>7 DEF Item
  <2>9. /\ o.id \in DOMAIN orders /\ o.side = orders[o.id].side /\ Heard(o.id)
        /\ o.id \notin DOMAIN working
        /\ id \in DOMAIN orders /\ working[id].side = orders[id].side /\ Heard(id)
    BY <2>1 DEF Known, IncomingKnown, WorkingKnown, Heard
  <2>10. /\ \A m \in Waiting : m.type = "NewOrder" => m.id # id
         /\ \A m \in Waiting : m.type = "NewOrder" => m.id # o.id
    BY <2>9, HeardIsNotWaiting
  <2>11. o.remaining - n = 0 => Item(o.id, orders[o.id].side) /\ ~Item(o.id, orders[o.id].side)'
    BY <1>1, <2>1, <2>5, <2>6, <2>7, <2>9, <2>10 DEF Item
  <2>12. working[id].remaining - n = 0 => Item(id, orders[id].side) /\ ~Item(id, orders[id].side)'
    BY <1>1, <2>1, <2>5, <2>6, <2>7, <2>9, <2>10 DEF Item
  <2>13. ASSUME NEW r \in {a, b}
         PROVE  /\ r.id \in DOMAIN orders
                /\ r.remaining = 0 => /\ Item(r.id, orders[r.id].side)
                                      /\ ~Item(r.id, orders[r.id].side)'
    BY <1>1, <2>4, <2>9, <2>11, <2>12
  <2> QED BY <1>1, <2>3, <2>4, <2>8, <2>13, QuotedTrade
<1>5. CASE FinishRequest
  <2>1. UNCHANGED toTrader /\ Range(incoming') = {}
    BY <1>5, FinishIs
  <2>2. PICK o \in Arrivals :
          /\ Range(incoming) = {o}
          /\ \/ working' = working
             \/ /\ o.remaining > 0
                /\ DOMAIN working' = DOMAIN working \cup {o.id}
                /\ \A x \in DOMAIN working : x # o.id => working'[x] = working[x]
                /\ working'[o.id].side = o.side
    BY <1>5, FinishIs
  <2>3. \A y : \A s \in Sides : Item(y, s)' => Item(y, s)
    BY <1>1, <2>1, <2>2 DEF Item
  <2> QED BY <1>1, <2>1, <2>3, QuotedTrade
<1> QED
  BY <1>2, <1>3, <1>4, <1>5

LEMMA QuotedInit == Init => Quoted
<1> SUFFICES ASSUME Init PROVE Quoted
  OBVIOUS
<1>1. /\ Range(toExchange) = {} /\ Range(sending) = {}
      /\ Range(incoming) = {} /\ DOMAIN working = {}
  BY Emptied DEF Init
<1> QED
  BY <1>1 DEF Quoted, OneItem, Followed, Busy, Item, Waiting

LEMMA QuotedStep == Typed /\ Known /\ Sided /\ Quoted /\ [Next]_vars => Quoted'
<1> SUFFICES ASSUME Typed, Known, Sided, Quoted, [Next]_vars PROVE Quoted'
  OBVIOUS
<1>1. CASE UpdateQuote
  BY <1>1, QuotedUpdate
<1>2. CASE BeginCycle
  BY <1>2 DEF BeginCycle, Quoted, OneItem, Followed, FollowedOn, Believes, Tracked, Busy,
     Item, Waiting, omsVars, exchangeVars
<1>3. CASE BeginWithdraw \/ Withdraw
  <2>1. stopped' /\ strategy' = strategy /\ Asks
    <3>1. stopped' /\ strategy' = strategy
      <4>1. CASE BeginWithdraw
        BY <4>1, Zenon DEF BeginWithdraw
      <4>2. CASE Withdraw
        BY <4>2, Zenon DEF Withdraw
      <4> QED BY <1>3, <4>1, <4>2
    <3>2. Asks
      BY <1>3, StrategyThreadTyped
    <3> QED BY <3>1, <3>2
  <2>2. \A m \in Range(sending') : m.type # "NewOrder"
    <3>1. sending = << >> /\ (UNCHANGED sending \/ \E id : RequestCancel(id))
      BY <1>3 DEF BeginWithdraw, Withdraw
    <3>2. CASE UNCHANGED sending
      BY <3>1, <3>2, Emptied
    <3>3. ASSUME NEW id, RequestCancel(id) PROVE \A m \in Range(sending') : m.type # "NewOrder"
      <4>1. PICK m : m = [type |-> "CancelOrder", id |-> id]
        OBVIOUS
      <4>2. m.type = "CancelOrder" /\ Range(<<m>>) = {m}
        BY <4>1, Alone
      <4> QED BY <3>3, <4>1, <4>2 DEF RequestCancel
    <3> QED BY <3>1, <3>2, <3>3
  <2>3. UNCHANGED <<toExchange, working, incoming>> /\ Range(sending) = {}
    BY <2>1, AskedIs DEF Others, exchangeVars
  <2>4. \A x, s : Item(x, s)' => Item(x, s)
    BY <2>2, <2>3 DEF Item, Waiting
  <2> QED BY <2>1, <2>4 DEF Quoted, OneItem, Followed
<1>4. CASE MomentumOrder
  BY <1>4 DEF MomentumOrder, strategyVars, Quoted, OneItem, Followed
<1>5. CASE Send
  BY <1>5, QuotedSend
<1>6. CASE ReadMessage
  BY <1>6, QuotedRead
<1>7. CASE ProcessRequest
  BY <1>7, QuotedProcess
<1>8. CASE OthersTrade \/ MatchOthers \/ MatchOwn \/ FinishRequest
  BY <1>8, QuotedTrades
<1>9. CASE Disconnect
  <2>1. /\ UNCHANGED <<strategy, stopped, quote, orders, sending, working, incoming>>
        /\ Range(toExchange') \subseteq Range(toExchange)
        /\ Range(toTrader') \subseteq Range(toTrader)
    BY <1>9, DisconnectIs DEF strategyVars, omsVars, exchangeVars
  <2>2. \A x, s : Item(x, s)' => Item(x, s)
    BY <2>1 DEF Item, Waiting
  <2>3. OneItem' /\ \A s \in Sides : Busy(s)' => Busy(s)
    BY <2>1, <2>2 DEF Quoted, OneItem, Busy
  <2>4. Followed'
    BY <2>1, <2>3, FollowedExchange DEF Quoted
  <2> QED BY <2>3, <2>4 DEF Quoted
<1>10. CASE SettlePosition \/ SettlePnl \/ UNCHANGED vars
  <2>1. UNCHANGED <<strategyVars, orders, sending, toExchange, toTrader, working, incoming>>
    BY <1>10 DEF SettlePosition, SettlePnl, vars, omsVars, exchangeVars
  <2> QED BY <2>1 DEF Quoted, OneItem, Followed, FollowedOn, Believes, Tracked, Busy,
     Item, Waiting, strategyVars
<1> QED
  BY <1>1, <1>2, <1>3, <1>4, <1>5, <1>6, <1>7, <1>8, <1>9, <1>10 DEF Next

\* A set of which all elements are equal counts for one at most.
LEMMA AtMostOne ==
  ASSUME NEW S, \A x, y \in S : x = y
  PROVE  Cardinality(S) \in Nat /\ Cardinality(S) <= 1 /\ (S = {} => Cardinality(S) = 0)
<1>1. CASE S = {}
  BY <1>1, FS_EmptySet
<1>2. CASE S # {}
  <2>1. PICK x : S = {x}
    BY <1>2
  <2> QED BY <1>2, <2>1, FS_Singleton
<1> QED
  BY <1>1, <1>2

LEMMA OneItemCounts ==
  ASSUME Typed, Known, OneItem
  PROVE  OneOrderPerQuote
<1>1. SUFFICES ASSUME NEW side \in Sides, strategy # "Momentum"
               PROVE  LET NewOnSide(s) == {j \in DOMAIN s : s[j].type = "NewOrder" /\ s[j].side = side}
                      IN  Cardinality({id \in DOMAIN working : working[id].side = side})
                            + Cardinality({j \in DOMAIN incoming :
                                             incoming[j].side = side /\ incoming[j].remaining > 0})
                            + Cardinality(NewOnSide(toExchange))
                            + Cardinality(NewOnSide(sending)) <= 1
  BY DEF OneOrderPerQuote
<1> DEFINE A == {id \in DOMAIN working : working[id].side = side}
           B == {j \in DOMAIN incoming : incoming[j].side = side /\ incoming[j].remaining > 0}
           C == {j \in DOMAIN toExchange : toExchange[j].type = "NewOrder" /\ toExchange[j].side = side}
           D == {j \in DOMAIN sending : sending[j].type = "NewOrder" /\ sending[j].side = side}
<1>2. \A x, y : Item(x, side) /\ Item(y, side) => x = y
  BY <1>1 DEF OneItem
<1>3. /\ \A x \in A : Item(x, side)
      /\ \A j \in B : Item(incoming[j].id, side) /\ incoming[j] \in Range(incoming)
      /\ \A j \in C : Item(toExchange[j].id, side) /\ toExchange[j] \in Range(toExchange)
      /\ \A j \in D : Item(sending[j].id, side) /\ sending[j] \in Range(sending)
  BY DEF Item, Waiting, Range
<1>4. DOMAIN incoming \subseteq {1} /\ DOMAIN sending \subseteq {1}
  <2>1. /\ incoming \in Seq(Arrivals) /\ Len(incoming) <= 1
        /\ sending \in Seq(Requests) /\ Len(sending) <= 1
    BY DEF Typed, ExchangeTyped, WireTyped
  <2> QED BY <2>1
<1>5. \A i, j \in C : i = j
  <2>1. SUFFICES ASSUME NEW i \in C, NEW j \in C, i < j PROVE FALSE
    <3>1. toExchange \in Seq(Requests)
      BY DEF Typed, WireTyped
    <3>2. C \subseteq Nat
      BY <3>1
    <3> QED BY <3>2
  <2>2. toExchange[i].id < toExchange[j].id
    BY <2>1 DEF Known, Sequenced, InOrder, Introduces, NewId
  <2>3. toExchange[i].id = toExchange[j].id
    BY <1>2, <1>3
  <2>4. toExchange[j] \in Requests
    BY DEF Typed, WireTyped
  <2>5. toExchange[j].id \in Nat
    BY <2>4, RequestForm
  <2> QED BY <2>2, <2>3, <2>5
<1>6. \A x, y \in A : x = y
  BY <1>2, <1>3
<1>7. (\A x, y \in B : x = y) /\ (\A x, y \in D : x = y)
  BY <1>4
<1>8. \A j \in C : /\ \A x \in A : x # toExchange[j].id
                   /\ \A i \in B : incoming[i].id # toExchange[j].id
                   /\ \A i \in D : toExchange[j].id < sending[i].id
  BY <1>3 DEF Known, Fresh, Unanswered, Sequenced, Introduces, NewId, Waiting
<1>9. \A j \in D : /\ \A x \in A : x # sending[j].id
                   /\ \A i \in B : incoming[i].id # sending[j].id
  BY <1>3 DEF Known, Fresh, Unanswered, Introduces, NewId, Waiting
<1>10. \A j \in B : \A x \in A : x # incoming[j].id
  BY <1>3 DEF Known, IncomingKnown
<1>11. \A j \in D : sending[j].id \in Nat
  <2>1. \A j \in D : sending[j] \in Requests
    BY DEF Typed, WireTyped
  <2> QED BY <2>1, RequestForm
<1>12. /\ A # {} => B = {} /\ C = {} /\ D = {}
       /\ B # {} => C = {} /\ D = {}
       /\ C # {} => D = {}
  <2> HIDE DEF A, B, C, D
  <2>1. A # {} => B = {}
    BY <1>2, <1>3, <1>10
  <2>2. A # {} => C = {}
    BY <1>2, <1>3, <1>8
  <2>3. A # {} => D = {}
    BY <1>2, <1>3, <1>9
  <2>4. B # {} => C = {}
    BY <1>2, <1>3, <1>8
  <2>5. B # {} => D = {}
    BY <1>2, <1>3, <1>9
  <2>6. C # {} => D = {}
    <3>1. SUFFICES ASSUME NEW i \in C, NEW j \in D PROVE FALSE
      OBVIOUS
    <3>2. toExchange[i].id = sending[j].id /\ toExchange[i].id < sending[j].id
      BY <1>2, <1>3, <1>8
    <3> QED BY <1>11, <3>2
  <2> QED BY <2>1, <2>2, <2>3, <2>4, <2>5, <2>6
<1> HIDE DEF A, B, C, D
<1>13. Cardinality(A) \in Nat /\ Cardinality(A) <= 1 /\ (A = {} => Cardinality(A) = 0)
  BY <1>6, AtMostOne
<1>14. Cardinality(B) \in Nat /\ Cardinality(B) <= 1 /\ (B = {} => Cardinality(B) = 0)
  BY <1>7, AtMostOne
<1>15. Cardinality(C) \in Nat /\ Cardinality(C) <= 1 /\ (C = {} => Cardinality(C) = 0)
  BY <1>5, AtMostOne
<1>16. Cardinality(D) \in Nat /\ Cardinality(D) <= 1 /\ (D = {} => Cardinality(D) = 0)
  BY <1>7, AtMostOne
<1>17. Cardinality(A) + Cardinality(B) + Cardinality(C) + Cardinality(D) <= 1
  BY <1>12, <1>13, <1>14, <1>15, <1>16
<1> QED
  BY <1>17 DEF A, B, C, D
-----------------------------------------------------------------------------
(***************************************************************************)
(* Agreement: what the exchange has of an order is what the trader knows   *)
(* or what the last message about it on its way says.                      *)
(***************************************************************************)
Speaks(m, id) == m.type # "Rejected" /\ Mentions(m, id)

\* The message says that n of the order works, none if n is 0.
Says(m, id, n) ==
  IF n > 0 THEN \/ m.type = "Accepted" /\ m.id = id /\ m.quantity = n
                \/ m.type = "Replaced" /\ m.new_id = id /\ m.id # id /\ m.quantity = n
                \/ m.type = "TradeReport" /\ m.id = id /\ m.remaining = n
  ELSE /\ m.id = id
       /\ m.type \in {"Cancelled", "Replaced"} \/ (m.type = "TradeReport" /\ m.remaining = 0)

Knows(o, n) == IF n > 0 THEN IsLive(o.state) /\ o.remaining = n ELSE ~IsLive(o.state)

Told(s, o, id, n) ==
  \/ Knows(o, n) /\ \A j \in DOMAIN s : ~Speaks(s[j], id)
  \/ \E j \in DOMAIN s : /\ Says(s[j], id, n)
                         /\ \A k \in DOMAIN s : k > j => ~Speaks(s[k], id)

\* The exchange has n of the order.
Stands(id, n) ==
  \/ id \in DOMAIN working /\ n = working[id].remaining
  \/ \E o \in Range(incoming) : o.id = id /\ n = o.remaining
  \/ id \notin DOMAIN working /\ (\A o \in Range(incoming) : o.id # id) /\ n = 0

Agreed(id) == \A n : Stands(id, n) => Told(toTrader, orders[id], id, n)

Agreement ==
  connected => \A id \in DOMAIN orders : orders[id].time_in_force = "GTC" => Agreed(id)

LEMMA StandsTyped ==
  ASSUME Typed, NEW id, NEW n, Stands(id, n)
  PROVE  n \in Nat
<1>1. \A x \in DOMAIN working : working[x].remaining \in Nat
  BY DEF Typed, ExchangeTyped, Resting
<1>2. \A o \in Range(incoming) : o.remaining \in Nat
  <2>1. incoming \in Seq(Arrivals)
    BY DEF Typed, ExchangeTyped
  <2>2. Range(incoming) \subseteq Arrivals
    BY <2>1, RangeOfSeq
  <2> QED BY <2>2 DEF Arrivals
<1> QED
  BY <1>1, <1>2 DEF Stands

\* A message about another order changes nothing.
LEMMA ToldStill ==
  ASSUME NEW s \in Seq(Messages), NEW r \in Messages, NEW o, NEW id, NEW n,
         Told(s, o, id, n), ~Speaks(r, id)
  PROVE  Told(s \o <<r>>, o, id, n)
<1>1. PICK t : t = s \o <<r>>
  OBVIOUS
<1>2. /\ DOMAIN s = 1..Len(s) /\ Len(s) \in Nat /\ DOMAIN t = 1..(Len(s) + 1)
      /\ t[Len(s) + 1] = r /\ \A j \in DOMAIN s : t[j] = s[j]
  BY <1>1
<1>3. CASE Knows(o, n) /\ \A j \in DOMAIN s : ~Speaks(s[j], id)
  <2>1. \A j \in DOMAIN t : ~Speaks(t[j], id)
    BY <1>2, <1>3
  <2> QED BY <1>1, <1>3, <2>1 DEF Told
<1>4. ASSUME NEW j \in DOMAIN s, Says(s[j], id, n),
             \A k \in DOMAIN s : k > j => ~Speaks(s[k], id)
      PROVE  Told(s \o <<r>>, o, id, n)
  <2>1. j \in DOMAIN t /\ Says(t[j], id, n)
    BY <1>2, <1>4
  <2>2. \A k \in DOMAIN t : k > j => ~Speaks(t[k], id)
    BY <1>2, <1>4
  <2> QED BY <1>1, <2>1, <2>2 DEF Told
<1> QED
  BY <1>3, <1>4 DEF Told

\* The last message decides.
LEMMA ToldNow ==
  ASSUME NEW s \in Seq(Messages), NEW r \in Messages, NEW o, NEW id, NEW n, Says(r, id, n)
  PROVE  Told(s \o <<r>>, o, id, n)
<1>1. PICK t : t = s \o <<r>>
  OBVIOUS
<1>2. PICK j : j = Len(s) + 1
  OBVIOUS
<1>3. j \in DOMAIN t /\ t[j] = r /\ \A k \in DOMAIN t : ~(k > j)
  BY <1>1, <1>2
<1> QED
  BY <1>1, <1>3 DEF Told

\* What a message says is what the trader knows once it is handled.
LEMMA SaidIsKnown ==
  ASSUME NEW o \in ClientOrders, NEW m \in Messages, NEW id, NEW n \in Nat, Says(m, id, n),
         NEW h, h = AfterMessage(o, id, m)
  PROVE  Knows(h, n)
<1> USE DEF ClientOrders
<1>1. CASE m.type = "Accepted"
  <2>1. n > 0 /\ m.id = id /\ m.quantity = n
    BY <1>1 DEF Says
  <2>2. h.state = "Live" /\ h.remaining = n
    BY <1>1, <2>1 DEF AfterMessage, OnAccepted
  <2> QED BY <2>1, <2>2 DEF Knows, IsLive
<1>2. CASE m.type = "Replaced" /\ n > 0
  <2>1. m.new_id = id /\ m.id # id /\ m.quantity = n
    BY <1>2 DEF Says
  <2>2. h.state = "Live" /\ h.remaining = n
    BY <1>2, <2>1 DEF AfterMessage
  <2> QED BY <1>2, <2>2 DEF Knows, IsLive
<1>3. CASE m.type = "Replaced" /\ ~(n > 0)
  <2>1. m.id = id
    BY <1>3 DEF Says
  <2>2. h.state = "Replaced"
    BY <1>3, <2>1 DEF AfterMessage
  <2> QED BY <1>3, <2>2 DEF Knows, IsLive
<1>4. CASE m.type = "Cancelled"
  <2>1. m.id = id /\ ~(n > 0)
    BY <1>4 DEF Says
  <2>2. h.state = "Cancelled"
    BY <1>4, <2>1 DEF AfterMessage, OnCancelled
  <2> QED BY <2>1, <2>2 DEF Knows, IsLive
<1>5. CASE m.type = "TradeReport"
  <2>1. m.id = id /\ m.remaining = n
    BY <1>5 DEF Says
  <2>2. h.remaining = n /\ h.state = IF n = 0 THEN "Filled" ELSE "PartiallyFilled"
    BY <1>5, <2>1 DEF AfterMessage, OnTradeReport
  <2> QED BY <2>2 DEF Knows, IsLive
<1> QED
  BY <1>1, <1>2, <1>3, <1>4, <1>5 DEF Says

LEMMA ToldAfterReading ==
  ASSUME NEW s \in Seq(Messages), s # << >>, NEW o \in ClientOrders, NEW id, NEW n \in Nat,
         Told(s, o, id, n), NEW h, h = AfterMessage(o, id, Head(s))
  PROVE  Told(Tail(s), h, id, n)
<1>1. PICK m \in Messages, t \in Seq(Messages) :
        /\ m = Head(s) /\ t = Tail(s) /\ m = s[1] /\ 1 \in DOMAIN s
        /\ \A j \in DOMAIN t : j + 1 \in DOMAIN s /\ t[j] = s[j + 1]
        /\ \A j \in DOMAIN s : j = 1 \/ (j - 1 \in DOMAIN t /\ t[j - 1] = s[j])
  <2>1. /\ Head(s) \in Messages /\ Head(s) = s[1] /\ 1 \in DOMAIN s
        /\ Tail(s) \in Seq(Messages)
        /\ \A j \in DOMAIN Tail(s) : j + 1 \in DOMAIN s /\ Tail(s)[j] = s[j + 1]
        /\ \A j \in DOMAIN s : j = 1 \/ (j - 1 \in DOMAIN Tail(s) /\ Tail(s)[j - 1] = s[j])
    BY Beheaded
  <2> QED BY <2>1, Zenon
<1>2. DOMAIN t \subseteq Nat \ {0} /\ DOMAIN s \subseteq Nat \ {0}
  OBVIOUS
<1>3. CASE Knows(o, n) /\ \A j \in DOMAIN s : ~Speaks(s[j], id)
  <2>1. \A j \in DOMAIN t : ~Speaks(t[j], id)
    BY <1>1, <1>3
  <2>2. ~Speaks(m, id)
    BY <1>1, <1>3
  <2>3. h = AfterMessage(o, id, m)
    BY <1>1
  <2>4. Knows(h, n)
    <3>1. CASE ~Mentions(m, id)
      <4>1. PICK table : table = [x \in {id} |-> o]
        OBVIOUS
      <4>2. o = table[id]
        BY <4>1
      <4>3. h = o
        BY <2>3, <3>1, <4>2, AfterMessageIs
      <4> QED BY <1>3, <4>3
    <3>2. CASE m.type = "Rejected"
      <4>1. PICK table : table = [x \in {id} |-> o]
        OBVIOUS
      <4>2. o = table[id]
        BY <4>1
      <4>3. /\ h.remaining = o.remaining
            /\ h.state = o.state \/ (o.state = "PendingNew" /\ h.state = "Rejected")
        BY <2>3, <3>2, <4>2, AfterMessageIs
      <4> QED BY <1>3, <4>3 DEF Knows, IsLive
    <3> QED BY <2>2, <3>1, <3>2 DEF Speaks
  <2> QED BY <1>1, <2>1, <2>4 DEF Told
<1>4. ASSUME NEW j \in DOMAIN s, Says(s[j], id, n),
             \A k \in DOMAIN s : k > j => ~Speaks(s[k], id)
      PROVE  Told(Tail(s), h, id, n)
  <2>1. CASE j = 1
    <3>1. \A k \in DOMAIN t : ~Speaks(t[k], id)
      BY <1>1, <1>2, <1>4, <2>1
    <3>2. Knows(h, n)
      BY <1>1, <1>4, <2>1, SaidIsKnown
    <3> QED BY <1>1, <3>1, <3>2 DEF Told
  <2>2. CASE j # 1
    <3>1. PICK i : i = j - 1
      OBVIOUS
    <3>2. i \in DOMAIN t /\ t[i] = s[j] /\ j = i + 1
      BY <1>1, <1>2, <1>4, <2>2, <3>1
    <3>3. \A k \in DOMAIN t : k > i => ~Speaks(t[k], id)
      BY <1>1, <1>2, <1>4, <3>2
    <3> QED BY <1>1, <1>4, <3>2, <3>3 DEF Told
  <2> QED BY <2>1, <2>2
<1> QED
  BY <1>3, <1>4 DEF Told

\* A step that reports r and touches no order it does not speak of.
LEMMA AgreementReports ==
  ASSUME Typed, Agreement, connected, UNCHANGED <<orders, connected>>,
         NEW r \in Messages, Report(<<r>>),
         \A id \in DOMAIN orders : orders[id].time_in_force = "GTC" =>
           \A n : Stands(id, n)' => Says(r, id, n) \/ (~Speaks(r, id) /\ Stands(id, n))
  PROVE  Agreement'
<1>1. toTrader' = toTrader \o <<r>> /\ toTrader \in Seq(Messages)
  BY ReportedOne DEF Typed, WireTyped
<1>2. ASSUME NEW id \in DOMAIN orders, orders[id].time_in_force = "GTC", NEW n, Stands(id, n)'
      PROVE  Told(toTrader', orders[id], id, n)
  <2>1. CASE Says(r, id, n)
    BY <1>1, <2>1, ToldNow
  <2>2. CASE ~Speaks(r, id) /\ Stands(id, n)
    <3>1. Told(toTrader, orders[id], id, n)
      BY <1>2, <2>2 DEF Agreement, Agreed
    <3> QED BY <1>1, <2>2, <3>1, ToldStill
  <2> QED BY <1>2, <2>1, <2>2
<1> QED
  BY <1>2 DEF Agreement, Agreed

LEMMA AgreementAsks ==
  ASSUME Typed, Known, Agreement, Asks
  PROVE  Agreement'
<1>1. /\ UNCHANGED <<connected, toTrader, working, incoming>>
      /\ \A x \in DOMAIN orders : SameOrder(x)
      /\ DOMAIN orders' \subseteq DOMAIN orders \cup {nextId}
      /\ nextId \in DOMAIN orders' => orders'[nextId].state = "PendingNew"
  <2>1. /\ UNCHANGED Others
        /\ \A x \in DOMAIN orders : SameOrder(x)
        /\ \/ AsksNothing
           \/ \E m \in Requests : AskedFor(m)
    BY AskedIs
  <2>2. nextId \notin DOMAIN orders
    BY NextIdIs
  <2>3. CASE AsksNothing
    BY <2>1, <2>2, <2>3 DEF AsksNothing, Others, exchangeVars
  <2>4. CASE \E m \in Requests : AskedFor(m)
    BY <2>1, <2>2, <2>4 DEF AskedFor, Others, exchangeVars
  <2> QED BY <2>1, <2>3, <2>4
<1>2. SUFFICES ASSUME connected, NEW id \in DOMAIN orders', orders'[id].time_in_force = "GTC",
                      NEW n, Stands(id, n)
               PROVE  Told(toTrader, orders'[id], id, n)
  BY <1>1 DEF Agreement, Agreed, Stands
<1>3. CASE id \in DOMAIN orders
  <2>1. Told(toTrader, orders[id], id, n)
    BY <1>1, <1>2, <1>3 DEF Agreement, Agreed, SameOrder
  <2> QED BY <1>1, <1>3, <2>1 DEF Told, Knows, SameOrder
<1>4. CASE id \notin DOMAIN orders
  <2>1. orders'[id].state = "PendingNew"
    BY <1>1, <1>4
  <2>2. ~Heard(id)
    BY <1>4 DEF Known, WorkingKnown, IncomingKnown, MessagesKnown, MessageKnown, Heard, Mentions
  <2>3. n = 0
    BY <1>2, <2>2 DEF Stands, Heard
  <2>4. \A j \in DOMAIN toTrader : ~Speaks(toTrader[j], id)
    BY <2>2 DEF Heard, Speaks, Range
  <2> QED BY <2>1, <2>3, <2>4 DEF Told, Knows, IsLive
<1> QED
  BY <1>3, <1>4

LEMMA AgreementRead ==
  ASSUME Typed, Agreement, ReadMessage
  PROVE  Agreement'
<1>1. PICK m \in Messages :
        /\ toTrader # << >> /\ m = Head(toTrader) /\ toTrader' = Tail(toTrader)
        /\ DOMAIN orders' = DOMAIN orders
        /\ \A x \in DOMAIN orders : orders'[x] = AfterMessage(orders[x], x, m)
        /\ UNCHANGED <<strategyVars, nextId, sending, account, pnl, connected,
                       toExchange, exchangeVars>>
  BY ReadKinds
<1>2. UNCHANGED <<connected, working, incoming>> /\ toTrader \in Seq(Messages)
  BY <1>1 DEF exchangeVars, Typed, WireTyped
<1>3. SUFFICES ASSUME connected, NEW id \in DOMAIN orders, orders'[id].time_in_force = "GTC",
                      NEW n, Stands(id, n)
               PROVE  Told(Tail(toTrader), orders'[id], id, n)
  BY <1>1, <1>2 DEF Agreement, Agreed, Stands
<1>4. orders[id] \in ClientOrders /\ n \in Nat
  BY <1>3, StandsTyped DEF Typed, OmsTyped
<1>5. PICK h : h = AfterMessage(orders[id], id, m)
  OBVIOUS
<1>6. orders'[id] = h
  BY <1>1, <1>5
<1>7. orders[id].time_in_force = "GTC"
  BY <1>3, <1>4, <1>5, <1>6, AfterMessageIs
<1>8. Told(toTrader, orders[id], id, n)
  BY <1>3, <1>7 DEF Agreement, Agreed
<1>9. Told(Tail(toTrader), h, id, n)
  BY <1>1, <1>2, <1>4, <1>5, <1>8, ToldAfterReading
<1> QED
  BY <1>6, <1>9

LEMMA AgreementProcess ==
  ASSUME Typed, Known, Agreement, ProcessRequest
  PROVE  Agreement'
<1>1. PICK m \in Requests :
        /\ Handles(m)
        /\ Refuses(m) \/ Admits(m) \/ Removes(m) \/ Amends(m) \/ Requeues(m)
  BY ProcessKinds
<1>2. UNCHANGED <<orders, connected>> /\ Range(incoming) = {}
  BY <1>1, HandledRequest DEF TraderStays, omsVars
<1>3. SUFFICES ASSUME connected PROVE Agreement'
  BY <1>2 DEF Agreement
<1>4. /\ AsRegistered(m) /\ (Introduces(m) => Unanswered(m))
  BY <1>1, HandledApart
<1>5. CASE Refuses(m)
  <2>1. UNCHANGED <<working, incoming>>
    BY <1>1, <1>5, RefusesIs
  <2>2. PICK r \in Messages : r = [type |-> "Rejected", id |-> m.id] /\ Report(<<r>>)
    BY <1>1, <1>5, RefusesIs
  <2>3. r.type = "Rejected"
    BY <2>2
  <2>4. \A id, n : Stands(id, n)' => ~Speaks(r, id) /\ Stands(id, n)
    BY <2>1, <2>3 DEF Stands, Speaks
  <2> QED BY <1>2, <1>3, <2>2, <2>4, AgreementReports
<1>6. CASE Admits(m)
  <2>1. PICK o \in Arrivals :
          /\ Range(incoming') = {o} /\ o.id = m.id /\ o.remaining = m.quantity
          /\ UNCHANGED working /\ m.type = "NewOrder"
    BY <1>1, <1>6, AdmitsIs
  <2>2. PICK r \in Messages : /\ r = [type |-> "Accepted", id |-> m.id, quantity |-> m.quantity]
                              /\ Report(<<r>>)
    BY <1>1, <1>6, AdmitsIs
  <2>3. r.type = "Accepted" /\ r.id = m.id /\ r.quantity = m.quantity /\ m.quantity > 0
    <3>1. r.type = "Accepted" /\ r.id = m.id /\ r.quantity = m.quantity
      BY <2>2
    <3>2. m.quantity \in Quantities
      BY <2>1, RequestForm
    <3>3. m.quantity \in Nat \ {0}
      BY <3>2, QuantitiesAre, Zenon
    <3>4. m.quantity > 0
      BY <3>3
    <3> QED BY <3>1, <3>4
  <2>4. m.id \notin DOMAIN working
    BY <1>4, <2>1 DEF Unanswered, Introduces, NewId
  <2>5. ASSUME NEW id, NEW n, Stands(id, n)'
        PROVE  Says(r, id, n) \/ (~Speaks(r, id) /\ Stands(id, n))
    <3>1. CASE id = m.id
      <4>1. n = m.quantity
        BY <2>1, <2>4, <2>5, <3>1 DEF Stands
      <4> QED BY <2>3, <3>1, <4>1 DEF Says
    <3>2. CASE id # m.id
      BY <1>2, <2>1, <2>3, <2>5, <3>2 DEF Stands, Speaks, Mentions
    <3> QED BY <3>1, <3>2
  <2> QED BY <1>2, <1>3, <2>2, <2>5, AgreementReports
<1>7. CASE Removes(m)
  <2>1. /\ UNCHANGED incoming /\ DOMAIN working' = DOMAIN working \ {m.id}
        /\ \A x \in DOMAIN working' : working'[x] = working[x]
    BY <1>1, <1>7, RemovesIs
  <2>2. PICK r \in Messages : r = [type |-> "Cancelled", id |-> m.id] /\ Report(<<r>>)
    BY <1>1, <1>7, RemovesIs
  <2>3. r.type = "Cancelled" /\ r.id = m.id
    BY <2>2
  <2>4. ASSUME NEW id, NEW n, Stands(id, n)'
        PROVE  Says(r, id, n) \/ (~Speaks(r, id) /\ Stands(id, n))
    <3>1. CASE id = m.id
      <4>1. n = 0
        BY <1>2, <2>1, <2>4, <3>1 DEF Stands
      <4> QED BY <2>3, <3>1, <4>1 DEF Says
    <3>2. CASE id # m.id
      BY <1>2, <2>1, <2>3, <2>4, <3>2 DEF Stands, Speaks, Mentions
    <3> QED BY <3>1, <3>2
  <2> QED BY <1>2, <1>3, <2>2, <2>4, AgreementReports
<1>8. ASSUME Exchanges(m),
             \A id, n : Stands(id, n)' =>
               \/ id = m.id /\ n = 0
               \/ id = m.new_id /\ n = m.quantity
               \/ id # m.id /\ id # m.new_id /\ Stands(id, n)
      PROVE  Agreement'
  <2>1. PICK r \in Messages :
          /\ r = [type |-> "Replaced", id |-> m.id, new_id |-> m.new_id,
                  price |-> m.price, quantity |-> m.quantity]
          /\ Report(<<r>>)
    BY <1>1, <1>8, ExchangesIs
  <2>2. /\ r.type = "Replaced" /\ r.id = m.id /\ r.new_id = m.new_id /\ r.quantity = m.quantity
        /\ m.quantity \in Nat \ {0}
    BY <1>1, <1>8, <2>1, ExchangesIs
  <2>3. m.id # m.new_id
    BY <1>4, <1>8 DEF Exchanges, AsRegistered, Unanswered, Introduces, NewId
  <2>4. ASSUME NEW id, NEW n, Stands(id, n)'
        PROVE  Says(r, id, n) \/ (~Speaks(r, id) /\ Stands(id, n))
    <3>1. CASE id = m.id /\ n = 0
      BY <2>2, <3>1 DEF Says
    <3>2. CASE id = m.new_id /\ n = m.quantity
      BY <2>2, <2>3, <3>2 DEF Says
    <3>3. CASE id # m.id /\ id # m.new_id /\ Stands(id, n)
      BY <2>2, <3>3 DEF Speaks, Mentions
    <3> QED BY <1>8, <2>4, <3>1, <3>2, <3>3
  <2> QED BY <1>2, <1>3, <2>1, <2>4, AgreementReports
<1>9. CASE Amends(m)
  <2>1. Exchanges(m) /\ m.type = "ReplaceOrder"
    BY <1>9 DEF Amends, Exchanges
  <2>2. m.id # m.new_id
    BY <1>4, <2>1 DEF AsRegistered, Unanswered, Introduces, NewId
  <2>3. /\ UNCHANGED incoming
        /\ DOMAIN working' = (DOMAIN working \ {m.id}) \cup {m.new_id}
        /\ \A x \in DOMAIN working' : x # m.new_id => working'[x] = working[x]
        /\ working'[m.new_id].remaining = m.quantity
    BY <1>1, <1>9, AmendsIs
  <2>4. \A id, n : Stands(id, n)' =>
               \/ id = m.id /\ n = 0
               \/ id = m.new_id /\ n = m.quantity
               \/ id # m.id /\ id # m.new_id /\ Stands(id, n)
    BY <1>2, <2>2, <2>3 DEF Stands
  <2> QED BY <1>8, <2>1, <2>4
<1>10. CASE Requeues(m)
  <2>1. Exchanges(m) /\ m.type = "ReplaceOrder"
    BY <1>10 DEF Requeues, Exchanges
  <2>2. m.id # m.new_id /\ m.new_id \notin DOMAIN working
    BY <1>4, <2>1 DEF AsRegistered, Unanswered, Introduces, NewId
  <2>3. /\ DOMAIN working' = DOMAIN working \ {m.id}
        /\ \A x \in DOMAIN working' : working'[x] = working[x]
    BY <1>1, <1>10, RequeuesIs
  <2>4. PICK o \in Arrivals :
          Range(incoming') = {o} /\ o.id = m.new_id /\ o.remaining = m.quantity
    BY <1>1, <1>10, RequeuesIs
  <2>5. \A id, n : Stands(id, n)' =>
               \/ id = m.id /\ n = 0
               \/ id = m.new_id /\ n = m.quantity
               \/ id # m.id /\ id # m.new_id /\ Stands(id, n)
    BY <1>2, <2>2, <2>3, <2>4 DEF Stands
  <2> QED BY <1>8, <2>1, <2>5
<1> QED
  BY <1>1, <1>5, <1>6, <1>7, <1>9, <1>10

LEMMA AppendBoth ==
  ASSUME NEW S, NEW s \in Seq(S), NEW a \in S, NEW b \in S
  PROVE  s \o <<a, b>> = (s \o <<a>>) \o <<b>> /\ s \o <<a>> \in Seq(S)
<1>1. PICK p, x, y : p = <<a, b>> /\ x = <<a>> /\ y = <<b>>
  OBVIOUS
<1>2. /\ p \in Seq(S) /\ Len(p) = 2 /\ p[1] = a /\ p[2] = b
      /\ x \in Seq(S) /\ Len(x) = 1 /\ x[1] = a
      /\ y \in Seq(S) /\ Len(y) = 1 /\ y[1] = b
  BY <1>1, Pair, Alone
<1>3. PICK t \in Seq(S) : t = s \o x /\ Len(t) = Len(s) + 1
  <2>1. s \o x \in Seq(S) /\ Len(s \o x) = Len(s) + Len(x)
    <3>1. s \in Seq(S) /\ x \in Seq(S)
      BY <1>2
    <3> QED BY <3>1, Joined, Zenon
  <2>2. Len(s \o x) = Len(s) + 1
    BY <1>2, <2>1
  <2> QED BY <2>1, <2>2, Zenon
<1>4. \A i \in 1..Len(t) : t[i] = IF i <= Len(s) THEN s[i] ELSE a
  BY <1>2, <1>3
<1>5. PICK v \in Seq(S) : v = t \o y /\ Len(v) = Len(s) + 2
  <2>1. t \o y \in Seq(S) /\ Len(t \o y) = Len(t) + Len(y)
    BY <1>2, <1>3, Joined
  <2>2. Len(t \o y) = Len(s) + 2
    BY <1>2, <1>3, <2>1
  <2> QED BY <2>1, <2>2, Zenon
<1>6. \A i \in 1..Len(v) : v[i] = IF i <= Len(t) THEN t[i] ELSE b
  BY <1>2, <1>3, <1>5
<1>7. PICK u \in Seq(S) : u = s \o p /\ Len(u) = Len(s) + 2
  <2>1. s \o p \in Seq(S) /\ Len(s \o p) = Len(s) + Len(p)
    <3>1. s \in Seq(S) /\ p \in Seq(S)
      BY <1>2
    <3> QED BY <3>1, Joined, Zenon
  <2>2. Len(s \o p) = Len(s) + 2
    BY <1>2, <2>1
  <2> QED BY <2>1, <2>2, Zenon
<1>8. \A i \in 1..Len(u) :
        u[i] = IF i <= Len(s) THEN s[i] ELSE IF i = Len(s) + 1 THEN a ELSE b
  BY <1>2, <1>7
<1>9. u = v
  BY <1>3, <1>4, <1>5, <1>6, <1>7, <1>8, SeqEqual
<1> QED
  BY <1>1, <1>3, <1>5, <1>7, <1>9

LEMMA AgreementTrades ==
  ASSUME Typed, Known, Agreement, OthersTrade \/ MatchOthers \/ MatchOwn \/ FinishRequest
  PROVE  Agreement'
<1>1. UNCHANGED <<orders, connected>>
  BY DEF OthersTrade, MatchOthers, MatchOwn, FinishRequest, omsVars
<1>2. SUFFICES ASSUME connected PROVE Agreement'
  BY <1>1 DEF Agreement
<1>3. CASE OthersTrade
  <2>1. UNCHANGED incoming /\ Range(incoming) = {}
    BY <1>3, OthersTradeIs, Emptied
  <2>2. PICK id \in DOMAIN working, n \in Nat \ {0} :
          /\ n \in 1..working[id].remaining
          /\ working' = Taken(id, n)
          /\ working[id].remaining - n \in Nat
          /\ TradeReport(id, working[id].price, n, working[id].remaining - n) \in Messages
          /\ Report(<<TradeReport(id, working[id].price, n, working[id].remaining - n)>>)
    BY <1>3, OthersTradeIs
  <2>3. PICK r \in Messages :
          r = TradeReport(id, working[id].price, n, working[id].remaining - n)
    BY <2>2
  <2>4. /\ r.id = id /\ r.type = "TradeReport" /\ Report(<<r>>)
        /\ r.remaining = working[id].remaining - n
    BY <2>2, <2>3 DEF TradeReport
  <2>5. /\ DOMAIN working' \subseteq DOMAIN working
        /\ DOMAIN working \ {id} \subseteq DOMAIN working'
        /\ \A x \in DOMAIN working' : x # id => working'[x] = working[x]
        /\ id \in DOMAIN working' => working'[id].remaining = working[id].remaining - n
        /\ id \in DOMAIN working' <=> n # working[id].remaining
    BY <2>2, TakenIs
  <2>6. ASSUME NEW x, NEW k, Stands(x, k)'
        PROVE  Says(r, x, k) \/ (~Speaks(r, x) /\ Stands(x, k))
    <3>1. CASE x = id
      <4>1. k = r.remaining
        BY <2>1, <2>2, <2>4, <2>5, <2>6, <3>1 DEF Stands
      <4> QED BY <2>2, <2>4, <3>1, <4>1 DEF Says
    <3>2. CASE x # id
      BY <2>1, <2>4, <2>5, <2>6, <3>2 DEF Stands, Speaks, Mentions
    <3> QED BY <3>1, <3>2
  <2> QED BY <1>1, <1>2, <2>4, <2>6, AgreementReports
<1>4. CASE MatchOthers
  <2>1. UNCHANGED working
    BY <1>4, MatchOthersIs
  <2>2. PICK o \in Arrivals, p \in Nat, n \in Nat \ {0} :
          /\ Range(incoming) = {o} /\ Shrinks(o, n)
          /\ o.remaining - n \in Nat
          /\ TradeReport(o.id, p, n, o.remaining - n) \in Messages
          /\ Report(<<TradeReport(o.id, p, n, o.remaining - n)>>)
    BY <1>4, MatchOthersIs
  <2>3. PICK r \in Messages : r = TradeReport(o.id, p, n, o.remaining - n)
    BY <2>2
  <2>4. /\ r.id = o.id /\ r.type = "TradeReport" /\ Report(<<r>>)
        /\ r.remaining = o.remaining - n
    BY <2>2, <2>3 DEF TradeReport
  <2>5. PICK x \in Arrivals :
          Range(incoming') = {x} /\ x.id = o.id /\ x.remaining = o.remaining - n
    BY <2>2 DEF Shrinks
  <2>6. o.id \notin DOMAIN working
    BY <2>2 DEF Known, IncomingKnown
  <2>7. ASSUME NEW y, NEW k, Stands(y, k)'
        PROVE  Says(r, y, k) \/ (~Speaks(r, y) /\ Stands(y, k))
    <3>1. CASE y = o.id
      <4>1. k = r.remaining
        BY <2>1, <2>4, <2>5, <2>6, <2>7, <3>1 DEF Stands
      <4> QED BY <2>2, <2>4, <3>1, <4>1 DEF Says
    <3>2. CASE y # o.id
      BY <2>1, <2>2, <2>4, <2>5, <2>7, <3>2 DEF Stands, Speaks, Mentions
    <3> QED BY <3>1, <3>2
  <2> QED BY <1>1, <1>2, <2>4, <2>7, AgreementReports
<1>5. CASE MatchOwn
  <2>1. PICK o \in Arrivals, id \in DOMAIN working, n \in Nat \ {0} :
          /\ Range(incoming) = {o} /\ Shrinks(o, n) /\ n \in 1..working[id].remaining
          /\ o.remaining - n \in Nat /\ working[id].remaining - n \in Nat
          /\ working' = Taken(id, n) /\ BothLegs(o, id, n)
    BY <1>5, MatchOwnIs
  <2>2. PICK a \in Messages, b \in Messages :
          /\ Report(<<a, b>>)
          /\ {a, b} = {TradeReport(o.id, working[id].price, n, o.remaining - n),
                       TradeReport(id, working[id].price, n, working[id].remaining - n)}
    BY <2>1 DEF BothLegs
  <2>3. PICK mine, theirs :
          /\ mine = TradeReport(o.id, working[id].price, n, o.remaining - n)
          /\ theirs = TradeReport(id, working[id].price, n, working[id].remaining - n)
    OBVIOUS
  <2>4. /\ mine.type = "TradeReport" /\ mine.id = o.id /\ mine.remaining = o.remaining - n
        /\ theirs.type = "TradeReport" /\ theirs.id = id
        /\ theirs.remaining = working[id].remaining - n
    BY <2>3 DEF TradeReport
  <2>5. o.id \notin DOMAIN working /\ o.id # id
    BY <2>1 DEF Known, IncomingKnown
  <2>6. (a = mine /\ b = theirs) \/ (a = theirs /\ b = mine)
    BY <2>2, <2>3, <2>4, <2>5
  <2>7. /\ toTrader' = (toTrader \o <<a>>) \o <<b>> /\ toTrader \o <<a>> \in Seq(Messages)
        /\ toTrader \in Seq(Messages)
    <3>1. toTrader \in Seq(Messages) /\ <<a, b>> \in Seq(Messages)
      BY Pair DEF Typed, WireTyped
    <3>2. toTrader' = toTrader \o <<a, b>>
      BY <1>2, <2>2, <3>1, Reported
    <3> QED BY <3>1, <3>2, AppendBoth
  <2>8. /\ DOMAIN working' \subseteq DOMAIN working
        /\ DOMAIN working \ {id} \subseteq DOMAIN working'
        /\ \A x \in DOMAIN working' : x # id => working'[x] = working[x]
        /\ id \in DOMAIN working' => working'[id].remaining = working[id].remaining - n
        /\ id \in DOMAIN working' <=> n # working[id].remaining
    BY <2>1, TakenIs
  <2>9. PICK x \in Arrivals :
          Range(incoming') = {x} /\ x.id = o.id /\ x.remaining = o.remaining - n
    BY <2>1 DEF Shrinks
  <2>10. SUFFICES ASSUME NEW y \in DOMAIN orders, orders[y].time_in_force = "GTC",
                         NEW k, Stands(y, k)'
                  PROVE  Told(toTrader', orders[y], y, k)
    BY <1>1 DEF Agreement, Agreed
  <2>11. CASE y = o.id
    <3>1. k = mine.remaining
      BY <2>4, <2>5, <2>8, <2>9, <2>10, <2>11 DEF Stands
    <3>2. Says(mine, y, k) /\ ~Speaks(theirs, y)
      BY <2>1, <2>4, <2>5, <2>11, <3>1 DEF Says, Speaks, Mentions
    <3>3. CASE b = mine
      BY <2>7, <3>2, <3>3, ToldNow
    <3>4. CASE a = mine /\ b = theirs
      <4>1. Told(toTrader \o <<a>>, orders[y], y, k)
        BY <2>7, <3>2, <3>4, ToldNow
      <4> QED BY <2>7, <3>2, <3>4, <4>1, ToldStill
    <3> QED BY <2>6, <3>3, <3>4
  <2>12. CASE y = id
    <3>1. k = theirs.remaining
      BY <2>1, <2>4, <2>5, <2>8, <2>9, <2>10, <2>12 DEF Stands
    <3>2. Says(theirs, y, k) /\ ~Speaks(mine, y)
      BY <2>1, <2>4, <2>5, <2>12, <3>1 DEF Says, Speaks, Mentions
    <3>3. CASE b = theirs
      BY <2>7, <3>2, <3>3, ToldNow
    <3>4. CASE a = theirs /\ b = mine
      <4>1. Told(toTrader \o <<a>>, orders[y], y, k)
        BY <2>7, <3>2, <3>4, ToldNow
      <4> QED BY <2>7, <3>2, <3>4, <4>1, ToldStill
    <3> QED BY <2>6, <3>3, <3>4
  <2>13. CASE y # o.id /\ y # id
    <3>1. Stands(y, k)
      BY <2>1, <2>8, <2>9, <2>10, <2>13 DEF Stands
    <3>2. ~Speaks(a, y) /\ ~Speaks(b, y)
      BY <2>4, <2>6, <2>13 DEF Speaks, Mentions
    <3>3. Told(toTrader, orders[y], y, k)
      BY <1>2, <2>10, <3>1 DEF Agreement, Agreed
    <3>4. Told(toTrader \o <<a>>, orders[y], y, k)
      BY <2>7, <3>2, <3>3, ToldStill
    <3> QED BY <2>7, <3>2, <3>4, ToldStill
  <2> QED BY <2>11, <2>12, <2>13
<1>6. CASE FinishRequest
  <2>1. UNCHANGED toTrader /\ Range(incoming') = {}
    BY <1>6, FinishIs
  <2>2. PICK o \in Arrivals :
          /\ Range(incoming) = {o}
          /\ \/ /\ ~(o.remaining > 0 /\ o.time_in_force = "GTC")
                /\ working' = working
             \/ /\ DOMAIN working' = DOMAIN working \cup {o.id}
                /\ \A x \in DOMAIN working : x # o.id => working'[x] = working[x]
                /\ working'[o.id].remaining = o.remaining
    BY <1>6, FinishIs
  <2>3. o.id \notin DOMAIN working /\ o.time_in_force = orders[o.id].time_in_force
    BY <2>2 DEF Known, IncomingKnown
  <2>4. o.remaining \in Nat
    BY DEF Arrivals
  <2>5. ASSUME NEW y \in DOMAIN orders, orders[y].time_in_force = "GTC", NEW k, Stands(y, k)'
        PROVE  Stands(y, k)
    <3>1. CASE y = o.id
      BY <2>1, <2>2, <2>3, <2>4, <2>5, <3>1 DEF Stands
    <3>2. CASE y # o.id
      BY <2>1, <2>2, <2>5, <3>2 DEF Stands
    <3> QED BY <3>1, <3>2
  <2> QED BY <1>1, <1>2, <2>1, <2>5 DEF Agreement, Agreed
<1> QED
  BY <1>3, <1>4, <1>5, <1>6

LEMMA AgreementInit == Init => Agreement
  BY DEF Init, Agreement

LEMMA AgreementStep == Typed /\ Known /\ Agreement /\ [Next]_vars => Agreement'
<1> SUFFICES ASSUME Typed, Known, Agreement, [Next]_vars PROVE Agreement'
  OBVIOUS
<1>1. CASE BeginCycle \/ UpdateQuote \/ BeginWithdraw \/ Withdraw \/ MomentumOrder
  BY <1>1, StrategyThreadTyped, AgreementAsks
<1>2. CASE Send
  <2>1. CASE connected
    <3>1. UNCHANGED <<orders, connected, toTrader, working, incoming>>
      BY <1>2, <2>1 DEF Send, exchangeVars
    <3> QED BY <3>1 DEF Agreement, Agreed, Stands
  <2>2. CASE ~connected
    <3>1. ~connected'
      BY <1>2, <2>2, Zenon DEF Send
    <3> QED BY <3>1 DEF Agreement
  <2> QED BY <2>1, <2>2
<1>3. CASE ReadMessage
  BY <1>3, AgreementRead
<1>4. CASE ProcessRequest
  BY <1>4, AgreementProcess
<1>5. CASE OthersTrade \/ MatchOthers \/ MatchOwn \/ FinishRequest
  BY <1>5, AgreementTrades
<1>6. CASE Disconnect
  BY <1>6 DEF Disconnect, Agreement
<1>7. CASE SettlePosition \/ SettlePnl \/ UNCHANGED vars
  <2>1. UNCHANGED <<orders, connected, toTrader, working, incoming>>
    BY <1>7 DEF SettlePosition, SettlePnl, vars, omsVars, exchangeVars
  <2> QED BY <2>1 DEF Agreement, Agreed, Stands
<1> QED
  BY <1>1, <1>2, <1>3, <1>4, <1>5, <1>6, <1>7 DEF Next

LEMMA AgreementWhenQuiet ==
  ASSUME Typed, Known, Agreement
  PROVE  QuietMeansAgreed
<1>1. SUFFICES ASSUME Quiet
               PROVE  /\ \A id \in DOMAIN working :
                           /\ id \in DOMAIN orders /\ IsLive(orders[id].state)
                           /\ orders[id].price = working[id].price
                           /\ orders[id].remaining = working[id].remaining
                      /\ \A id \in DOMAIN orders :
                           IsLive(orders[id].state) /\ orders[id].time_in_force = "GTC" =>
                             id \in DOMAIN working
  BY DEF QuietMeansAgreed
<1>2. connected /\ DOMAIN toTrader = {} /\ Range(incoming) = {}
  BY <1>1, Emptied DEF Quiet
<1>3. \A id \in DOMAIN orders : orders[id].time_in_force = "GTC" =>
        \A n : Stands(id, n) => Knows(orders[id], n)
  BY <1>2 DEF Agreement, Agreed, Told
<1>4. ASSUME NEW id \in DOMAIN working
      PROVE  /\ id \in DOMAIN orders /\ IsLive(orders[id].state)
             /\ orders[id].price = working[id].price
             /\ orders[id].remaining = working[id].remaining
  <2>1. /\ id \in DOMAIN orders /\ working[id].price = orders[id].price
        /\ orders[id].time_in_force = "GTC"
    BY DEF Known, WorkingKnown
  <2>2. working[id].remaining > 0
    BY DEF Typed, ExchangeTyped, Resting
  <2>3. Knows(orders[id], working[id].remaining)
    BY <1>3, <2>1 DEF Stands
  <2> QED BY <2>1, <2>2, <2>3 DEF Knows
<1>5. ASSUME NEW id \in DOMAIN orders, IsLive(orders[id].state),
             orders[id].time_in_force = "GTC", id \notin DOMAIN working
      PROVE  FALSE
  <2>1. Stands(id, 0)
    BY <1>2, <1>5 DEF Stands
  <2>2. Knows(orders[id], 0)
    BY <1>3, <1>5, <2>1
  <2> QED BY <1>5, <2>2 DEF Knows
<1> QED
  BY <1>4, <1>5
-----------------------------------------------------------------------------
(***************************************************************************)
(* Money.  A fill changes the exchange's totals and, when its report has   *)
(* been read and settled, the trader's.  Booked is that change without the *)
(* wrapping of unsigned holdings.                                          *)
(***************************************************************************)
Booked(a, side, price, n) ==
  IF side = "Buy" THEN [cash |-> a.cash - n * price, holdings |-> a.holdings + n]
                  ELSE [cash |-> a.cash + n * price, holdings |-> a.holdings - n]

\* No more than this was ever held: each client order id buys one quote at most.
Cap == InitialHoldings + (nextId - 1) * QuoteSize

Accounts == [cash : Int, holdings : 0..Cap]

LEMMA TimesOrder ==
  ASSUME NEW a \in Int, NEW b \in Int, NEW c \in Nat, a <= b
  PROVE  a * c \in Int /\ b * c \in Int /\ a * c <= b * c
<1>1. PICK d \in Nat : b = a + d
  <2>1. b - a \in Nat /\ b = a + (b - a)
    OBVIOUS
  <2> QED BY <2>1
<1>2. (a + d) * c = a * c + d * c /\ d * c \in Nat
  OBVIOUS
<1> QED
  BY <1>1, <1>2

LEMMA CapIs ==
  ASSUME Typed
  PROVE  /\ Cap \in Nat /\ Cap <= InitialHoldings + MaxId * QuoteSize
         /\ Cap < QuantityModulus /\ QuantityModulus \in Nat
<1>1. /\ nextId - 1 \in Nat /\ MaxId \in Nat /\ nextId - 1 <= MaxId
      /\ InitialHoldings \in Nat /\ QuoteSize \in Nat
  BY MaxIdIs, SessionAssumption DEF Typed, OmsTyped, StrategyTyped
<1>2. (nextId - 1) * QuoteSize <= MaxId * QuoteSize
  BY <1>1, TimesOrder
<1>3. (nextId - 1) * QuoteSize \in Nat /\ MaxId * QuoteSize \in Nat
  BY <1>1
<1>4. InitialHoldings + MaxId * QuoteSize < QuantityModulus
  BY WidthAssumption DEF MaxId, Typed, StrategyTyped
<1> QED
  BY <1>1, <1>2, <1>3, <1>4, TraderAssumption DEF Cap

\* Below the width of Quantity a fill is booked exactly.
LEMMA BookedExactly ==
  ASSUME Typed, NEW a \in [cash : Int, holdings : Nat], NEW fill,
         NEW side \in Sides, NEW price \in Nat, NEW n \in Nat,
         fill = [side |-> side, price |-> price, quantity |-> n],
         Booked(a, side, price, n).holdings \in 0..Cap
  PROVE  /\ ApplyFill(a, fill) = Booked(a, side, price, n)
         /\ Booked(a, side, price, n) \in Accounts
<1>1. fill.side = side /\ fill.price = price /\ fill.quantity = n
  OBVIOUS
<1>2. PICK c \in Int, k \in Nat, x \in Int : c = a.cash /\ k = a.holdings /\ x = n * price
  OBVIOUS
<1>3. PICK M \in Nat, C \in Nat : M = QuantityModulus /\ C = Cap /\ C < M
  BY CapIs
<1>4. \A y \in 0..C : y % M = y
  BY <1>3
<1>5. CASE side = "Buy"
  <2>1. Booked(a, side, price, n) = [cash |-> c - x, holdings |-> k + n]
    BY <1>2, <1>5 DEF Booked
  <2>2. k + n \in 0..C
    BY <1>3, <2>1
  <2>3. ApplyFill(a, fill) = [cash |-> c - x, holdings |-> (k + n) % M]
    BY <1>1, <1>2, <1>3, <1>5 DEF ApplyFill
  <2>4. (k + n) % M = k + n
    BY <1>4, <2>2
  <2>5. c - x \in Int
    BY <1>2
  <2> QED BY <1>3, <2>1, <2>2, <2>3, <2>4, <2>5 DEF Accounts
<1>6. CASE side # "Buy"
  <2>1. Booked(a, side, price, n) = [cash |-> c + x, holdings |-> k - n]
    BY <1>2, <1>6 DEF Booked
  <2>2. k - n \in 0..C
    BY <1>3, <2>1
  <2>3. ApplyFill(a, fill) = [cash |-> c + x, holdings |-> (k - n) % M]
    BY <1>1, <1>2, <1>3, <1>6 DEF ApplyFill
  <2>4. (k - n) % M = k - n
    BY <1>4, <2>2
  <2>5. c + x \in Int
    BY <1>2
  <2> QED BY <1>3, <2>1, <2>2, <2>3, <2>4, <2>5 DEF Accounts
<1> QED
  BY <1>5, <1>6

LEMMA QuotientExact ==
  ASSUME NEW n \in Int, NEW d \in Nat \ {0}
  PROVE  Quotient(n * d, d) = n
<1>1. \A k \in Nat : (k * d) \div d = k
  <2> TAKE k \in Nat
  <2>1. PICK x \in Nat : x = k * d
    OBVIOUS
  <2>2. PICK e \in Int : e = x \div d
    BY <2>1
  <2>3. d * e <= x /\ x < d * e + d
    BY <2>1, <2>2
  <2>4. d * (e - k) <= 0 /\ 0 < d * (e - k) + d
    BY <2>1, <2>3
  <2>5. e - k <= 0 /\ e - k > -1
    BY <2>4
  <2> QED BY <2>2, <2>1, <2>5
<1>2. CASE n * d < 0
  <2>1. n < 0 /\ -n \in Nat /\ -(n * d) = (-n) * d
    BY <1>2
  <2>2. ((-n) * d) \div d = -n
    BY <1>1, <2>1
  <2> QED BY <1>2, <2>1, <2>2 DEF Quotient
<1>3. CASE ~(n * d < 0)
  <2>1. n \in Nat
    BY <1>3
  <2> QED BY <1>1, <1>3, <2>1 DEF Quotient
<1> QED
  BY <1>2, <1>3

Change(fill) == IF fill.side = "Buy" THEN fill.quantity ELSE -fill.quantity

\* However a fill splits into a part that closes and a part that opens, the
\* position moves by the fill and realized less open by its cash.
LEMMA ApplyPnlExplains ==
  ASSUME NEW q \in [position : Int, open_notional : Int, realized : Int],
         NEW fill \in Fills
  PROVE  /\ ApplyPnl(q, fill).position = q.position + Change(fill)
         /\ ApplyPnl(q, fill).realized - ApplyPnl(q, fill).open_notional
              = q.realized - q.open_notional - Change(fill) * fill.price
<1> DEFINE delta    == IF fill.side = "Buy" THEN fill.quantity ELSE -fill.quantity
           sign     == IF q.position < 0 THEN -1 ELSE 1
           closed   == Min({Magnitude(q.position), fill.quantity})
           basis    == Quotient(q.open_notional * closed, Magnitude(q.position))
           flipped  == delta + sign * closed
           position == q.position - sign * closed + flipped
<1>1. /\ q.position \in Int /\ q.open_notional \in Int /\ q.realized \in Int
      /\ fill.quantity \in Nat \ {0} /\ fill.price \in Nat
  BY DEF Fills
<1>2. delta \in Int /\ sign \in {-1, 1} /\ delta = Change(fill)
  BY <1>1 DEF Change
<1>3. CASE q.position = 0 \/ (q.position > 0) = (delta > 0)
  <2>1. ApplyPnl(q, fill) = [q EXCEPT !.position = @ + delta,
                                      !.open_notional = @ + delta * fill.price]
    BY <1>3 DEF ApplyPnl
  <2> HIDE DEF delta
  <2>2. PICK x \in Int : x = delta * fill.price
    BY <1>1, <1>2
  <2>3. /\ ApplyPnl(q, fill).position = q.position + delta
        /\ ApplyPnl(q, fill).open_notional = q.open_notional + x
        /\ ApplyPnl(q, fill).realized = q.realized
    BY <2>1, <2>2
  <2> QED BY <1>1, <1>2, <2>2, <2>3
<1>4. CASE ~(q.position = 0 \/ (q.position > 0) = (delta > 0))
  <2>1. Magnitude(q.position) \in Nat \ {0}
    BY <1>1, <1>4 DEF Magnitude
  <2>2. /\ closed \in {Magnitude(q.position), fill.quantity}
        /\ closed <= Magnitude(q.position) /\ closed <= fill.quantity
        /\ closed \in Int
    <3>1. PICK a \in Int, b \in Int : a = Magnitude(q.position) /\ b = fill.quantity
      BY <1>1, <2>1
    <3>2. Min({a, b}) \in {a, b} /\ Min({a, b}) <= a /\ Min({a, b}) <= b
      BY MinOfTwo
    <3> QED BY <3>1, <3>2
  <2>3. basis \in Int
    <3> HIDE DEF closed
    <3>1. q.open_notional * closed \in Int
      BY <1>1, <2>2
    <3> QED BY <2>1, <3>1, QuotientTyped
  <2>4. /\ ApplyPnl(q, fill).position = position
        /\ ApplyPnl(q, fill).open_notional =
             IF position = 0 THEN 0 ELSE q.open_notional - basis + flipped * fill.price
        /\ ApplyPnl(q, fill).realized = q.realized + sign * closed * fill.price - basis
    BY <1>4 DEF ApplyPnl
  <2>5. sign = (IF q.position < 0 THEN -1 ELSE 1)
    OBVIOUS
  <2> HIDE DEF delta, sign, closed
  <2>6. PICK t \in Int : t = sign * closed
    BY <1>2, <2>2
  <2>7. flipped = delta + t /\ flipped \in Int
    BY <1>2, <2>6
  <2>8. position = q.position + delta
    BY <1>1, <1>2, <2>6, <2>7
  <2>9. flipped * fill.price = delta * fill.price + t * fill.price
        /\ delta * fill.price \in Int /\ t * fill.price \in Int
    BY <1>1, <1>2, <2>6, <2>7
  <2>10. ASSUME position = 0
         PROVE  basis = q.open_notional /\ flipped = 0
    <3>1. delta = -q.position
      BY <1>1, <1>2, <2>8, <2>10
    <3>2. fill.quantity = Magnitude(q.position)
      BY <1>1, <3>1 DEF Magnitude, delta
    <3>3. closed = Magnitude(q.position)
      BY <2>2, <3>2
    <3>4. basis = q.open_notional
      BY <1>1, <2>1, <3>3, QuotientExact DEF closed
    <3>5. t = q.position
      BY <1>1, <2>5, <2>6, <3>3 DEF Magnitude
    <3> QED BY <1>1, <2>7, <3>1, <3>4, <3>5
  <2>11. sign * closed * fill.price = t * fill.price
    BY <2>6
  <2> HIDE DEF basis, flipped, position
  <2>12. PICK x \in Int, y \in Int, z \in Int :
           /\ x = delta * fill.price /\ y = t * fill.price
           /\ z = flipped * fill.price /\ z = x + y
    BY <2>9
  <2>13. flipped = 0 => z = 0
    BY <1>1, <2>12
  <2>14. CASE position = 0
    <3>1. z = 0 /\ basis = q.open_notional
      BY <2>10, <2>13, <2>14
    <3> QED BY <1>1, <1>2, <2>3, <2>4, <2>8, <2>11, <2>12, <2>14, <3>1
  <2>15. CASE position # 0
    BY <1>1, <1>2, <2>3, <2>4, <2>8, <2>11, <2>12, <2>15
  <2> QED BY <2>14, <2>15
<1> QED
  BY <1>3, <1>4

(***************************************************************************)
(* What is open on one side of the exchange: the quantities that rest and  *)
(* the one that is being matched.                                          *)
(***************************************************************************)
Part(r, side) == IF r.side = side THEN r.remaining ELSE 0

Qty(w, side) ==
  SumOver([id \in DOMAIN w |-> w[id].remaining], {id \in DOMAIN w : w[id].side = side})

Arriving(side) == IF incoming = << >> THEN 0 ELSE Part(incoming[1], side)

Owed(side) == Qty(working, side) + Arriving(side)

Finite(w) == w \in [DOMAIN w -> Resting] /\ IsFiniteSet(DOMAIN w)

LEMMA PartIs ==
  ASSUME NEW r, r.remaining \in Nat, NEW side
  PROVE  Part(r, side) \in Nat
  BY DEF Part

LEMMA QtyIs ==
  ASSUME NEW w, Finite(w), NEW side
  PROVE  Qty(w, side) \in Nat
<1> DEFINE S == {id \in DOMAIN w : w[id].side = side}
           f == [id \in DOMAIN w |-> w[id].remaining]
<1>1. IsFiniteSet(S)
  <2>1. S \subseteq DOMAIN w
    OBVIOUS
  <2> QED BY <2>1, FS_Subset DEF Finite
<1>2. \A x \in S : f[x] \in Nat
  BY DEF Finite, Resting
<1>3. SumOver(f, S) \in Nat
  <2> HIDE DEF f, S
  <2> QED BY <1>1, <1>2, SumOfNaturals
<1> QED
  BY <1>3 DEF Qty

LEMMA QtyDrop ==
  ASSUME NEW w, Finite(w), NEW id \in DOMAIN w, NEW side
  PROVE  /\ Finite(Drop(w, id))
         /\ Qty(w, side) = Qty(Drop(w, id), side) + Part(w[id], side)
<1> DEFINE S == {x \in DOMAIN w : w[x].side = side}
           f == [x \in DOMAIN w |-> w[x].remaining]
           d == Drop(w, id)
           T == {x \in DOMAIN d : d[x].side = side}
           g == [x \in DOMAIN d |-> d[x].remaining]
<1>1. /\ d \in [DOMAIN d -> Resting] /\ DOMAIN d = DOMAIN w \ {id}
      /\ \A x \in DOMAIN d : d[x] = w[x]
  BY DEF Finite, Drop
<1>2. Finite(d)
  <2>1. DOMAIN d \subseteq DOMAIN w
    BY <1>1
  <2> QED BY <1>1, <2>1, FS_Subset DEF Finite
<1>3. T = S \ {id}
  BY <1>1
<1>4. IsFiniteSet(S) /\ IsFiniteSet(T)
  <2>1. S \subseteq DOMAIN w /\ T \subseteq DOMAIN w
    BY <1>1
  <2> QED BY <2>1, FS_Subset DEF Finite
<1>5. \A x \in T : g[x] = f[x]
  BY <1>1
<1>6. \A x \in S : f[x] \in Int
  BY DEF Finite, Resting
<1>7. Qty(w, side) = SumOver(f, S) /\ Qty(d, side) = SumOver(g, T)
  BY DEF Qty
<1>8. w[id].remaining \in Nat /\ f[id] = w[id].remaining /\ (id \in S <=> w[id].side = side)
  BY DEF Finite, Resting
<1> HIDE DEF S, T, f, g, d
<1>9. SumOver(g, T) = SumOver(f, T)
  BY <1>4, <1>5, SumAgrees
<1>10. CASE id \in S
  <2>1. SumOver(f, S) = f[id] + SumOver(f, S \ {id}) /\ SumOver(f, S) \in Int
    BY <1>4, <1>6, <1>10, SumTakesOut
  <2>2. Part(w[id], side) = f[id]
    BY <1>8, <1>10 DEF Part
  <2>3. SumOver(f, T) \in Int
    BY <1>3, <1>4, <1>6, SumTakesOut
  <2>4. Qty(w, side) = Qty(d, side) + Part(w[id], side)
    BY <1>3, <1>7, <1>8, <1>9, <2>1, <2>2, <2>3
  <2> QED BY <1>2, <2>4 DEF d
<1>11. CASE id \notin S
  <2>1. S = T /\ Part(w[id], side) = 0
    BY <1>3, <1>8, <1>11 DEF Part
  <2>2. SumOver(f, S) \in Int
    BY <1>4, <1>6, SumTakesOut
  <2>3. Qty(w, side) = Qty(d, side) + Part(w[id], side)
    BY <1>7, <1>9, <2>1, <2>2
  <2> QED BY <1>2, <2>3 DEF d
<1> QED
  BY <1>10, <1>11

LEMMA QtyPut ==
  ASSUME NEW w, Finite(w), NEW id, id \notin DOMAIN w, NEW r \in Resting, NEW side
  PROVE  /\ Finite(Put(w, id, r))
         /\ Qty(Put(w, id, r), side) = Qty(w, side) + Part(r, side)
<1>1. PICK v : v = Put(w, id, r)
  OBVIOUS
<1>2. /\ v \in [DOMAIN v -> Resting] /\ DOMAIN v = DOMAIN w \cup {id} /\ v[id] = r
      /\ \A x \in DOMAIN w : v[x] = w[x]
  BY <1>1 DEF Put, Finite
<1>3. Finite(v)
  BY <1>2, FS_AddElement DEF Finite
<1>4. Drop(v, id) = w
  BY <1>2 DEF Drop, Finite
<1>5. Qty(v, side) = Qty(Drop(v, id), side) + Part(v[id], side)
  BY <1>2, <1>3, QtyDrop
<1> QED
  BY <1>1, <1>2, <1>3, <1>4, <1>5

LEMMA WorkingFinite ==
  ASSUME Typed, Known
  PROVE  Finite(working) /\ 0 \notin DOMAIN working
<1>1. DOMAIN working \subseteq 1..(nextId - 1) /\ nextId - 1 \in Int
  BY DEF Typed, OmsTyped, Known, WorkingKnown
<1>2. IsFiniteSet(1..(nextId - 1))
  BY <1>1, FS_Interval
<1>3. IsFiniteSet(DOMAIN working)
  BY <1>1, <1>2, FS_Subset
<1> QED
  BY <1>1, <1>3 DEF Finite, Typed, ExchangeTyped

LEMMA QtyTaken ==
  ASSUME Typed, Known, NEW id \in DOMAIN working, NEW n \in 1..working[id].remaining,
         NEW side
  PROVE  Qty(Taken(id, n), side) + (IF working[id].side = side THEN n ELSE 0)
           = Qty(working, side)
<1>1. PICK w : w = Taken(id, n)
  OBVIOUS
<1>2. /\ w \in [DOMAIN w -> Resting] /\ DOMAIN w \subseteq DOMAIN working
      /\ DOMAIN working \ {id} \subseteq DOMAIN w
      /\ \A x \in DOMAIN w : w[x].side = working[x].side
      /\ \A x \in DOMAIN w : x # id => w[x] = working[x]
      /\ id \in DOMAIN w => w[id].remaining = working[id].remaining - n
      /\ id \in DOMAIN w <=> n # working[id].remaining
  BY <1>1, TakenIs
<1>3. Finite(working) /\ working[id].remaining \in Nat /\ n \in Nat
  BY WorkingFinite DEF Finite, Resting
<1>4. Finite(w)
  BY <1>2, <1>3, FS_Subset DEF Finite
<1>5. PICK d : d = Drop(working, id)
  OBVIOUS
<1>6. Finite(d) /\ Qty(working, side) = Qty(d, side) + Part(working[id], side)
  BY <1>3, <1>5, QtyDrop
<1>7. Qty(d, side) \in Nat
  BY <1>6, QtyIs
<1>8. CASE id \in DOMAIN w
  <2>1. Drop(w, id) = d
    BY <1>2, <1>5 DEF Drop
  <2>2. Qty(w, side) = Qty(d, side) + Part(w[id], side)
    BY <1>4, <1>8, <2>1, QtyDrop
  <2>3. CASE working[id].side = side
    <3>1. Part(w[id], side) = working[id].remaining - n
          /\ Part(working[id], side) = working[id].remaining
      BY <1>2, <1>8, <2>3 DEF Part
    <3> QED BY <1>1, <1>3, <1>6, <1>7, <2>2, <2>3, <3>1
  <2>4. CASE working[id].side # side
    <3>1. Part(w[id], side) = 0 /\ Part(working[id], side) = 0
      BY <1>2, <1>8, <2>4 DEF Part
    <3> QED BY <1>1, <1>3, <1>6, <1>7, <2>2, <2>4, <3>1
  <2> QED BY <2>3, <2>4
<1>9. CASE id \notin DOMAIN w
  <2>1. w = d /\ n = working[id].remaining
    <3>1. DOMAIN w = DOMAIN d /\ \A x \in DOMAIN w : w[x] = d[x]
      BY <1>2, <1>5, <1>9 DEF Drop
    <3>2. d = [x \in DOMAIN d |-> d[x]] /\ w = [x \in DOMAIN w |-> w[x]]
      BY <1>2, <1>5 DEF Drop
    <3> QED BY <1>2, <1>9, <3>1, <3>2
  <2>2. Part(working[id], side) = IF working[id].side = side THEN n ELSE 0
    BY <2>1 DEF Part
  <2> QED BY <1>1, <1>3, <1>6, <1>7, <2>1, <2>2
<1> QED
  BY <1>8, <1>9

(***************************************************************************)
(* The risk gate keeps what is open within what is held (Solvent), and the *)
(* orders that were let in, p of them at most, buy one quote each (Budget).*)
(***************************************************************************)
LetIn(p) ==
  /\ p \in 0..(nextId - 1)
  /\ \A m \in Waiting : Introduces(m) => p < NewId(m)

Solvent == Owed("Sell") <= xaccount.holdings

Budget ==
  \E p \in Nat :
    LetIn(p) /\ xaccount.holdings + Owed("Buy") <= InitialHoldings + p * QuoteSize

Stock == Solvent /\ Budget

LEMMA OwedIs ==
  ASSUME Typed, Known, NEW side
  PROVE  Arriving(side) \in Nat /\ Qty(working, side) \in Nat /\ Owed(side) \in Nat
<1>1. Qty(working, side) \in Nat
  BY WorkingFinite, QtyIs
<1>2. Arriving(side) \in Nat
  <2>1. CASE incoming = << >>
    BY <2>1 DEF Arriving
  <2>2. CASE incoming # << >>
    <3>1. PICK o \in Arrivals : o = incoming[1]
      BY <2>2, IncomingIs
    <3>2. o.remaining \in Nat
      BY DEF Arrivals
    <3> QED BY <2>2, <3>1, <3>2, PartIs DEF Arriving
  <2> QED BY <2>1, <2>2
<1> QED
  BY <1>1, <1>2 DEF Owed

OwedTyped == Owed("Buy") \in Nat /\ Owed("Sell") \in Nat

WaitingTyped == Waiting \subseteq Requests

LEMMA TypedNow == Typed /\ Known => OwedTyped /\ WaitingTyped
<1> SUFFICES ASSUME Typed, Known PROVE OwedTyped /\ WaitingTyped
  OBVIOUS
<1>1. OwedTyped
  BY OwedIs DEF OwedTyped
<1>2. toExchange \in Seq(Requests) /\ sending \in Seq(Requests)
  BY DEF Typed, WireTyped
<1>3. Range(toExchange) \subseteq Requests /\ Range(sending) \subseteq Requests
  BY <1>2 DEF Range
<1> QED
  BY <1>1, <1>3 DEF Waiting, WaitingTyped

LEMMA TypedThen == Typed' /\ Known' => OwedTyped' /\ WaitingTyped'
  BY TypedNow, PTL

LEMMA WithinMore ==
  ASSUME NEW a \in Nat, NEW d \in Nat, a <= d, NEW p \in 0..(a - 1)
  PROVE  p \in 0..(d - 1)
  OBVIOUS

LEMMA StockStays ==
  ASSUME Typed, Known, Typed', Known', Stock, UNCHANGED xaccount,
         Owed("Buy")' <= Owed("Buy"), Owed("Sell")' <= Owed("Sell"),
         nextId <= nextId',
         \A m \in Waiting' : Introduces(m) => m \in Waiting \/ nextId <= NewId(m)
  PROVE  Stock'
<1>1. PICK b \in Nat, c \in Nat, x \in Nat, y \in Nat :
        b = Owed("Buy") /\ c = Owed("Sell") /\ x = Owed("Buy")' /\ y = Owed("Sell")'
  <2>1. Owed("Buy") \in Nat /\ Owed("Sell") \in Nat
    BY OwedIs
  <2>2. Owed("Buy")' \in Nat /\ Owed("Sell")' \in Nat
    BY TypedThen DEF OwedTyped
  <2> QED BY <2>1, <2>2
<1>2. PICK k \in Nat : k = xaccount.holdings
  BY DEF Typed, ExchangeTyped
<1>3. PICK p \in Nat : LetIn(p) /\ k + b <= InitialHoldings + p * QuoteSize
  BY <1>1, <1>2 DEF Stock, Budget
<1>4. nextId \in Nat /\ nextId' \in Nat
  BY DEF Typed, OmsTyped
<1>5. p \in 0..(nextId - 1) /\ \A m \in Waiting : Introduces(m) => p < NewId(m)
  BY <1>3 DEF LetIn
<1>6. p \in 0..(nextId' - 1)
  <2>1. PICK a \in Nat, d \in Nat : a = nextId /\ d = nextId' /\ a <= d
    BY <1>4
  <2>2. p \in 0..(a - 1)
    BY <1>5, <2>1
  <2>3. p \in 0..(d - 1)
    BY <2>1, <2>2, WithinMore
  <2> QED BY <2>1, <2>3
<1>7. \A m \in Waiting' : Introduces(m) => p < NewId(m)
  <2>1. SUFFICES ASSUME NEW m \in Waiting', Introduces(m) PROVE p < NewId(m)
    OBVIOUS
  <2>2. CASE m \in Waiting
    BY <1>5, <2>1, <2>2
  <2>3. CASE nextId <= NewId(m)
    <3>1. m \in Requests
      BY <2>1, TypedThen DEF WaitingTyped
    <3>2. NewId(m) \in Nat
      BY <2>1, <3>1, RequestForm DEF NewId, Introduces
    <3> QED BY <1>4, <1>5, <2>3, <3>2
  <2> QED BY <2>1, <2>2, <2>3
<1>8. LetIn(p)'
  BY <1>6, <1>7 DEF LetIn
<1>9. k + x <= InitialHoldings + p * QuoteSize
  <2>1. InitialHoldings + p * QuoteSize \in Int /\ x <= b
    BY <1>1, SessionAssumption
  <2> QED BY <1>3, <2>1
<1>10. c <= k /\ y <= c
  BY <1>1, <1>2 DEF Stock, Solvent
<1> QED
  BY <1>1, <1>2, <1>8, <1>9, <1>10 DEF Stock, Solvent, Budget

\* What becomes of what is owed when n of a side trades.
Pays(side, n) ==
  /\ Owed("Buy")' + (IF side = "Buy" THEN n ELSE 0) = Owed("Buy")
  /\ Owed("Sell")' + (IF side = "Buy" THEN 0 ELSE n) = Owed("Sell")

LEMMA StockTrade ==
  ASSUME Typed, Known, Typed', Known', Stock,
         UNCHANGED <<nextId, toExchange, sending>>,
         NEW side \in Sides, NEW price \in Nat, NEW n \in Nat, Pays(side, n),
         xaccount' = ApplyFill(xaccount, [side |-> side, price |-> price, quantity |-> n])
  PROVE  /\ Stock' /\ xaccount' = Booked(xaccount, side, price, n)
         /\ Booked(xaccount, side, price, n) \in Accounts
<1>1. PICK b \in Nat, c \in Nat, x \in Nat, y \in Nat :
        b = Owed("Buy") /\ c = Owed("Sell") /\ x = Owed("Buy")' /\ y = Owed("Sell")'
  <2>1. Owed("Buy") \in Nat /\ Owed("Sell") \in Nat
    BY OwedIs
  <2>2. Owed("Buy")' \in Nat /\ Owed("Sell")' \in Nat
    BY TypedThen DEF OwedTyped
  <2> QED BY <2>1, <2>2
<1>2. PICK k \in Nat : k = xaccount.holdings
  BY DEF Typed, ExchangeTyped
<1>3. PICK p \in Nat : LetIn(p) /\ k + b <= InitialHoldings + p * QuoteSize
  BY <1>1, <1>2 DEF Stock, Budget
<1>4. PICK B \in Nat : B = InitialHoldings + p * QuoteSize /\ B <= Cap
  <2>1. InitialHoldings \in Nat /\ QuoteSize \in Nat
    BY SessionAssumption
  <2>2. nextId - 1 \in Int /\ p <= nextId - 1
    BY <1>3 DEF LetIn, Typed, OmsTyped
  <2>3. p * QuoteSize <= (nextId - 1) * QuoteSize
    BY <2>1, <2>2, TimesOrder
  <2>4. p * QuoteSize \in Nat /\ (nextId - 1) * QuoteSize \in Int
    BY <2>1, <2>2
  <2>5. InitialHoldings + p * QuoteSize \in Nat /\ InitialHoldings + p * QuoteSize <= Cap
    BY <2>1, <2>3, <2>4 DEF Cap
  <2> QED BY <2>5
<1>5. PICK C \in Nat : C = Cap
  BY CapIs
<1>6. c <= k /\ k + b <= B /\ B <= C
  BY <1>1, <1>2, <1>3, <1>4, <1>5 DEF Stock, Solvent
<1>7. /\ x + (IF side = "Buy" THEN n ELSE 0) = b
      /\ y + (IF side = "Buy" THEN 0 ELSE n) = c
  BY <1>1 DEF Pays
<1>8. PICK z \in Nat : z = IF side = "Buy" THEN k + n ELSE k - n
  BY <1>6, <1>7
<1>9. z \in 0..C /\ z + x <= B /\ y <= z
  BY <1>6, <1>7, <1>8
<1>10. Booked(xaccount, side, price, n).holdings = z
  BY <1>2, <1>8 DEF Booked
<1>11. xaccount \in [cash : Int, holdings : Nat]
  BY DEF Typed, ExchangeTyped
<1>12. /\ xaccount' = Booked(xaccount, side, price, n)
       /\ Booked(xaccount, side, price, n) \in Accounts
  <2>1. PICK fill : fill = [side |-> side, price |-> price, quantity |-> n]
    OBVIOUS
  <2>2. Booked(xaccount, side, price, n).holdings \in 0..Cap
    BY <1>5, <1>9, <1>10
  <2>3. /\ ApplyFill(xaccount, fill) = Booked(xaccount, side, price, n)
        /\ Booked(xaccount, side, price, n) \in Accounts
    BY <1>11, <2>1, <2>2, BookedExactly
  <2> QED BY <2>1, <2>3
<1>13. xaccount'.holdings = z
  BY <1>10, <1>12
<1>14. LetIn(p)'
  BY <1>3 DEF LetIn, Waiting
<1>15. y <= xaccount'.holdings
       /\ xaccount'.holdings + x <= InitialHoldings + p * QuoteSize
  BY <1>4, <1>9, <1>13
<1>16. Stock'
  BY <1>1, <1>14, <1>15 DEF Stock, Solvent, Budget
<1> QED
  BY <1>12, <1>16

LEMMA StockLetsIn ==
  ASSUME Typed, Known, Typed', Known', Stock, UNCHANGED <<xaccount, nextId>>,
         NEW m \in Waiting, Introduces(m),
         \A q \in Waiting' : Introduces(q) => NewId(m) < NewId(q),
         Owed("Buy")' <= Owed("Buy") + QuoteSize,
         Owed("Sell")' <= xaccount.holdings
  PROVE  Stock'
<1>1. PICK b \in Nat, x \in Nat : b = Owed("Buy") /\ x = Owed("Buy")'
  <2>1. Owed("Buy") \in Nat
    BY OwedIs
  <2>2. Owed("Buy")' \in Nat
    BY TypedThen DEF OwedTyped
  <2> QED BY <2>1, <2>2
<1>2. PICK k \in Nat : k = xaccount.holdings
  BY DEF Typed, ExchangeTyped
<1>3. PICK p \in Nat : LetIn(p) /\ k + b <= InitialHoldings + p * QuoteSize
  BY <1>1, <1>2 DEF Stock, Budget
<1>4. PICK i \in Nat : i = NewId(m) /\ p + 1 <= i /\ i \in 0..(nextId - 1)
  <2>1. NewId(m) \in DOMAIN orders
    BY DEF Known, Fresh, Unanswered
  <2>2. NewId(m) \in 1..(nextId - 1) /\ nextId \in Nat
    BY <2>1 DEF Typed, OmsTyped
  <2>3. p < NewId(m)
    BY <1>3 DEF LetIn
  <2> QED BY <2>2, <2>3
<1>5. PICK Q \in Nat, H \in Nat : Q = QuoteSize /\ H = InitialHoldings
  BY SessionAssumption
<1>6. (p + 1) * Q <= i * Q
  BY <1>4, TimesOrder
<1>7. k + x <= H + i * Q
  <2>1. x <= b + Q /\ k + b <= H + p * Q
    BY <1>1, <1>3, <1>5
  <2>2. (p + 1) * Q = p * Q + Q /\ p * Q \in Nat /\ i * Q \in Nat
    BY <1>4
  <2>3. PICK u \in Nat, v \in Nat : u = p * Q /\ v = i * Q
    BY <2>2
  <2> QED BY <1>6, <2>1, <2>2, <2>3
<1>8. LetIn(i)'
  BY <1>4 DEF LetIn
<1> QED
  BY <1>1, <1>2, <1>5, <1>7, <1>8 DEF Stock, Solvent, Budget

\* The risk gate counts what rests, without the order that is replaced.
LEMMA GateIs ==
  ASSUME Typed, Known, NEW price, NEW quantity, NEW id,
         ExchangeRiskAccepts("Sell", price, quantity, id)
  PROVE  xaccount.holdings
           - (IF id \in DOMAIN working THEN Qty(Drop(working, id), "Sell")
              ELSE Qty(working, "Sell")) >= quantity
<1> DEFINE f == [x \in DOMAIN working |-> IF "Sell" = "Buy"
                                          THEN working[x].price * working[x].remaining
                                          ELSE working[x].remaining]
           S == {x \in DOMAIN working \ {id} : working[x].side = "Sell"}
           w == IF id \in DOMAIN working THEN Drop(working, id) ELSE working
           g == [x \in DOMAIN w |-> w[x].remaining]
           T == {x \in DOMAIN w : w[x].side = "Sell"}
<1>1. xaccount.holdings - SumOver(f, S) >= quantity
  BY DEF ExchangeRiskAccepts, ReservedOn
<1>2. DOMAIN w = DOMAIN working \ {id} /\ \A x \in DOMAIN w : w[x] = working[x]
  BY DEF Drop
<1>3. S = T
  BY <1>2
<1>4. \A x \in S : f[x] = g[x]
  BY <1>2
<1>5. IsFiniteSet(S)
  BY WorkingFinite, FS_Subset DEF Finite
<1>6. Qty(w, "Sell") = SumOver(g, T)
  BY DEF Qty
<1> HIDE DEF f, g, S, T
<1>7. SumOver(f, S) = SumOver(g, S)
  BY <1>4, <1>5, SumAgrees
<1>8. xaccount.holdings - Qty(w, "Sell") >= quantity
  BY <1>1, <1>3, <1>6, <1>7
<1> QED
  BY <1>8

LEMMA ArrivingIs ==
  ASSUME NEW o, NEW side
  PROVE  /\ incoming = <<o>> => Arriving(side) = Part(o, side)
         /\ incoming' = <<o>> => Arriving(side)' = Part(o, side)
         /\ incoming = << >> => Arriving(side) = 0
         /\ incoming' = << >> => Arriving(side)' = 0
<1>1. <<o>>[1] = o /\ <<o>> # << >>
  OBVIOUS
<1> QED
  BY <1>1 DEF Arriving

LEMMA StockProcess ==
  ASSUME Typed, Known, Typed', Known', Stock, ProcessRequest
  PROVE  Stock'
<1>1. PICK m \in Requests :
        /\ Handles(m)
        /\ Refuses(m) \/ Admits(m) \/ Removes(m) \/ Amends(m) \/ Requeues(m)
  BY ProcessKinds
<1>2. UNCHANGED <<xaccount, nextId>> /\ incoming = << >> /\ nextId \in Nat
  BY <1>1 DEF Handles, omsVars, Typed, OmsTyped
<1>3. /\ m \in Waiting
      /\ \A q \in Waiting' : q \in Waiting
      /\ \A q \in Waiting' : Introduces(q) /\ Introduces(m) => NewId(m) < NewId(q)
  BY <1>1, HandledApart
<1>4. Finite(working) /\ 0 \notin DOMAIN working
  BY WorkingFinite
<1>5. PICK b \in Nat, c \in Nat : b = Qty(working, "Buy") /\ c = Qty(working, "Sell")
  BY <1>4, QtyIs
<1>6. Owed("Buy") = b /\ Owed("Sell") = c
  BY <1>2, <1>5 DEF Owed, Arriving
<1>7. PICK k \in Nat : k = xaccount.holdings /\ c <= k
  BY <1>6 DEF Typed, ExchangeTyped, Stock, Solvent
<1>8. PICK Q \in Nat : Q = QuoteSize
  BY SessionAssumption
<1>9. CASE Refuses(m)
  <2>1. UNCHANGED <<working, incoming>>
    BY <1>1, <1>9, RefusesIs
  <2>2. Owed("Buy")' = Owed("Buy") /\ Owed("Sell")' = Owed("Sell")
    BY <2>1 DEF Owed, Arriving
  <2>3. Owed("Buy")' <= Owed("Buy") /\ Owed("Sell")' <= Owed("Sell") /\ nextId <= nextId'
    BY <1>2, <1>6, <2>2
  <2> QED BY <1>2, <1>3, <2>3, StockStays
<1>10. CASE Admits(m)
  <2>1. PICK o \in Arrivals :
          /\ incoming' = <<o>> /\ o.side = m.side /\ o.remaining = m.quantity
          /\ UNCHANGED working /\ m.type = "NewOrder"
    BY <1>1, <1>10, AdmitsIs
  <2>2. m.quantity \in Quantities /\ m.quantity \in Nat /\ m.quantity <= Q /\ m.side \in Sides
    BY <1>8, <2>1, RequestForm, QuantitiesAre
  <2>3. PICK x \in Nat, y \in Nat : x = Part(o, "Buy") /\ y = Part(o, "Sell")
    BY <2>1, <2>2, PartIs
  <2>4. Owed("Buy")' = b + x /\ Owed("Sell")' = c + y
    BY <1>5, <2>1, <2>3, ArrivingIs DEF Owed
  <2>5. x <= Q
    BY <2>1, <2>2, <2>3 DEF Part
  <2>6. c + y <= k
    <3>1. CASE m.side = "Sell"
      <4>1. ExchangeRiskAccepts("Sell", m.price, m.quantity, 0)
        BY <1>10, <3>1 DEF Admits
      <4>2. k - c >= m.quantity
        BY <1>4, <1>5, <1>7, <4>1, GateIs
      <4>3. y = m.quantity
        BY <2>1, <2>3, <3>1 DEF Part
      <4> QED BY <2>2, <4>2, <4>3
    <3>2. CASE m.side # "Sell"
      BY <1>7, <2>1, <2>3, <3>2 DEF Part
    <3> QED BY <3>1, <3>2
  <2>7. Introduces(m)
    BY <2>1 DEF Introduces
  <2>8. Owed("Buy")' <= Owed("Buy") + QuoteSize /\ Owed("Sell")' <= xaccount.holdings
    BY <1>6, <1>7, <1>8, <2>4, <2>5, <2>6
  <2> QED BY <1>2, <1>3, <2>7, <2>8, StockLetsIn
<1>11. CASE Removes(m)
  <2>1. m.id \in DOMAIN working /\ working' = Drop(working, m.id) /\ UNCHANGED incoming
    BY <1>11 DEF Removes
  <2>2. /\ Finite(working')
        /\ b = Qty(working', "Buy") + Part(working[m.id], "Buy")
        /\ c = Qty(working', "Sell") + Part(working[m.id], "Sell")
    BY <1>4, <1>5, <2>1, QtyDrop
  <2>3. /\ Part(working[m.id], "Buy") \in Nat /\ Part(working[m.id], "Sell") \in Nat
    BY <1>4, <2>1, PartIs DEF Finite, Resting
  <2>4. Qty(working', "Buy") \in Nat /\ Qty(working', "Sell") \in Nat
    BY <2>2, QtyIs
  <2>5. Owed("Buy")' = Qty(working', "Buy") /\ Owed("Sell")' = Qty(working', "Sell")
    BY <1>2, <2>1, <2>4 DEF Owed, Arriving
  <2>6. Owed("Buy")' <= Owed("Buy") /\ Owed("Sell")' <= Owed("Sell") /\ nextId <= nextId'
    BY <1>2, <1>6, <2>2, <2>3, <2>4, <2>5
  <2> QED BY <1>2, <1>3, <2>6, StockStays
<1>12. ASSUME Exchanges(m),
              NEW x \in Nat, NEW y \in Nat,
              x = (IF working[m.id].side = "Buy" THEN m.quantity ELSE 0),
              y = (IF working[m.id].side = "Sell" THEN m.quantity ELSE 0),
              Owed("Buy")' = Qty(Drop(working, m.id), "Buy") + x,
              Owed("Sell")' = Qty(Drop(working, m.id), "Sell") + y
       PROVE  Stock'
  <2>1. /\ m.type = "ReplaceOrder" /\ m.id \in DOMAIN working /\ working[m.id] \in Resting
        /\ m.quantity \in Quantities /\ m.quantity \in Nat
    BY <1>1, <1>12, ExchangesIs
  <2>2. PICK d : d = Drop(working, m.id)
    OBVIOUS
  <2>3. /\ Finite(d) /\ b = Qty(d, "Buy") + Part(working[m.id], "Buy")
        /\ c = Qty(d, "Sell") + Part(working[m.id], "Sell")
    BY <1>4, <1>5, <2>1, <2>2, QtyDrop
  <2>4. PICK e \in Nat, f \in Nat : e = Qty(d, "Buy") /\ f = Qty(d, "Sell")
    BY <2>3, QtyIs
  <2>5. Part(working[m.id], "Buy") \in Nat /\ Part(working[m.id], "Sell") \in Nat
    BY <2>1, PartIs DEF Resting
  <2>6. e <= b /\ f <= c /\ x <= Q
    BY <1>8, <1>12, <2>1, <2>3, <2>4, <2>5, QuantitiesAre
  <2>7. f + y <= k
    <3>1. CASE working[m.id].side = "Sell"
      <4>1. ExchangeRiskAccepts("Sell", m.price, m.quantity, m.id)
        BY <1>12, <3>1 DEF Exchanges
      <4>2. k - f >= m.quantity
        BY <1>7, <2>1, <2>2, <2>4, <4>1, GateIs
      <4> QED BY <1>12, <2>1, <3>1, <4>2
    <3>2. CASE working[m.id].side # "Sell"
      BY <1>7, <1>12, <2>6, <3>2
    <3> QED BY <3>1, <3>2
  <2>8. Introduces(m)
    BY <2>1 DEF Introduces
  <2>9. Owed("Buy")' = e + x /\ Owed("Sell")' = f + y
    BY <1>12, <2>2, <2>4
  <2>10. Owed("Buy")' <= Owed("Buy") + QuoteSize /\ Owed("Sell")' <= xaccount.holdings
    BY <1>6, <1>7, <1>8, <2>6, <2>7, <2>9
  <2> QED BY <1>2, <1>3, <2>8, <2>10, StockLetsIn
<1>13. ASSUME Exchanges(m)
       PROVE  /\ m.id \in DOMAIN working /\ working[m.id] \in Resting
              /\ m.quantity \in Nat \ {0} /\ m.price \in Nat /\ m.new_id \notin DOMAIN working
  <2>1. /\ m.type = "ReplaceOrder" /\ m.id \in DOMAIN working /\ working[m.id] \in Resting
        /\ m.quantity \in Nat \ {0} /\ m.price \in Nat
    BY <1>1, <1>13, ExchangesIs
  <2>2. Unanswered(m)
    BY <1>1, <2>1, HandledApart DEF Introduces
  <2> QED BY <2>1, <2>2 DEF Unanswered, NewId
<1>14. CASE Amends(m)
  <2>1. Exchanges(m) /\ UNCHANGED incoming
    BY <1>14 DEF Amends
  <2>2. PICK r : r = [working[m.id] EXCEPT !.price = m.price, !.remaining = m.quantity]
    OBVIOUS
  <2>3. r \in Resting /\ r.side = working[m.id].side /\ r.remaining = m.quantity
    BY <1>13, <2>1, <2>2 DEF Resting
  <2>4. PICK d : d = Drop(working, m.id)
    OBVIOUS
  <2>5. Finite(d) /\ m.new_id \notin DOMAIN d
    BY <1>4, <1>13, <2>1, <2>4, QtyDrop DEF Drop
  <2>6. working' = Put(d, m.new_id, r)
    BY <1>14, <2>2, <2>4 DEF Amends
  <2>7. /\ Qty(working', "Buy") = Qty(d, "Buy") + Part(r, "Buy")
        /\ Qty(working', "Sell") = Qty(d, "Sell") + Part(r, "Sell")
    BY <2>3, <2>5, <2>6, QtyPut
  <2>8. PICK x \in Nat, y \in Nat :
          /\ x = Part(r, "Buy") /\ y = Part(r, "Sell")
    BY <1>13, <2>1, <2>3, PartIs
  <2>9. /\ x = (IF working[m.id].side = "Buy" THEN m.quantity ELSE 0)
        /\ y = (IF working[m.id].side = "Sell" THEN m.quantity ELSE 0)
    BY <2>3, <2>8 DEF Part
  <2>10. Qty(d, "Buy") \in Nat /\ Qty(d, "Sell") \in Nat
    BY <2>5, QtyIs
  <2>11. Owed("Buy")' = Qty(d, "Buy") + x /\ Owed("Sell")' = Qty(d, "Sell") + y
    BY <1>2, <2>1, <2>7, <2>8, <2>10 DEF Owed, Arriving
  <2> QED BY <1>12, <2>1, <2>4, <2>9, <2>11
<1>15. CASE Requeues(m)
  <2>1. Exchanges(m) /\ working' = Drop(working, m.id)
    BY <1>15 DEF Requeues
  <2>2. PICK o \in Arrivals :
          incoming' = <<o>> /\ o.side = working[m.id].side /\ o.remaining = m.quantity
    BY <1>1, <1>15, RequeuesIs
  <2>3. PICK x \in Nat, y \in Nat :
          /\ x = Part(o, "Buy") /\ y = Part(o, "Sell")
    BY <1>13, <2>1, <2>2, PartIs
  <2>4. /\ x = (IF working[m.id].side = "Buy" THEN m.quantity ELSE 0)
        /\ y = (IF working[m.id].side = "Sell" THEN m.quantity ELSE 0)
    BY <2>2, <2>3 DEF Part
  <2>5. Owed("Buy")' = Qty(Drop(working, m.id), "Buy") + x
        /\ Owed("Sell")' = Qty(Drop(working, m.id), "Sell") + y
    BY <2>1, <2>2, <2>3, ArrivingIs DEF Owed
  <2> QED BY <1>12, <2>1, <2>4, <2>5
<1> QED
  BY <1>1, <1>9, <1>10, <1>11, <1>14, <1>15

\* A trade with another participant, as it is reported and booked.
TradesWithOthers(r) ==
  /\ r.type = "TradeReport" /\ Report(<<r>>) /\ r.id \in DOMAIN orders
  /\ xaccount' = Booked(xaccount, orders[r.id].side, r.price, r.quantity)
  /\ xaccount' \in Accounts

LEMMA StockOthers ==
  ASSUME Typed, Known, Typed', Known', Stock, OthersTrade \/ MatchOthers
  PROVE  Stock' /\ \E r \in Messages : TradesWithOthers(r)
<1>1. UNCHANGED <<nextId, toExchange, sending>>
  BY DEF OthersTrade, MatchOthers, omsVars
<1>2. Finite(working)
  BY WorkingFinite
<1>3. PICK b \in Nat, c \in Nat : b = Qty(working, "Buy") /\ c = Qty(working, "Sell")
  BY <1>2, QtyIs
<1>4. CASE OthersTrade
  <2>1. incoming = << >> /\ incoming' = << >>
    BY <1>4, OthersTradeIs
  <2>2. PICK id \in DOMAIN working, n \in Nat \ {0} :
          /\ n \in 1..working[id].remaining
          /\ working' = Taken(id, n) /\ xaccount' = Sold(id, n)
          /\ TradeReport(id, working[id].price, n, working[id].remaining - n) \in Messages
          /\ Report(<<TradeReport(id, working[id].price, n, working[id].remaining - n)>>)
    BY <1>4, OthersTradeIs
  <2>3. PICK side \in Sides, price \in Nat : side = working[id].side /\ price = working[id].price
    BY <1>2, <2>2 DEF Finite, Resting
  <2>4. /\ Qty(working', "Buy") + (IF side = "Buy" THEN n ELSE 0) = b
        /\ Qty(working', "Sell") + (IF side = "Sell" THEN n ELSE 0) = c
    BY <1>3, <2>2, <2>3, QtyTaken
  <2>5. Pays(side, n)
    <3>1. Owed("Buy")' \in Nat /\ Owed("Sell")' \in Nat
      BY TypedThen DEF OwedTyped
    <3>2. /\ Owed("Buy") = b + 0 /\ Owed("Sell") = c + 0
          /\ Owed("Buy")' = Qty(working', "Buy") + 0
          /\ Owed("Sell")' = Qty(working', "Sell") + 0
      BY <1>3, <2>1, ArrivingIs DEF Owed
    <3>3. Qty(working', "Buy") \in Nat /\ Qty(working', "Sell") \in Nat
      <4>1. Finite(working')
        BY <2>2, <1>2, TakenIs, FS_Subset DEF Finite
      <4> QED BY <4>1, QtyIs
    <3>4. /\ Owed("Buy") = b /\ Owed("Sell") = c /\ Owed("Buy")' = Qty(working', "Buy")
          /\ Owed("Sell")' = Qty(working', "Sell")
      BY <3>2, <3>3
    <3> QED BY <2>3, <2>4, <3>4 DEF Pays, Sides
  <2>6. xaccount' = ApplyFill(xaccount, [side |-> side, price |-> price, quantity |-> n])
    BY <2>2, <2>3 DEF Sold
  <2>7. /\ Stock' /\ xaccount' = Booked(xaccount, side, price, n)
        /\ Booked(xaccount, side, price, n) \in Accounts
    BY <1>1, <2>5, <2>6, StockTrade
  <2>8. PICK r \in Messages : /\ r = TradeReport(id, price, n, working[id].remaining - n)
                              /\ Report(<<r>>)
    BY <2>2, <2>3
  <2>9. r.type = "TradeReport" /\ r.id = id /\ r.price = price /\ r.quantity = n
    BY <2>8 DEF TradeReport
  <2>10. id \in DOMAIN orders /\ orders[id].side = side
    BY <2>2, <2>3 DEF Known, WorkingKnown
  <2>11. TradesWithOthers(r)
    BY <2>7, <2>8, <2>9, <2>10 DEF TradesWithOthers
  <2> QED BY <2>7, <2>11
<1>5. CASE MatchOthers
  <2>1. UNCHANGED working
    BY <1>5, MatchOthersIs
  <2>2. PICK o \in Arrivals, price \in Nat, n \in Nat \ {0} :
          /\ incoming = <<o>> /\ Range(incoming) = {o} /\ Shrinks(o, n)
          /\ n \in 1..o.remaining
          /\ xaccount' = ApplyFill(xaccount, [side |-> o.side, price |-> price,
                                              quantity |-> n])
          /\ TradeReport(o.id, price, n, o.remaining - n) \in Messages
          /\ Report(<<TradeReport(o.id, price, n, o.remaining - n)>>)
    BY <1>5, MatchOthersIs
  <2>3. PICK side \in Sides : side = o.side /\ o.remaining \in Nat
    BY DEF Arrivals
  <2>4. PICK x \in Arrivals : incoming' = <<x>> /\ x.side = side /\ x.remaining = o.remaining - n
    BY <2>2, <2>3 DEF Shrinks
  <2>5. Pays(side, n)
    <3>1. /\ Owed("Buy") = b + Part(o, "Buy") /\ Owed("Sell") = c + Part(o, "Sell")
          /\ Owed("Buy")' = b + Part(x, "Buy") /\ Owed("Sell")' = c + Part(x, "Sell")
      BY <1>3, <2>1, <2>2, <2>4, ArrivingIs DEF Owed
    <3>2. /\ Part(o, "Buy") = Part(x, "Buy") + (IF side = "Buy" THEN n ELSE 0)
          /\ Part(o, "Sell") = Part(x, "Sell") + (IF side = "Buy" THEN 0 ELSE n)
          /\ Part(x, "Buy") \in Nat /\ Part(x, "Sell") \in Nat
      BY <2>2, <2>3, <2>4 DEF Part, Sides
    <3>3. PICK u \in Nat, v \in Nat : u = Part(x, "Buy") /\ v = Part(x, "Sell")
      BY <3>2
    <3> QED BY <3>1, <3>2, <3>3 DEF Pays
  <2>6. xaccount' = ApplyFill(xaccount, [side |-> side, price |-> price, quantity |-> n])
    BY <2>2, <2>3
  <2>7. /\ Stock' /\ xaccount' = Booked(xaccount, side, price, n)
        /\ Booked(xaccount, side, price, n) \in Accounts
    BY <1>1, <2>5, <2>6, StockTrade
  <2>8. PICK r \in Messages : /\ r = TradeReport(o.id, price, n, o.remaining - n)
                              /\ Report(<<r>>)
    BY <2>2
  <2>9. r.type = "TradeReport" /\ r.id = o.id /\ r.price = price /\ r.quantity = n
    BY <2>8 DEF TradeReport
  <2>10. o.id \in DOMAIN orders /\ orders[o.id].side = side
    BY <2>2, <2>3 DEF Known, IncomingKnown
  <2>11. TradesWithOthers(r)
    BY <2>7, <2>8, <2>9, <2>10 DEF TradesWithOthers
  <2> QED BY <2>7, <2>11
<1> QED
  BY <1>4, <1>5

\* A trade of the account with itself: the buyer's report is booked, then the
\* seller's, and the totals are what they were.
TradesWithItself(a, b, between) ==
  /\ Report(<<a, b>>) /\ UNCHANGED xaccount
  /\ a.type = "TradeReport" /\ b.type = "TradeReport"
  /\ a.id \in DOMAIN orders /\ b.id \in DOMAIN orders
  /\ between = Booked(xaccount, orders[a.id].side, a.price, a.quantity)
  /\ xaccount = Booked(between, orders[b.id].side, b.price, b.quantity)

LEMMA StockOwn ==
  ASSUME Typed, Known, Typed', Known', Stock, MatchOwn
  PROVE  /\ Stock'
         /\ \E a \in Messages, b \in Messages, between \in Accounts :
              TradesWithItself(a, b, between)
<1>1. UNCHANGED <<xaccount, nextId, toExchange, sending>>
  BY MatchOwnIs DEF TraderStays, omsVars
<1>2. Finite(working)
  BY WorkingFinite
<1>3. PICK o \in Arrivals, id \in DOMAIN working, n \in Nat \ {0} :
        /\ incoming = <<o>> /\ Range(incoming) = {o} /\ Shrinks(o, n)
        /\ n \in 1..o.remaining /\ n \in 1..working[id].remaining
        /\ working[id].side = Contra(o.side)
        /\ working' = Taken(id, n) /\ BothLegs(o, id, n)
  BY MatchOwnIs
<1>4. PICK q \in Nat, s \in Nat : q = Qty(working, "Buy") /\ s = Qty(working, "Sell")
  BY <1>2, QtyIs
<1>5. PICK x \in Arrivals : incoming' = <<x>> /\ x.side = o.side /\ x.remaining = o.remaining - n
  BY <1>3 DEF Shrinks
<1>6. PICK price \in Nat : price = working[id].price
  BY <1>2, <1>3 DEF Finite, Resting
<1>7. /\ o.side \in Sides /\ o.remaining \in Nat /\ x.remaining \in Nat
      /\ o.side = "Buy" => working[id].side = "Sell"
      /\ o.side # "Buy" => working[id].side = "Buy" /\ o.side = "Sell"
  BY <1>3, <1>5 DEF Arrivals, Contra, Sides
<1>8. /\ Qty(working', "Buy") + (IF working[id].side = "Buy" THEN n ELSE 0) = q
      /\ Qty(working', "Sell") + (IF working[id].side = "Sell" THEN n ELSE 0) = s
  BY <1>3, <1>4, QtyTaken
<1>9. PICK v \in Nat, w \in Nat : v = Qty(working', "Buy") /\ w = Qty(working', "Sell")
  <2>1. Finite(working')
    BY <1>2, <1>3, TakenIs, FS_Subset DEF Finite
  <2> QED BY <2>1, QtyIs
<1>10. /\ Owed("Buy") = q + Part(o, "Buy") /\ Owed("Sell") = s + Part(o, "Sell")
       /\ Owed("Buy")' = v + Part(x, "Buy") /\ Owed("Sell")' = w + Part(x, "Sell")
  BY <1>3, <1>4, <1>5, <1>9, ArrivingIs DEF Owed
<1>11. /\ Owed("Buy") \in Nat /\ n <= Owed("Buy")
       /\ Owed("Buy")' <= Owed("Buy") /\ Owed("Sell")' <= Owed("Sell")
  <2>1. CASE o.side = "Buy"
    <3>1. /\ Part(o, "Buy") = o.remaining /\ Part(o, "Sell") = 0
          /\ Part(x, "Buy") = o.remaining - n /\ Part(x, "Sell") = 0
          /\ v = q /\ w + n = s
      BY <1>5, <1>7, <1>8, <1>9, <2>1 DEF Part
    <3> QED BY <1>3, <1>7, <1>10, <3>1
  <2>2. CASE o.side # "Buy"
    <3>1. /\ Part(o, "Buy") = 0 /\ Part(o, "Sell") = o.remaining
          /\ Part(x, "Buy") = 0 /\ Part(x, "Sell") = o.remaining - n
          /\ v + n = q /\ w = s
      BY <1>5, <1>7, <1>8, <1>9, <2>2 DEF Part
    <3> QED BY <1>3, <1>7, <1>10, <3>1
  <2> QED BY <2>1, <2>2
<1>12. Stock'
  <2>1. nextId <= nextId'
    BY <1>1 DEF Typed, OmsTyped
  <2>2. Waiting' = Waiting
    BY <1>1 DEF Waiting
  <2> QED BY <1>1, <1>11, <2>1, <2>2, StockStays
<1>13. /\ o.id \in DOMAIN orders /\ id \in DOMAIN orders /\ o.id # id
       /\ orders[o.id].side = o.side /\ orders[id].side = working[id].side
  BY <1>3 DEF Known, IncomingKnown, WorkingKnown
<1>14. PICK a \in Messages, b \in Messages :
         /\ Report(<<a, b>>)
         /\ {a, b} = {TradeReport(o.id, price, n, o.remaining - n),
                      TradeReport(id, price, n, working[id].remaining - n)}
         /\ a.id = IF o.side = "Buy" THEN o.id ELSE id
         /\ b.id = IF o.side = "Buy" THEN id ELSE o.id
  BY <1>3, <1>6 DEF BothLegs
<1>15. /\ a.type = "TradeReport" /\ a.price = price /\ a.quantity = n
       /\ b.type = "TradeReport" /\ b.price = price /\ b.quantity = n
  BY <1>14 DEF TradeReport
<1>16. /\ a.id \in DOMAIN orders /\ orders[a.id].side = "Buy"
       /\ b.id \in DOMAIN orders /\ orders[b.id].side = "Sell"
  BY <1>7, <1>13, <1>14
<1>17. PICK k \in Nat, g \in Int : k = xaccount.holdings /\ g = xaccount.cash
                                   /\ xaccount = [cash |-> g, holdings |-> k]
  BY DEF Typed, ExchangeTyped
<1>18. k + n \in 0..Cap
  <2>1. PICK p \in Nat : LetIn(p) /\ k + Owed("Buy") <= InitialHoldings + p * QuoteSize
    BY <1>17 DEF Stock, Budget
  <2>2. InitialHoldings \in Nat /\ QuoteSize \in Nat /\ nextId - 1 \in Int /\ p <= nextId - 1
    BY <2>1, SessionAssumption DEF LetIn, Typed, OmsTyped
  <2>3. p * QuoteSize <= (nextId - 1) * QuoteSize
        /\ p * QuoteSize \in Int /\ (nextId - 1) * QuoteSize \in Int
    BY <2>2, TimesOrder
  <2>4. PICK B \in Int, C \in Int : B = InitialHoldings + p * QuoteSize /\ C = Cap /\ B <= C
    BY <2>2, <2>3 DEF Cap
  <2> QED BY <1>11, <1>17, <2>1, <2>4
<1>19. PICK z \in Int : z = n * price
  OBVIOUS
<1>20. PICK y : y = [cash |-> g - z, holdings |-> k + n]
  OBVIOUS
<1>21. y \in Accounts /\ y.cash = g - z /\ y.holdings = k + n
  BY <1>18, <1>20 DEF Accounts
<1>22. y = Booked(xaccount, "Buy", price, n)
  BY <1>17, <1>19, <1>20 DEF Booked
<1>23. xaccount = Booked(y, "Sell", price, n)
  <2>1. Booked(y, "Sell", price, n) = [cash |-> (g - z) + z, holdings |-> (k + n) - n]
    BY <1>19, <1>21 DEF Booked
  <2> QED BY <1>17, <2>1
<1>24. TradesWithItself(a, b, y)
  BY <1>1, <1>14, <1>15, <1>16, <1>22, <1>23 DEF TradesWithItself
<1> QED
  BY <1>12, <1>21, <1>24

LEMMA StockIdle ==
  ASSUME Typed, Known, Typed', Known', Stock, UNCHANGED <<working, incoming, xaccount>>,
         nextId' \in {nextId, nextId + 1},
         \A m \in Waiting' : Introduces(m) => m \in Waiting \/ NewId(m) = nextId
  PROVE  Stock'
<1>1. Owed("Buy")' = Owed("Buy") /\ Owed("Sell")' = Owed("Sell")
  BY DEF Owed, Arriving
<1>2. Owed("Buy") \in Nat /\ Owed("Sell") \in Nat
  BY OwedIs
<1>3. Owed("Buy")' <= Owed("Buy") /\ Owed("Sell")' <= Owed("Sell")
  BY <1>1, <1>2
<1>4. nextId \in Nat /\ nextId <= nextId'
  BY DEF Typed, OmsTyped
<1>5. \A m \in Waiting' : Introduces(m) => m \in Waiting \/ nextId <= NewId(m)
  BY <1>4
<1> QED
  BY <1>3, <1>4, <1>5, StockStays

LEMMA StockFinish ==
  ASSUME Typed, Known, Typed', Known', Stock, FinishRequest
  PROVE  Stock'
<1>1. UNCHANGED <<xaccount, nextId, toExchange, sending>> /\ incoming' = << >>
  BY FinishIs DEF TraderStays, omsVars
<1>2. PICK o \in Arrivals :
        /\ incoming = <<o>> /\ Range(incoming) = {o}
        /\ \/ working' = working
           \/ /\ working'[o.id].side = o.side /\ working'[o.id].remaining = o.remaining
              /\ DOMAIN working' = DOMAIN working \cup {o.id}
              /\ working' = Put(working, o.id, working'[o.id])
  BY FinishIs
<1>3. Finite(working) /\ o.remaining \in Nat /\ o.id \notin DOMAIN working
  BY <1>2, WorkingFinite DEF Arrivals, Known, IncomingKnown
<1>4. PICK b \in Nat, c \in Nat, x \in Nat, y \in Nat :
        /\ b = Qty(working, "Buy") /\ c = Qty(working, "Sell")
        /\ x = Part(o, "Buy") /\ y = Part(o, "Sell")
  BY <1>3, QtyIs, PartIs
<1>5. Owed("Buy") = b + x /\ Owed("Sell") = c + y
  BY <1>2, <1>4, ArrivingIs DEF Owed
<1>6. /\ Owed("Buy")' = Qty(working', "Buy") + 0
      /\ Owed("Sell")' = Qty(working', "Sell") + 0
  BY <1>1, ArrivingIs DEF Owed
<1>7. Qty(working', "Buy") \in {b, b + x} /\ Qty(working', "Sell") \in {c, c + y}
  <2>1. CASE working' = working
    BY <1>4, <2>1
  <2>2. CASE /\ working'[o.id].side = o.side /\ working'[o.id].remaining = o.remaining
             /\ DOMAIN working' = DOMAIN working \cup {o.id}
             /\ working' = Put(working, o.id, working'[o.id])
    <3>1. PICK r : r = working'[o.id]
      OBVIOUS
    <3>2. r \in Resting
      BY <2>2, <3>1 DEF Typed, ExchangeTyped
    <3>3. /\ Qty(working', "Buy") = b + Part(r, "Buy")
          /\ Qty(working', "Sell") = c + Part(r, "Sell")
      BY <1>3, <1>4, <2>2, <3>1, <3>2, QtyPut
    <3>4. Part(r, "Buy") = x /\ Part(r, "Sell") = y
      BY <1>4, <2>2, <3>1 DEF Part
    <3> QED BY <3>3, <3>4
  <2> QED BY <1>2, <2>1, <2>2
<1>8. Owed("Buy")' <= Owed("Buy") /\ Owed("Sell")' <= Owed("Sell")
  BY <1>5, <1>6, <1>7
<1>9. nextId <= nextId' /\ Waiting' = Waiting
  BY <1>1 DEF Typed, OmsTyped, Waiting
<1> QED
  BY <1>1, <1>8, <1>9, StockStays

LEMMA StockInit == Init => Stock
<1> SUFFICES ASSUME Init PROVE Stock
  OBVIOUS
<1>1. /\ Range(toExchange) = {} /\ Range(sending) = {} /\ DOMAIN working = {}
      /\ incoming = << >> /\ nextId = 1 /\ xaccount.holdings = InitialHoldings
  BY Emptied DEF Init, Deposits
<1>2. Qty(working, "Buy") = 0 /\ Qty(working, "Sell") = 0
  <2>1. /\ {id \in DOMAIN working : working[id].side = "Buy"} = {}
        /\ {id \in DOMAIN working : working[id].side = "Sell"} = {}
    BY <1>1
  <2> QED BY <2>1, SumEmpty DEF Qty
<1>3. Owed("Buy") = 0 /\ Owed("Sell") = 0
  BY <1>1, <1>2 DEF Owed, Arriving
<1>4. LetIn(0)
  BY <1>1 DEF LetIn, Waiting
<1>5. InitialHoldings \in Nat /\ 0 * QuoteSize = 0
  BY SessionAssumption
<1>6. 0 <= xaccount.holdings /\ xaccount.holdings + 0 <= InitialHoldings + 0 * QuoteSize
  BY <1>1, <1>5
<1> QED
  BY <1>3, <1>4, <1>6 DEF Stock, Solvent, Budget

LEMMA StockStep ==
  Typed /\ Known /\ Stock /\ [Next]_vars => Stock'
<1> SUFFICES ASSUME Typed, Known, Stock, [Next]_vars PROVE Stock'
  OBVIOUS
<1>0. Typed' /\ Known'
  BY TypedStep, KnownStep
<1>1. CASE BeginCycle \/ UpdateQuote \/ BeginWithdraw \/ Withdraw \/ MomentumOrder
  <2>1. Asks
    BY <1>1, StrategyThreadTyped
  <2>2. /\ UNCHANGED <<working, incoming, xaccount, toExchange>>
        /\ nextId' \in {nextId, nextId + 1}
        /\ \/ Range(sending') = {}
           \/ \E m \in Requests : AskedFor(m)
    BY <2>1, AskedIs DEF Others, exchangeVars
  <2>3. \A m \in Waiting' : Introduces(m) => m \in Waiting \/ NewId(m) = nextId
    BY <2>2 DEF Waiting, AskedFor
  <2> QED BY <1>0, <2>2, <2>3, StockIdle
<1>2. CASE Send
  <2>1. PICK m \in Requests :
          /\ sending = <<m>> /\ Range(sending) = {m} /\ Range(sending') = {}
          /\ UNCHANGED <<nextId, working, incoming, xaccount>>
          /\ Sends \/ FailsToSend(m)
    BY <1>2, SendKinds DEF exchangeVars
  <2>2. Range(toExchange') \subseteq Range(toExchange) \cup {m}
    <3>1. CASE Sends
      <4>1. toExchange \in Seq(Requests) /\ sending \in Seq(Requests)
        BY DEF Typed, WireTyped
      <4>2. Range(toExchange \o sending) = Range(toExchange) \cup Range(sending)
        BY <4>1, Joined
      <4> QED BY <2>1, <3>1, <4>2 DEF Sends
    <3>2. CASE FailsToSend(m)
      BY <3>2 DEF FailsToSend
    <3> QED BY <2>1, <3>1, <3>2
  <2>3. \A q \in Waiting' : q \in Waiting
    BY <2>1, <2>2 DEF Waiting
  <2> QED BY <1>0, <2>1, <2>3, StockIdle
<1>3. CASE ReadMessage \/ SettlePosition \/ SettlePnl \/ UNCHANGED vars
  <2>1. UNCHANGED <<nextId, working, incoming, xaccount, toExchange, sending>>
    BY <1>3 DEF ReadMessage, SettlePosition, SettlePnl, vars, omsVars, exchangeVars
  <2>2. \A q \in Waiting' : q \in Waiting
    BY <2>1 DEF Waiting
  <2> QED BY <1>0, <2>1, <2>2, StockIdle
<1>4. CASE ProcessRequest
  BY <1>0, <1>4, StockProcess
<1>5. CASE OthersTrade \/ MatchOthers
  BY <1>0, <1>5, StockOthers
<1>6. CASE MatchOwn
  BY <1>0, <1>6, StockOwn
<1>7. CASE FinishRequest
  BY <1>0, <1>7, StockFinish
<1>8. CASE Disconnect
  <2>1. /\ UNCHANGED <<nextId, working, incoming, xaccount, sending>>
        /\ Range(toExchange') \subseteq Range(toExchange)
    BY <1>8, DisconnectIs DEF omsVars, exchangeVars
  <2>2. \A q \in Waiting' : q \in Waiting
    BY <2>1 DEF Waiting
  <2> QED BY <1>0, <2>1, <2>2, StockIdle
<1> QED
  BY <1>1, <1>2, <1>3, <1>4, <1>5, <1>6, <1>7, <1>8 DEF Next
-----------------------------------------------------------------------------
(***************************************************************************)
(* The statement of account: from what the trader will have booked when    *)
(* the fill at hand is settled, the reports on their way lead, one by one, *)
(* to the totals of the exchange, and no total on the way leaves 0..Cap.   *)
(***************************************************************************)
Now ==
  IF settling = << >> THEN account
  ELSE Booked(account, settling[1].side, settling[1].price, settling[1].quantity)

Follows(a, b, m) ==
  b = IF m.type = "TradeReport" THEN Booked(a, orders[m.id].side, m.price, m.quantity)
      ELSE a

Audit(s, a, z) ==
  \E h \in [0..Len(s) -> Accounts] :
    /\ h[0] = a /\ h[Len(s)] = z
    /\ \A j \in DOMAIN s : Follows(h[j - 1], h[j], s[j])

Reaches(a, z) == Audit(toTrader, a, z) /\ (connected => z = xaccount)

Statement == \E z \in Accounts : Reaches(Now, z)

LEMMA AuditAppend ==
  ASSUME NEW s \in Seq(Messages), NEW a, NEW z, Audit(s, a, z), NEW r \in Messages,
         NEW y \in Accounts, Follows(z, y, r)
  PROVE  Audit(s \o <<r>>, a, y)
<1>1. PICK h \in [0..Len(s) -> Accounts] :
        /\ h[0] = a /\ h[Len(s)] = z
        /\ \A j \in DOMAIN s : Follows(h[j - 1], h[j], s[j])
  BY DEF Audit
<1>2. PICK t : t = s \o <<r>>
  OBVIOUS
<1>3. PICK n \in Nat : n = Len(s) /\ DOMAIN s = 1..n
  OBVIOUS
<1>4. t \in Seq(Messages) /\ Len(t) = n + 1 /\ DOMAIN t = 1..(n + 1)
  BY <1>2, <1>3
<1>5. (\A j \in 1..n : t[j] = s[j]) /\ t[n + 1] = r
  BY <1>2, <1>3
<1>6. PICK g : g = [j \in 0..(n + 1) |-> IF j = n + 1 THEN y ELSE h[j]]
  OBVIOUS
<1>7. g \in [0..Len(t) -> Accounts] /\ \A j \in 0..n : g[j] = h[j]
  BY <1>1, <1>3, <1>4, <1>6
<1>8. g[0] = a /\ g[Len(t)] = y /\ g[n] = z
  BY <1>1, <1>3, <1>4, <1>6, <1>7
<1>9. \A j \in DOMAIN t : Follows(g[j - 1], g[j], t[j])
  <2>1. SUFFICES ASSUME NEW j \in 1..(n + 1) PROVE Follows(g[j - 1], g[j], t[j])
    BY <1>4
  <2>2. CASE j = n + 1
    <3>1. g[j - 1] = z /\ g[j] = y /\ t[j] = r
      BY <1>3, <1>4, <1>5, <1>8, <2>2
    <3> QED BY <3>1
  <2>3. CASE j # n + 1
    <3>1. j \in 1..n /\ g[j - 1] = h[j - 1] /\ g[j] = h[j] /\ t[j] = s[j]
      BY <1>5, <1>7, <2>1, <2>3
    <3>2. Follows(h[j - 1], h[j], s[j])
      BY <1>1, <1>3, <3>1
    <3> QED BY <3>1, <3>2
  <2> QED BY <2>2, <2>3
<1>10. Audit(t, a, y)
  BY <1>7, <1>8, <1>9 DEF Audit
<1> QED
  BY <1>2, <1>10

\* Reading a message moves one step along the statement.
LEMMA AuditTail ==
  ASSUME NEW s \in Seq(Messages), s # << >>, NEW a, NEW z, Audit(s, a, z)
  PROVE  \E b \in Accounts : Follows(a, b, Head(s)) /\ Audit(Tail(s), b, z)
<1>1. PICK h \in [0..Len(s) -> Accounts] :
        /\ h[0] = a /\ h[Len(s)] = z
        /\ \A j \in DOMAIN s : Follows(h[j - 1], h[j], s[j])
  BY DEF Audit
<1>2. PICK t : t = Tail(s)
  OBVIOUS
<1>3. /\ Head(s) = s[1] /\ 1 \in DOMAIN s /\ t \in Seq(Messages) /\ Len(s) > 0
      /\ Len(t) = Len(s) - 1
      /\ \A j \in DOMAIN t : j + 1 \in DOMAIN s /\ t[j] = s[j + 1]
  BY <1>2, Beheaded
<1>4. PICK n \in Nat : n = Len(t) /\ Len(s) = n + 1 /\ DOMAIN t = 1..n
  BY <1>3
<1>5. PICK g : g = [j \in 0..n |-> h[j + 1]]
  OBVIOUS
<1>6. g \in [0..Len(t) -> Accounts] /\ \A j \in 0..n : g[j] = h[j + 1]
  BY <1>1, <1>4, <1>5
<1>7. g[0] = h[1] /\ g[Len(t)] = z /\ h[1] \in Accounts
  BY <1>1, <1>4, <1>6
<1>8. Follows(a, h[1], Head(s))
  <2>1. Follows(h[1 - 1], h[1], s[1])
    BY <1>1, <1>3
  <2>2. h[1 - 1] = a
    BY <1>1
  <2> QED BY <1>3, <2>1, <2>2
<1>9. \A j \in DOMAIN t : Follows(g[j - 1], g[j], t[j])
  <2>1. SUFFICES ASSUME NEW j \in 1..n PROVE Follows(g[j - 1], g[j], t[j])
    BY <1>4
  <2>2. j + 1 \in DOMAIN s /\ t[j] = s[j + 1]
    BY <1>3, <1>4
  <2>3. Follows(h[(j + 1) - 1], h[j + 1], s[j + 1])
    BY <1>1, <2>2
  <2>4. g[j - 1] = h[(j + 1) - 1] /\ g[j] = h[j + 1]
    BY <1>6, <2>1
  <2> QED BY <2>2, <2>3, <2>4
<1>10. Audit(t, h[1], z)
  BY <1>6, <1>7, <1>9 DEF Audit
<1> QED
  BY <1>2, <1>7, <1>8, <1>10

LEMMA AuditCut ==
  ASSUME NEW s \in Seq(Messages), NEW n \in 0..Len(s), NEW a, NEW z, Audit(s, a, z)
  PROVE  \E y \in Accounts : Audit(SubSeq(s, 1, n), a, y)
<1>1. PICK h \in [0..Len(s) -> Accounts] :
        /\ h[0] = a /\ h[Len(s)] = z
        /\ \A j \in DOMAIN s : Follows(h[j - 1], h[j], s[j])
  BY DEF Audit
<1>2. PICK t : t = SubSeq(s, 1, n)
  OBVIOUS
<1>3. /\ t \in Seq(Messages) /\ Len(t) = n
      /\ \A j \in DOMAIN t : j \in DOMAIN s /\ t[j] = s[j]
  BY <1>2, Cut
<1>4. DOMAIN t = 1..n /\ n \in Nat /\ Len(s) \in Nat
  BY <1>3
<1>5. PICK g : g = [j \in 0..n |-> h[j]]
  OBVIOUS
<1>6. g \in [0..Len(t) -> Accounts] /\ \A j \in 0..n : g[j] = h[j]
  BY <1>1, <1>3, <1>4, <1>5
<1>7. g[0] = a /\ g[Len(t)] = h[n] /\ h[n] \in Accounts
  BY <1>1, <1>3, <1>4, <1>6
<1>8. \A j \in DOMAIN t : Follows(g[j - 1], g[j], t[j])
  <2>1. SUFFICES ASSUME NEW j \in 1..n PROVE Follows(g[j - 1], g[j], t[j])
    BY <1>4
  <2>2. j \in DOMAIN s /\ t[j] = s[j]
    BY <1>3, <1>4
  <2>3. Follows(h[j - 1], h[j], s[j])
    BY <1>1, <2>2
  <2>4. g[j - 1] = h[j - 1] /\ g[j] = h[j]
    BY <1>6, <2>1
  <2> QED BY <2>2, <2>3, <2>4
<1>9. Audit(t, a, h[n])
  BY <1>6, <1>7, <1>8 DEF Audit
<1> QED
  BY <1>2, <1>7, <1>9

SameSides(s) ==
  \A j \in DOMAIN s : s[j].type = "TradeReport" =>
    orders'[s[j].id].side = orders[s[j].id].side

LEMMA CapGrows ==
  ASSUME Typed, nextId' \in {nextId, nextId + 1}
  PROVE  Cap \in Nat /\ Cap' \in Nat /\ Cap <= Cap'
<1>1. PICK i \in Nat, d \in {0, 1} : nextId = i + 1 /\ nextId' = i + 1 + d
  <2>1. nextId \in Nat \ {0}
    BY DEF Typed, OmsTyped
  <2>2. PICK i \in Nat : nextId = i + 1
    <3>1. nextId - 1 \in Nat /\ nextId = (nextId - 1) + 1
      BY <2>1
    <3> QED BY <3>1
  <2> QED BY <2>2
<1>2. PICK H \in Nat, Q \in Nat : H = InitialHoldings /\ Q = QuoteSize
  BY SessionAssumption
<1>3. nextId - 1 = i /\ nextId' - 1 = i + d
  BY <1>1
<1>4. Cap = H + i * Q /\ Cap' = H + (i + d) * Q
  BY <1>2, <1>3 DEF Cap
<1>5. i * Q \in Nat /\ (i + d) * Q = i * Q + d * Q /\ d * Q \in Nat
  BY <1>1
<1> QED
  BY <1>4, <1>5

\* A statement stays one while the sides of its orders do.
LEMMA AuditStays ==
  ASSUME Typed, nextId' \in {nextId, nextId + 1}, NEW s \in Seq(Messages), SameSides(s),
         NEW a, NEW z \in Accounts, Audit(s, a, z)
  PROVE  Audit(s, a, z)' /\ z \in Accounts'
<1>1. PICK C \in Nat, D \in Nat : C = Cap /\ D = Cap' /\ C <= D
  BY CapGrows
<1>2. Accounts \subseteq Accounts'
  BY <1>1 DEF Accounts
<1>3. PICK h \in [0..Len(s) -> Accounts] :
        /\ h[0] = a /\ h[Len(s)] = z
        /\ \A j \in DOMAIN s : Follows(h[j - 1], h[j], s[j])
  BY DEF Audit
<1>4. h \in [0..Len(s) -> Accounts']
  BY <1>2
<1>5. \A j \in DOMAIN s : Follows(h[j - 1], h[j], s[j])'
  BY <1>3 DEF Follows, SameSides
<1> QED
  BY <1>2, <1>3, <1>4, <1>5 DEF Audit

LEMMA AuditStarts ==
  ASSUME NEW s \in Seq(Messages), NEW a, NEW z, Audit(s, a, z)
  PROVE  a \in Accounts /\ z \in Accounts /\ (s = << >> => a = z)
<1>1. PICK h \in [0..Len(s) -> Accounts] : h[0] = a /\ h[Len(s)] = z
  BY DEF Audit
<1>2. Len(s) \in Nat /\ (s = << >> => Len(s) = 0)
  OBVIOUS
<1> QED
  BY <1>1, <1>2

\* The messages on their way are about orders that are known.
LEMMA KnownMessages ==
  ASSUME Typed, Known
  PROVE  /\ toTrader \in Seq(Messages)
         /\ \A j \in DOMAIN toTrader : toTrader[j].id \in DOMAIN orders
<1>1. toTrader \in Seq(Messages)
  BY DEF Typed, WireTyped
<1>2. \A j \in DOMAIN toTrader : toTrader[j] \in Range(toTrader)
  BY DEF Range
<1> QED
  BY <1>1, <1>2 DEF Known, MessagesKnown, MessageKnown

LEMMA StatementIdle ==
  ASSUME Typed, Known, Statement, nextId' \in {nextId, nextId + 1}, SameSides(toTrader),
         UNCHANGED <<toTrader, account, settling, xaccount, connected>>
  PROVE  Statement'
<1>1. PICK y, s : y = Now /\ s = toTrader
  OBVIOUS
<1>2. PICK z \in Accounts : Audit(s, y, z) /\ (connected => z = xaccount)
  BY <1>1 DEF Statement, Reaches
<1>3. s \in Seq(Messages) /\ SameSides(s)
  BY <1>1, KnownMessages
<1>4. Audit(s, y, z)' /\ z \in Accounts'
  BY <1>2, <1>3, AuditStays
<1>5. y = Now' /\ s = toTrader'
  BY <1>1 DEF Now
<1>6. connected' => z = xaccount'
  BY <1>2, Zenon
<1>7. Reaches(y, z)'
  BY <1>4, <1>5, <1>6 DEF Reaches
<1> QED
  BY <1>4, <1>5, <1>7 DEF Statement

LEMMA StatementReports ==
  ASSUME Typed, Known, Statement,
         UNCHANGED <<orders, nextId, account, settling, connected>>,
         NEW r \in Messages, Report(<<r>>),
         connected => Follows(xaccount, xaccount', r) /\ xaccount' \in Accounts
  PROVE  Statement'
<1>1. PICK y, s : y = Now /\ s = toTrader
  OBVIOUS
<1>2. PICK z \in Accounts : Audit(s, y, z) /\ (connected => z = xaccount)
  BY <1>1 DEF Statement, Reaches
<1>3. s \in Seq(Messages) /\ nextId' \in {nextId, nextId + 1} /\ y = Now'
  BY <1>1, KnownMessages DEF Now
<1>4. \A t : SameSides(t)
  BY DEF SameSides
<1>5. CASE connected
  <2>1. PICK u : u = xaccount' /\ u \in Accounts
    BY <1>5
  <2>2. Follows(z, u, r)
    BY <1>2, <1>5, <2>1
  <2>3. PICK t : t = s \o <<r>>
    OBVIOUS
  <2>4. t \in Seq(Messages)
    BY <1>3, <2>3
  <2>5. Audit(t, y, u)
    BY <1>2, <1>3, <2>1, <2>2, <2>3, AuditAppend
  <2>6. Audit(t, y, u)' /\ u \in Accounts'
    BY <1>3, <1>4, <2>1, <2>4, <2>5, AuditStays
  <2>7. t = toTrader'
    BY <1>1, <1>5, <2>3, ReportedOne
  <2>8. Reaches(y, u)'
    BY <2>1, <2>6, <2>7 DEF Reaches
  <2> QED BY <1>3, <2>6, <2>8 DEF Statement
<1>6. CASE ~connected
  <2>1. s = toTrader'
    BY <1>1, <1>6 DEF Report
  <2>2. Audit(s, y, z)' /\ z \in Accounts'
    BY <1>2, <1>3, <1>4, AuditStays
  <2>3. ~connected'
    BY <1>6, Zenon
  <2>4. Reaches(y, z)'
    BY <2>1, <2>2, <2>3 DEF Reaches
  <2> QED BY <1>3, <2>2, <2>4 DEF Statement
<1> QED
  BY <1>5, <1>6

LEMMA StatementOwn ==
  ASSUME Typed, Known, Statement,
         UNCHANGED <<orders, nextId, account, settling, connected>>,
         NEW a \in Messages, NEW b \in Messages, NEW between \in Accounts,
         TradesWithItself(a, b, between)
  PROVE  Statement'
<1>1. PICK y, s : y = Now /\ s = toTrader
  OBVIOUS
<1>2. PICK z \in Accounts : Audit(s, y, z) /\ (connected => z = xaccount)
  BY <1>1 DEF Statement, Reaches
<1>3. s \in Seq(Messages) /\ nextId' \in {nextId, nextId + 1} /\ y = Now'
  BY <1>1, KnownMessages DEF Now
<1>4. \A t : SameSides(t)
  BY DEF SameSides
<1>5. Report(<<a, b>>) /\ UNCHANGED xaccount
  BY DEF TradesWithItself
<1>6. CASE connected
  <2>1. z = xaccount
    BY <1>2, <1>6
  <2>2. Follows(z, between, a) /\ Follows(between, z, b)
    BY <2>1 DEF TradesWithItself, Follows
  <2>3. PICK q : q = s \o <<a>>
    OBVIOUS
  <2>4. PICK t : t = q \o <<b>>
    OBVIOUS
  <2>5. q \in Seq(Messages) /\ t = s \o <<a, b>>
    <3>1. s \o <<a, b>> = (s \o <<a>>) \o <<b>> /\ s \o <<a>> \in Seq(Messages)
      BY <1>3, AppendBoth
    <3> QED BY <2>3, <2>4, <3>1
  <2>6. t \in Seq(Messages)
    BY <2>4, <2>5
  <2>7. Audit(q, y, between)
    BY <1>2, <1>3, <2>2, <2>3, AuditAppend
  <2>8. Audit(t, y, z)
    BY <1>2, <2>2, <2>4, <2>5, <2>7, AuditAppend
  <2>9. Audit(t, y, z)' /\ z \in Accounts'
    BY <1>2, <1>3, <1>4, <2>6, <2>8, AuditStays
  <2>10. t = toTrader'
    BY <1>1, <1>5, <1>6, <2>5 DEF Report
  <2>11. z = xaccount'
    BY <1>5, <2>1
  <2>12. Reaches(y, z)'
    BY <2>9, <2>10, <2>11 DEF Reaches
  <2> QED BY <1>3, <2>9, <2>12 DEF Statement
<1>7. CASE ~connected
  <2>1. s = toTrader'
    BY <1>1, <1>5, <1>7 DEF Report
  <2>2. Audit(s, y, z)' /\ z \in Accounts'
    BY <1>2, <1>3, <1>4, AuditStays
  <2>3. ~connected'
    BY <1>7, Zenon
  <2>4. Reaches(y, z)'
    BY <2>1, <2>2, <2>3 DEF Reaches
  <2> QED BY <1>3, <2>2, <2>4 DEF Statement
<1> QED
  BY <1>6, <1>7

LEMMA StatementRead ==
  ASSUME Typed, Known, Statement, ReadMessage
  PROVE  Statement'
<1>1. PICK y, s : y = Now /\ s = toTrader
  OBVIOUS
<1>2. PICK z \in Accounts : Audit(s, y, z) /\ (connected => z = xaccount)
  BY <1>1 DEF Statement, Reaches
<1>3. PICK m \in Messages :
        /\ toTrader # << >> /\ m = Head(toTrader) /\ toTrader' = Tail(toTrader)
        /\ DOMAIN orders' = DOMAIN orders
        /\ \A x \in DOMAIN orders : orders'[x] = AfterMessage(orders[x], x, m)
        /\ settling = << >> /\ settling' = FillsOf(orders, m)
        /\ UNCHANGED <<nextId, account, connected, xaccount>>
  BY ReadKinds DEF exchangeVars
<1>4. s \in Seq(Messages) /\ s # << >> /\ m = Head(s) /\ y = account
  BY <1>1, <1>3, KnownMessages DEF Now
<1>5. PICK b \in Accounts : Follows(y, b, m) /\ Audit(Tail(s), b, z)
  BY <1>2, <1>4, AuditTail
<1>6. PICK t : t = Tail(s)
  OBVIOUS
<1>7. /\ t \in Seq(Messages) /\ s[1] = m /\ 1 \in DOMAIN s
      /\ \A j \in DOMAIN t : j + 1 \in DOMAIN s /\ t[j] = s[j + 1]
  BY <1>4, <1>6, Beheaded
<1>8. m.id \in DOMAIN orders /\ \A j \in DOMAIN t : t[j].id \in DOMAIN orders
  BY <1>1, <1>7, KnownMessages
<1>9. \A x \in DOMAIN orders : orders'[x].side = orders[x].side
  <2>1. SUFFICES ASSUME NEW x \in DOMAIN orders PROVE orders'[x].side = orders[x].side
    OBVIOUS
  <2>2. PICK o \in ClientOrders : o = orders[x]
    BY DEF Typed, OmsTyped
  <2>3. PICK h : h = AfterMessage(o, x, m)
    OBVIOUS
  <2>4. h.side = o.side
    BY <2>2, <2>3, AfterMessageIs
  <2> QED BY <1>3, <2>2, <2>3, <2>4
<1>10. SameSides(t)
  BY <1>8, <1>9 DEF SameSides
<1>11. Audit(t, b, z)' /\ z \in Accounts'
  <2>1. nextId' \in {nextId, nextId + 1}
    BY <1>3
  <2> QED BY <1>2, <1>5, <1>6, <1>7, <1>10, <2>1, AuditStays
<1>12. b = Now'
  <2>1. CASE m.type = "TradeReport"
    <3>1. PICK f : f = [side |-> orders[m.id].side, price |-> m.price, quantity |-> m.quantity]
      OBVIOUS
    <3>2. settling' = <<f>> /\ account' = y
      BY <1>3, <1>4, <1>8, <2>1, <3>1 DEF FillsOf
    <3>3. <<f>> # << >> /\ <<f>>[1] = f
      OBVIOUS
    <3>4. Now' = Booked(y, f.side, f.price, f.quantity)
      BY <3>2, <3>3 DEF Now
    <3>5. b = Booked(y, orders[m.id].side, m.price, m.quantity)
      BY <1>5, <2>1 DEF Follows
    <3> QED BY <3>1, <3>4, <3>5
  <2>2. CASE m.type # "TradeReport"
    <3>1. settling' = << >> /\ account' = y
      BY <1>3, <1>4, <2>2 DEF FillsOf
    <3>2. b = y
      BY <1>5, <2>2 DEF Follows
    <3> QED BY <3>1, <3>2 DEF Now
  <2> QED BY <2>1, <2>2
<1>13. connected' => z = xaccount'
  BY <1>2, <1>3, Zenon
<1>14. t = toTrader'
  BY <1>1, <1>3, <1>6
<1>15. Reaches(b, z)'
  BY <1>11, <1>13, <1>14 DEF Reaches
<1> QED
  BY <1>11, <1>12, <1>15 DEF Statement

LEMMA StatementCut ==
  ASSUME Typed, Known, Statement, Disconnect
  PROVE  Statement'
<1>1. PICK y, s : y = Now /\ s = toTrader
  OBVIOUS
<1>2. PICK z \in Accounts : Audit(s, y, z)
  BY <1>1 DEF Statement, Reaches
<1>3. s \in Seq(Messages)
  BY <1>1, KnownMessages
<1>4. PICK n \in 0..Len(s) : toTrader' = SubSeq(s, 1, n)
  BY <1>1, DisconnectIs
<1>5. PICK t : t = SubSeq(s, 1, n)
  OBVIOUS
<1>6. PICK u \in Accounts : Audit(t, y, u)
  BY <1>2, <1>3, <1>5, AuditCut
<1>7. t \in Seq(Messages)
  BY <1>3, <1>5, Cut
<1>8. UNCHANGED <<orders, nextId, account, settling>>
  BY DEF Disconnect, omsVars, traderVars
<1>9. SameSides(t) /\ nextId' \in {nextId, nextId + 1} /\ y = Now'
  BY <1>1, <1>8 DEF SameSides, Now
<1>10. Audit(t, y, u)' /\ u \in Accounts'
  BY <1>6, <1>7, <1>9, AuditStays
<1>11. ~connected' /\ t = toTrader'
  BY <1>4, <1>5, Zenon DEF Disconnect
<1>12. Reaches(y, u)'
  BY <1>10, <1>11 DEF Reaches
<1> QED
  BY <1>9, <1>10, <1>12 DEF Statement

Balances == account.holdings <= Cap

LEMMA SettleIs ==
  ASSUME Typed, Known, Statement, SettlePosition
  PROVE  \E f \in Fills :
           /\ account' = Booked(account, f.side, f.price, f.quantity)
           /\ account' = Now /\ account' \in Accounts
           /\ settling' = << >> /\ observing = << >>
           /\ observing' = <<f>> /\ observing'[1] = f /\ UNCHANGED pnl
<1>1. PICK f \in Fills : settling = <<f>> /\ settling[1] = f
  BY Single DEF Typed, BooksTyped, SettlePosition
<1>2. PICK side \in Sides, price \in Nat, n \in Nat :
        /\ side = f.side /\ price = f.price /\ n = f.quantity
        /\ f = [side |-> side, price |-> price, quantity |-> n]
  BY DEF Fills
<1>3. settling # << >>
  BY DEF SettlePosition
<1>4. Now = Booked(account, side, price, n)
  BY <1>1, <1>2, <1>3 DEF Now
<1>5. Now \in Accounts
  <2>1. PICK y, s : y = Now /\ s = toTrader
    OBVIOUS
  <2>2. PICK z \in Accounts : Audit(s, y, z)
    BY <2>1 DEF Statement, Reaches
  <2>3. s \in Seq(Messages)
    BY <2>1, KnownMessages
  <2>4. y \in Accounts
    BY <2>2, <2>3, AuditStarts
  <2> QED BY <2>1, <2>4
<1>6. Booked(account, side, price, n).holdings \in 0..Cap
  BY <1>4, <1>5 DEF Accounts
<1>7. account \in [cash : Int, holdings : Nat]
  BY DEF Typed, BooksTyped
<1>8. ApplyFill(account, f) = Booked(account, side, price, n)
  BY <1>2, <1>6, <1>7, BookedExactly
<1>9. /\ account' = ApplyFill(account, f) /\ settling' = << >>
      /\ observing' = <<f>> /\ observing'[1] = f /\ UNCHANGED pnl
  BY <1>1 DEF SettlePosition
<1>10. observing = << >>
  BY <1>3 DEF Typed, BooksTyped
<1> QED
  BY <1>2, <1>4, <1>5, <1>8, <1>9, <1>10

LEMMA StatementSettle ==
  ASSUME Typed, Known, Statement, SettlePosition
  PROVE  Statement'
<1>1. PICK y, s : y = Now /\ s = toTrader
  OBVIOUS
<1>2. PICK z \in Accounts : Audit(s, y, z) /\ (connected => z = xaccount)
  BY <1>1 DEF Statement, Reaches
<1>3. account' = y /\ settling' = << >>
  BY <1>1, SettleIs
<1>4. UNCHANGED <<orders, nextId, toTrader, xaccount, connected>>
  BY DEF SettlePosition, omsVars, exchangeVars
<1>5. s \in Seq(Messages) /\ SameSides(s) /\ nextId' \in {nextId, nextId + 1}
  BY <1>1, <1>4, KnownMessages DEF SameSides
<1>6. Audit(s, y, z)' /\ z \in Accounts'
  BY <1>2, <1>5, AuditStays
<1>7. y = Now' /\ s = toTrader'
  BY <1>1, <1>3, <1>4 DEF Now
<1>8. connected' => z = xaccount'
  BY <1>2, <1>4, Zenon
<1>9. Reaches(y, z)'
  BY <1>6, <1>7, <1>8 DEF Reaches
<1> QED
  BY <1>6, <1>7, <1>9 DEF Statement

\* What the P&L will be when the fill at hand has reached it: this, and not the
\* P&L itself, explains the position tracker's cash at every moment.
Observed == IF observing = << >> THEN pnl ELSE ApplyPnl(pnl, observing[1])

Explained ==
  /\ Observed.position = account.holdings - InitialHoldings
  /\ Observed.realized - Observed.open_notional = account.cash - InitialCash

LEMMA PositionSettled ==
  ASSUME Typed, Known, Statement, Explained, SettlePosition
  PROVE  Explained'
<1>1. PICK f \in Fills : /\ account' = Booked(account, f.side, f.price, f.quantity)
                         /\ observing = << >> /\ observing' = <<f>> /\ observing'[1] = f
                         /\ UNCHANGED pnl
  BY SettleIs
<1>2. PICK q \in [position : Int, open_notional : Int, realized : Int],
           p \in [position : Int, open_notional : Int, realized : Int] :
        q = pnl /\ q = Observed /\ p = Observed' /\ p = ApplyPnl(q, f)
  <2>1. Observed = pnl /\ Observed' = ApplyPnl(pnl, f)
    BY <1>1 DEF Observed
  <2> QED BY <2>1, ApplyPnlTyped DEF Typed, BooksTyped
<1>3. PICK d \in Int, x \in Int :
        /\ d = Change(f) /\ x = f.quantity * f.price
        /\ d * f.price = (IF f.side = "Buy" THEN x ELSE -x)
        /\ d = (IF f.side = "Buy" THEN f.quantity ELSE -f.quantity)
  <2>1. f.quantity \in Int /\ f.price \in Int
    BY DEF Fills
  <2>2. (-f.quantity) * f.price = -(f.quantity * f.price) /\ f.quantity * f.price \in Int
    BY <2>1
  <2> QED BY <2>1, <2>2 DEF Change
<1>4. /\ p.position = q.position + d
      /\ p.realized - p.open_notional = q.realized - q.open_notional - d * f.price
  BY <1>2, <1>3, ApplyPnlExplains
<1>5. PICK g \in Int, k \in Nat : g = account.cash /\ k = account.holdings
  BY DEF Typed, BooksTyped
<1>6. /\ account'.holdings = k + d
      /\ account'.cash = g - (IF f.side = "Buy" THEN x ELSE -x)
  <2>1. f.quantity \in Int
    BY DEF Fills
  <2>2. CASE f.side = "Buy"
    BY <1>1, <1>3, <1>5, <2>1, <2>2 DEF Booked
  <2>3. CASE f.side # "Buy"
    <3>1. account' = [cash |-> g + x, holdings |-> k - f.quantity]
      BY <1>1, <1>3, <1>5, <2>3 DEF Booked
    <3> QED BY <1>3, <2>1, <2>3, <3>1
  <2> QED BY <2>2, <2>3
<1>7. /\ q.position = k - InitialHoldings
      /\ q.realized - q.open_notional = g - InitialCash
  BY <1>2, <1>5 DEF Explained
<1>8. InitialHoldings \in Int /\ InitialCash \in Int
  BY SessionAssumption
<1>9. /\ q.position \in Int /\ q.realized \in Int /\ q.open_notional \in Int
      /\ p.position \in Int /\ p.realized \in Int /\ p.open_notional \in Int
  BY <1>2
<1>10. PICK v \in Int : v = (IF f.side = "Buy" THEN x ELSE -x)
  BY <1>3
<1>11. p.position = (k + d) - InitialHoldings
  BY <1>4, <1>7, <1>8, <1>9
<1>12. p.realized - p.open_notional = (g - v) - InitialCash
  BY <1>3, <1>4, <1>7, <1>8, <1>9, <1>10
<1> QED
  BY <1>2, <1>6, <1>10, <1>11, <1>12 DEF Explained

LEMMA PnlSettled ==
  ASSUME Typed, Explained, SettlePnl
  PROVE  Explained'
<1>1. Observed' = Observed /\ UNCHANGED account
  BY DEF SettlePnl, Observed
<1> QED
  BY <1>1 DEF Explained

LEMMA LedgerIs ==
  ASSUME Typed, Known, Statement, Balances
  PROVE  SettledLikeTheLedger
<1>1. account.holdings <= InitialHoldings + MaxId * QuoteSize
  <2>1. PICK k \in Nat, C \in Nat : k = account.holdings /\ C = Cap /\ k <= C
    BY CapIs DEF Typed, BooksTyped, Balances
  <2>2. PICK M \in Int : M = InitialHoldings + MaxId * QuoteSize
    BY MaxIdIs, SessionAssumption DEF Typed, StrategyTyped
  <2> QED BY <2>1, <2>2, CapIs
<1>2. ASSUME Quiet PROVE account = xaccount
  <2>1. PICK y, s : y = Now /\ s = toTrader
    OBVIOUS
  <2>2. PICK z \in Accounts : Audit(s, y, z) /\ (connected => z = xaccount)
    BY <2>1 DEF Statement, Reaches
  <2>3. s \in Seq(Messages) /\ s = << >> /\ y = account /\ connected
    BY <1>2, <2>1, KnownMessages DEF Quiet, Now
  <2>4. y = z
    BY <2>2, <2>3, AuditStarts
  <2> QED BY <2>2, <2>3, <2>4
<1> QED
  BY <1>1, <1>2 DEF SettledLikeTheLedger

Money == Stock /\ Statement /\ Balances /\ Explained

LEMMA MoneyInit == Init => Money
<1> SUFFICES ASSUME Init PROVE Money
  OBVIOUS
<1>1. Stock
  BY StockInit
<1>2. /\ settling = << >> /\ toTrader = << >> /\ nextId = 1
      /\ account = Deposits /\ xaccount = Deposits /\ pnl = NoPnl
      /\ observing = << >>
  BY DEF Init
<1>3. InitialCash \in Int /\ InitialHoldings \in Nat /\ QuoteSize \in Nat
  BY SessionAssumption
<1>4. Cap = InitialHoldings
  <2>1. (1 - 1) * QuoteSize = 0
    BY <1>3
  <2> QED BY <1>2, <1>3, <2>1 DEF Cap
<1>5. PICK y : y = Deposits
  OBVIOUS
<1>6. y \in Accounts /\ y.cash = InitialCash /\ y.holdings = InitialHoldings
  BY <1>3, <1>4, <1>5 DEF Deposits, Accounts
<1>7. Audit(<< >>, y, y)
  <2>1. PICK h : h = [j \in 0..0 |-> y]
    OBVIOUS
  <2>2. h \in [0..0 -> Accounts] /\ h[0] = y
    BY <1>6, <2>1
  <2>3. Len(<< >>) = 0 /\ DOMAIN << >> = {}
    BY Emptied
  <2> QED BY <2>2, <2>3 DEF Audit
<1>8. y = Now
  BY <1>2, <1>5 DEF Now
<1>9. Statement
  BY <1>2, <1>5, <1>6, <1>7, <1>8 DEF Statement, Reaches
<1>10. Balances
  BY <1>2, <1>3, <1>4, <1>5, <1>6 DEF Balances
<1>11. Explained
  BY <1>2, <1>3, <1>5, <1>6 DEF Explained, Observed, NoPnl
<1> QED
  BY <1>1, <1>9, <1>10, <1>11 DEF Money

LEMMA BooksStay ==
  ASSUME Typed, Balances, Explained, UNCHANGED <<account, pnl, observing>>,
         nextId' \in {nextId, nextId + 1}
  PROVE  Balances' /\ Explained'
<1>1. Explained'
  BY DEF Explained, Observed
<1>2. PICK k \in Nat, C \in Nat, D \in Nat :
        k = account.holdings /\ C = Cap /\ D = Cap' /\ C <= D /\ k <= C
  BY CapGrows DEF Typed, BooksTyped, Balances
<1> QED
  BY <1>1, <1>2 DEF Balances

LEMMA ProcessReports ==
  ASSUME Typed, ProcessRequest
  PROVE  \E r \in Messages : r.type # "TradeReport" /\ Report(<<r>>)
<1>1. PICK m \in Requests :
        /\ Handles(m)
        /\ Refuses(m) \/ Admits(m) \/ Removes(m) \/ Amends(m) \/ Requeues(m)
  BY ProcessKinds
<1>2. CASE Refuses(m)
  <2>1. PICK r \in Messages : r = [type |-> "Rejected", id |-> m.id] /\ Report(<<r>>)
    BY <1>1, <1>2, RefusesIs
  <2> QED BY <2>1
<1>3. CASE Admits(m)
  <2>1. PICK r \in Messages : /\ r = [type |-> "Accepted", id |-> m.id, quantity |-> m.quantity]
                              /\ Report(<<r>>)
    BY <1>1, <1>3, AdmitsIs
  <2> QED BY <2>1
<1>4. CASE Removes(m)
  <2>1. PICK r \in Messages : r = [type |-> "Cancelled", id |-> m.id] /\ Report(<<r>>)
    BY <1>1, <1>4, RemovesIs
  <2> QED BY <2>1
<1>5. CASE Exchanges(m)
  <2>1. PICK r \in Messages :
          /\ r = [type |-> "Replaced", id |-> m.id, new_id |-> m.new_id,
                  price |-> m.price, quantity |-> m.quantity]
          /\ Report(<<r>>)
    BY <1>1, <1>5, ExchangesIs
  <2> QED BY <2>1
<1> QED
  BY <1>1, <1>2, <1>3, <1>4, <1>5 DEF Amends, Requeues

LEMMA MoneyStep == Typed /\ Known /\ Money /\ [Next]_vars => Money'
<1> SUFFICES ASSUME Typed, Known, Money, [Next]_vars PROVE Money'
  OBVIOUS
<1>0. Stock /\ Statement /\ Balances /\ Explained
  BY DEF Money
<1>1. Typed' /\ Known' /\ Stock'
  BY <1>0, TypedStep, KnownStep, StockStep
<1>2. SUFFICES Statement' /\ Balances' /\ Explained'
  BY <1>1 DEF Money
<1>3. \A j \in DOMAIN toTrader : toTrader[j].id \in DOMAIN orders
  BY KnownMessages
<1>4. CASE BeginCycle \/ UpdateQuote \/ BeginWithdraw \/ Withdraw \/ MomentumOrder
  <2>1. Asks
    BY <1>4, StrategyThreadTyped
  <2>2. /\ UNCHANGED <<toTrader, account, settling, pnl, observing, xaccount, connected>>
        /\ nextId' \in {nextId, nextId + 1}
        /\ \A x \in DOMAIN orders : SameOrder(x)
    BY <2>1, AskedIs DEF Others, traderVars, exchangeVars
  <2>3. SameSides(toTrader)
    BY <1>3, <2>2 DEF SameSides, SameOrder
  <2>4. Statement'
    BY <1>0, <2>2, <2>3, StatementIdle
  <2> QED BY <1>0, <2>2, <2>4, BooksStay
<1>5. CASE Send
  <2>1. PICK m \in Requests :
          /\ UNCHANGED <<nextId, toTrader, account, settling, pnl, observing, xaccount, connected>>
          /\ Sends \/ FailsToSend(m)
    BY <1>5, SendKinds DEF traderVars, exchangeVars
  <2>2. \A j \in DOMAIN toTrader : toTrader[j].id \in DOMAIN orders'
    <3>1. /\ MessagesKnown' /\ UNCHANGED toTrader
      BY <1>1, <2>1 DEF Known
    <3>2. \A j \in DOMAIN toTrader : toTrader[j] \in Range(toTrader')
      BY <3>1, KnownMessages DEF Range
    <3> QED BY <3>1, <3>2 DEF MessagesKnown, MessageKnown
  <2>3. SameSides(toTrader)
    <3>1. CASE Sends
      BY <3>1 DEF Sends, SameSides
    <3>2. CASE FailsToSend(m)
      <4>1. Undone(orders, m, orders')
        BY <3>2, FailedSend
      <4>2. \A x \in DOMAIN orders' : orders'[x].side = orders[x].side
        BY <4>1 DEF Undone
      <4> QED BY <2>2, <4>2 DEF SameSides
    <3> QED BY <2>1, <3>1, <3>2
  <2>4. Statement'
    BY <1>0, <2>1, <2>3, StatementIdle
  <2> QED BY <1>0, <2>1, <2>4, BooksStay
<1>6. CASE ReadMessage
  <2>1. UNCHANGED <<account, pnl, observing, nextId>>
    BY <1>6 DEF ReadMessage
  <2> QED BY <1>0, <1>6, <2>1, StatementRead, BooksStay
<1>7. CASE SettlePosition
  <2>1. account' \in Accounts
    BY <1>0, <1>7, SettleIs
  <2>2. Cap' = Cap
    BY <1>7 DEF SettlePosition, Cap, omsVars
  <2>3. Balances'
    BY <2>1, <2>2 DEF Balances, Accounts
  <2> QED BY <1>0, <1>7, <2>3, StatementSettle, PositionSettled
<1>11. CASE SettlePnl
  <2>1. UNCHANGED <<orders, nextId, toTrader, account, settling, xaccount, connected>>
    BY <1>11 DEF SettlePnl, omsVars, exchangeVars
  <2>2. SameSides(toTrader)
    BY <2>1 DEF SameSides
  <2>3. Statement'
    BY <1>0, <2>1, <2>2, StatementIdle
  <2>4. Balances'
    BY <1>0, <2>1 DEF Balances, Cap
  <2> QED BY <1>0, <1>11, <2>3, <2>4, PnlSettled
<1>8. CASE UNCHANGED vars
  <2>1. /\ UNCHANGED <<nextId, toTrader, account, settling, pnl, observing, xaccount, connected>>
        /\ UNCHANGED orders
    BY <1>8 DEF vars, omsVars, traderVars, exchangeVars
  <2>2. SameSides(toTrader)
    BY <2>1 DEF SameSides
  <2>3. Statement'
    BY <1>0, <2>1, <2>2, StatementIdle
  <2> QED BY <1>0, <2>1, <2>3, BooksStay
<1>9. CASE ProcessRequest \/ OthersTrade \/ MatchOthers \/ MatchOwn \/ FinishRequest
  <2>1. UNCHANGED <<orders, nextId, account, settling, pnl, observing, connected>>
    <3>1. CASE ProcessRequest
      BY <3>1 DEF ProcessRequest, omsVars, traderVars
    <3>2. CASE OthersTrade
      BY <3>2 DEF OthersTrade, omsVars, traderVars
    <3>3. CASE MatchOthers
      BY <3>3 DEF MatchOthers, omsVars, traderVars
    <3>4. CASE MatchOwn
      BY <3>4 DEF MatchOwn, omsVars, traderVars
    <3>5. CASE FinishRequest
      BY <3>5 DEF FinishRequest, omsVars, traderVars
    <3> QED BY <1>9, <3>1, <3>2, <3>3, <3>4, <3>5
  <2>2. Balances' /\ Explained'
    BY <1>0, <2>1, BooksStay
  <2>3. CASE ProcessRequest
    <3>1. PICK r \in Messages : r.type # "TradeReport" /\ Report(<<r>>)
      BY <2>3, ProcessReports
    <3>2. UNCHANGED xaccount
      BY <2>3 DEF ProcessRequest
    <3>3. connected => xaccount \in Accounts
      BY <1>0 DEF Statement, Reaches
    <3>4. connected => Follows(xaccount, xaccount', r) /\ xaccount' \in Accounts
      BY <3>1, <3>2, <3>3 DEF Follows
    <3>5. Statement'
      BY <1>0, <2>1, <3>1, <3>4, StatementReports
    <3> QED BY <2>2, <3>5
  <2>4. CASE OthersTrade \/ MatchOthers
    <3>1. PICK r \in Messages : TradesWithOthers(r)
      BY <1>0, <1>1, <2>4, StockOthers
    <3>2. Report(<<r>>) /\ Follows(xaccount, xaccount', r) /\ xaccount' \in Accounts
      BY <3>1 DEF TradesWithOthers, Follows
    <3>3. Statement'
      BY <1>0, <2>1, <3>2, StatementReports
    <3> QED BY <2>2, <3>3
  <2>5. CASE MatchOwn
    <3>1. PICK a \in Messages, b \in Messages, between \in Accounts :
            TradesWithItself(a, b, between)
      BY <1>0, <1>1, <2>5, StockOwn
    <3>2. Statement'
      BY <1>0, <2>1, <3>1, StatementOwn
    <3> QED BY <2>2, <3>2
  <2>6. CASE FinishRequest
    <3>1. UNCHANGED <<toTrader, xaccount>>
      BY <2>6, FinishIs
    <3>2. SameSides(toTrader)
      BY <2>1 DEF SameSides
    <3>3. Statement'
      BY <1>0, <2>1, <3>1, <3>2, StatementIdle
    <3> QED BY <2>2, <3>3
  <2> QED BY <1>9, <2>3, <2>4, <2>5, <2>6
<1>10. CASE Disconnect
  <2>1. UNCHANGED <<account, pnl, observing, nextId>>
    BY <1>10 DEF Disconnect, traderVars, omsVars
  <2> QED BY <1>0, <1>10, <2>1, StatementCut, BooksStay
<1> QED
  BY <1>4, <1>5, <1>6, <1>7, <1>8, <1>9, <1>10, <1>11 DEF Next
-----------------------------------------------------------------------------
(***************************************************************************)
(* The theorems.                                                           *)
(***************************************************************************)
Session == Typed /\ Known /\ Sided /\ Quoted /\ Agreement /\ Money /\ PendingIsUnderWay

LEMMA PendingInit == Init => PendingIsUnderWay
<1>1. Init => DOMAIN orders = {}
  BY Emptied DEF Init
<1> QED
  BY <1>1 DEF PendingIsUnderWay

LEMMA SessionInit == Init => Session
  BY TypedInit, KnownInit, SidedInit, QuotedInit, AgreementInit, MoneyInit, PendingInit
     DEF Session

LEMMA SessionStep == Session /\ [Next]_vars => Session'
  BY TypedStep, KnownStep, SidedStep, QuotedStep, AgreementStep, MoneyStep, PendingStep
     DEF Session

\* The inductive invariant of the session: what the OMS knows of every id that
\* is under way, what the quotes follow, what the trader was told, and how its
\* books lead to the ledger's, after every step of every thread.
THEOREM SessionInvariant == Spec => []Session
  BY SessionInit, SessionStep, PTL DEF Spec

\* Every variable of the session keeps its type: ids stay below the next one,
\* requests and messages have the fields their type has, what rests is never
\* empty, and cash and holdings stay whole numbers.
THEOREM SessionTyped == Spec => []Typed
<1>1. Session => Typed
  BY DEF Session
<1> QED
  BY <1>1, SessionInvariant, PTL

\* A quoting strategy never has two orders on one side at the exchange or on
\* their way there, whatever fills, replaces, rejections and failed sends race.
THEOREM OneOrderPerQuoteAlways == Spec => []OneOrderPerQuote
<1>1. Session => OneOrderPerQuote
  BY OneItemCounts DEF Session, Quoted
<1> QED
  BY <1>1, SessionInvariant, PTL

\* When nothing is under way the OMS's orders are the exchange's.
THEOREM AgreedWhenQuiet == Spec => []QuietMeansAgreed
<1>1. Session => QuietMeansAgreed
  BY AgreementWhenQuiet DEF Session
<1> QED
  BY <1>1, SessionInvariant, PTL

\* When nothing is under way the trader's cash and holdings are the ledger's,
\* and the unsigned holdings never wrap on the way there.
THEOREM TraderBooksLikeTheLedger == Spec => []SettledLikeTheLedger
<1>1. Session => SettledLikeTheLedger
  BY LedgerIs DEF Session, Money
<1> QED
  BY <1>1, SessionInvariant, PTL

\* PositionTracker and PnlTracker agree whenever no fill is between them, the
\* rounding of a partial close included.
THEOREM ProfitExplainsCash == Spec => []PnlExplainsCash
<1>1. Session => PnlExplainsCash
  BY DEF Session, Money, Explained, Observed, PnlExplainsCash
<1> QED
  BY <1>1, SessionInvariant, PTL

\* While the connection lasts, an order that is locked by a pending cancel or
\* replace has its request or the answer to it under way.
THEOREM LockedOrdersAreAnswered == Spec => []PendingIsUnderWay
<1>1. Session => PendingIsUnderWay
  BY DEF Session
<1> QED
  BY <1>1, SessionInvariant, PTL

\* The risk gate never lets more be open for sale, resting or being matched,
\* than the ledger holds: replaces, partial fills and trades of the account
\* with itself included.
THEOREM NeverOversold == Spec => []Solvent
<1>1. Session => Solvent
  BY DEF Session, Money, Stock
<1> QED
  BY <1>1, SessionInvariant, PTL
=============================================================================
