--------------------------- MODULE TradingSession ---------------------------
(***************************************************************************)
(* One trader connected to the exchange: a strategy thread that quotes,    *)
(* the reader thread that feeds the order management system, the two       *)
(* directions of the connection, and the exchange as this account sees it. *)
(*                                                                         *)
(* The strategy thread registers a request under the OMS's lock and sends  *)
(* it in a later step; the reader thread handles a message and hands its   *)
(* fill to the two trackers, each under its own lock, in two later steps.  *)
(* A strategy that looked at its order before the reader changed it loses  *)
(* the race inside cancel_order or replace_order, which then do nothing,   *)
(* so looking and calling are one step.                                    *)
(*                                                                         *)
(* Other participants may offer any quantity at any price: they fill what  *)
(* they like of an order when it arrives and while it rests.               *)
(***************************************************************************)
EXTENDS OrderManagement

CONSTANTS
  Strategies,     \* of "Ladder", "MarketMaker" and "Momentum"
  References,     \* prices the reference (or the book's midpoint) may take
  HalfSpread, QuoteSize,
  MaxPosition, MaxHoldings,     \* net position, or holdings, a strategy goes up to
  InitialCash, InitialHoldings, \* deposited on both sides of the connection
  MayDisconnect,  \* the connection may drop
  MaxIdOf         \* bound: client order ids a strategy uses

ASSUME SessionAssumption ==
  /\ References \subseteq Nat /\ HalfSpread \in Nat \ {0} /\ QuoteSize \in Nat \ {0}
  /\ \A r \in References : r > HalfSpread
  /\ MayDisconnect \in BOOLEAN /\ MaxIdOf \in [Strategies -> Nat]
  /\ MaxPosition \in Int /\ InitialCash \in Int /\ InitialHoldings \in Nat

\* A session never trades enough to wrap the unsigned 64-bit holdings.
ASSUME WidthAssumption ==
  \A s \in Strategies : InitialHoldings + MaxIdOf[s] * QuoteSize < QuantityModulus

VARIABLES
  strategy, reference, \* which strategy runs, and its reference price
  todo,       \* quotes still to be updated in this cycle
  quote,      \* side -> order_id_ of the RestingQuote, 0 for none
  stopped,    \* the quotes were withdrawn for shutdown
  orders, nextId,      \* the OMS
  sending,    \* the request registered and not yet sent
  account, pnl,        \* PositionTracker and PnlTracker
  settling,   \* the fill handed to the fill sink and not yet applied
  observing,  \* the fill PositionTracker has applied and PnlTracker has not
  connected, toExchange, toTrader,
  working,    \* exchange: resting orders of this account
  incoming,   \* exchange: the order being matched
  xaccount    \* exchange: the ledger's totals

strategyVars == <<strategy, reference, todo, quote, stopped>>
omsVars == <<orders, nextId>>
traderVars == <<account, pnl, settling, observing>>
exchangeVars == <<working, incoming, xaccount>>
vars == <<strategyVars, omsVars, sending, traderVars, connected, toExchange,
          toTrader, exchangeVars>>

Sides == {"Buy", "Sell"}

Contra(side) == IF side = "Buy" THEN "Sell" ELSE "Buy"

Prices == {r - HalfSpread : r \in References} \cup {r + HalfSpread : r \in References}

Crosses(side, limit, p) == IF side = "Buy" THEN limit >= p ELSE limit <= p

MaxId == MaxIdOf[strategy]

Deposits == [cash |-> InitialCash, holdings |-> InitialHoldings]

Init ==
  /\ strategy \in Strategies /\ reference \in References
  /\ todo = << >> /\ quote = [side \in Sides |-> 0] /\ stopped = FALSE
  /\ orders = << >> /\ nextId = 1 /\ sending = << >>
  /\ account = Deposits /\ pnl = NoPnl /\ settling = << >> /\ observing = << >>
  /\ connected = TRUE /\ toExchange = << >> /\ toTrader = << >>
  /\ working = << >> /\ incoming = << >> /\ xaccount = Deposits
-----------------------------------------------------------------------------
(***************************************************************************)
(* A quote cycle.  Nothing is the desired price of a quote to withdraw.    *)
(***************************************************************************)
Nothing == 0

Desired(side, r) == IF side = "Buy" THEN r - HalfSpread ELSE r + HalfSpread

\* LadderMarketMaker: the reference walks one step; a side at its cap is
\* withdrawn; the side that moves away from the other goes first.
LadderPlan(r) ==
  LET want(side) == [side |-> side,
                     price |-> IF (IF side = "Buy" THEN pnl.position >= MaxPosition
                                                   ELSE pnl.position <= -MaxPosition)
                               THEN Nothing ELSE Desired(side, r)]
  IN  IF r >= reference THEN <<want("Sell"), want("Buy")>>
                        ELSE <<want("Buy"), want("Sell")>>

\* MarketMakerStrategy: only the bid is capped, and the ask goes first only
\* if the new bid would meet the ask that is believed to rest.
MarketMakerPlan(r) ==
  LET bid == [side |-> "Buy",
              price |-> IF account.holdings >= MaxHoldings THEN Nothing
                        ELSE Desired("Buy", r)]
      ask == [side |-> "Sell", price |-> Desired("Sell", r)]
      Rests(side) == /\ quote[side] \in DOMAIN orders
                     /\ ~IsTerminal(orders[quote[side]].state)
      bidMeetsAsk == /\ bid.price # Nothing /\ Rests("Sell")
                     /\ bid.price >= orders[quote["Sell"]].price
      askMeetsBid == Rests("Buy") /\ ask.price <= orders[quote["Buy"]].price
  IN  IF bidMeetsAsk /\ ~askMeetsBid THEN <<ask, bid>> ELSE <<bid, ask>>

Between(r) ==
  {s \in References : (r < s /\ s < reference) \/ (reference < s /\ s < r)}

BeginCycle ==
  /\ todo = << >> /\ ~stopped /\ sending = << >> /\ nextId <= MaxId
  /\ \E r \in References :
       /\ reference' = r
       /\ \/ strategy = "Ladder" /\ Between(r) = {} /\ todo' = LadderPlan(r)
          \/ strategy = "MarketMaker" /\ todo' = MarketMakerPlan(r)
  /\ UNCHANGED <<strategy, quote, stopped, omsVars, sending, traderVars, connected,
                 toExchange, toTrader, exchangeVars>>

NewOrder(side, price, quantity, tif) ==
  [type |-> "NewOrder", id |-> nextId, side |-> side, price |-> price,
   quantity |-> quantity, time_in_force |-> tif]

\* TraderRiskGatedOms::submit_new_order, up to the send.
Submit(side, price, quantity, tif) ==
  IF TraderRiskAccepts(account, side, price, quantity)
  THEN /\ orders' = Put(orders, nextId, ClientOrder(side, price, quantity, tif))
       /\ nextId' = nextId + 1
       /\ sending' = <<NewOrder(side, price, quantity, tif)>>
  ELSE UNCHANGED <<omsVars, sending>>

RequestCancel(id) ==
  /\ orders' = [orders EXCEPT ![id].pending = "Cancel"]
  /\ sending' = <<[type |-> "CancelOrder", id |-> id]>>
  /\ UNCHANGED nextId

RequestReplace(id, price) ==
  /\ orders' = RegisterReplace(orders, id, nextId, price, QuoteSize)
  /\ nextId' = nextId + 1
  /\ sending' = <<[type |-> "ReplaceOrder", id |-> id, new_id |-> nextId,
                   price |-> price, quantity |-> QuoteSize]>>

\* RestingQuote::update and MarketMakerStrategy::update_side: whether the
\* order at hand is close enough to what is wanted.
CloseEnough(order, price) ==
  order.price = price /\ (strategy = "Ladder" => order.remaining = QuoteSize)

Settled(order) == order.state # "PendingNew" /\ order.pending = "None"

UpdateQuote ==
  /\ todo # << >> /\ ~stopped /\ sending = << >> /\ nextId <= MaxId
  /\ todo' = Tail(todo)
  /\ LET side == Head(todo).side
         want == Head(todo).price
         id   == quote[side]
         gone == ~(id \in DOMAIN orders /\ ~IsTerminal(orders[id].state))
     IN  \/ /\ gone /\ want = Nothing
            /\ quote' = [quote EXCEPT ![side] = 0]
            /\ UNCHANGED <<omsVars, sending>>
         \/ /\ gone /\ want # Nothing
            /\ Submit(side, want, QuoteSize, "GTC")
            /\ quote' = [quote EXCEPT ![side] = IF nextId' = nextId THEN 0 ELSE nextId]
         \/ /\ ~gone /\ Settled(orders[id]) /\ want = Nothing
            /\ RequestCancel(id) /\ UNCHANGED quote
         \/ /\ ~gone /\ Settled(orders[id]) /\ want # Nothing
            /\ ~CloseEnough(orders[id], want)
            /\ RequestReplace(id, want)
            /\ quote' = [quote EXCEPT ![side] = nextId]
         \/ /\ ~gone
            /\ \/ ~Settled(orders[id])
               \/ want # Nothing /\ CloseEnough(orders[id], want)
            /\ UNCHANGED <<omsVars, sending, quote>>
  /\ UNCHANGED <<strategy, reference, stopped, traderVars, connected, toExchange,
                 toTrader, exchangeVars>>

\* LadderMarketMaker::withdraw_all: the bids, then the asks.
BeginWithdraw ==
  /\ strategy = "Ladder" /\ todo = << >> /\ ~stopped /\ sending = << >>
  /\ stopped' = TRUE
  /\ todo' = <<[side |-> "Buy", price |-> Nothing], [side |-> "Sell", price |-> Nothing]>>
  /\ UNCHANGED <<strategy, reference, quote, omsVars, sending, traderVars, connected,
                 toExchange, toTrader, exchangeVars>>

\* RestingQuote::withdraw: the quote is forgotten whether or not it could be
\* cancelled.
Withdraw ==
  /\ stopped /\ todo # << >> /\ sending = << >>
  /\ todo' = Tail(todo)
  /\ quote' = [quote EXCEPT ![Head(todo).side] = 0]
  /\ IF MayChange(orders, quote[Head(todo).side])
     THEN RequestCancel(quote[Head(todo).side]) ELSE UNCHANGED <<omsVars, sending>>
  /\ UNCHANGED <<strategy, reference, stopped, traderVars, connected, toExchange,
                 toTrader, exchangeVars>>

\* MomentumStrategy: an IOC order through the touch, shrunk to what the cap
\* leaves.
MomentumOrder ==
  /\ strategy = "Momentum" /\ sending = << >> /\ nextId <= MaxId
  /\ \E side \in Sides, r \in References :
       LET room == IF side = "Buy" THEN MaxPosition - pnl.position
                                   ELSE MaxPosition + pnl.position
       IN  /\ room > 0
           /\ Submit(side, Desired(Contra(side), r), Min({QuoteSize, room}), "IOC")
  /\ UNCHANGED <<strategyVars, traderVars, connected, toExchange, toTrader,
                 exchangeVars>>

\* OrderEntryClient::send, and what the OMS and the quote undo when it fails.
Send ==
  /\ sending # << >>
  /\ sending' = << >>
  /\ IF connected
     THEN toExchange' = toExchange \o sending /\ UNCHANGED <<orders, quote>>
     ELSE LET m == sending[1]
          IN  /\ orders' = SendFailed(orders, m)
              /\ quote' = [side \in Sides |->
                             IF m.type = "ReplaceOrder" /\ quote[side] = m.new_id
                             THEN m.id ELSE quote[side]]
              /\ UNCHANGED toExchange
  /\ UNCHANGED <<strategy, reference, todo, stopped, nextId, traderVars, connected, toTrader, exchangeVars>>
-----------------------------------------------------------------------------
(***************************************************************************)
(* The reader thread.                                                      *)
(***************************************************************************)
ReadMessage ==
  /\ toTrader # << >> /\ settling = << >> /\ observing = << >>
  /\ toTrader' = Tail(toTrader)
  /\ orders' = HandleMessage(orders, Head(toTrader))
  /\ settling' = FillsOf(orders, Head(toTrader))
  /\ UNCHANGED <<strategyVars, nextId, sending, account, pnl, observing, connected,
                 toExchange, exchangeVars>>

\* The fill sink: positions first, then the extra sink.  A strategy may look
\* at either of them in between.
SettlePosition ==
  /\ settling # << >>
  /\ settling' = << >> /\ observing' = settling
  /\ account' = ApplyFill(account, settling[1])
  /\ UNCHANGED <<strategyVars, omsVars, sending, pnl, connected, toExchange, toTrader,
                 exchangeVars>>

SettlePnl ==
  /\ observing # << >>
  /\ observing' = << >>
  /\ pnl' = ApplyPnl(pnl, observing[1])
  /\ UNCHANGED <<strategyVars, omsVars, sending, account, settling, connected, toExchange,
                 toTrader, exchangeVars>>
-----------------------------------------------------------------------------
(***************************************************************************)
(* The exchange: the risk gate, the matching engine and the gateway, for   *)
(* this account.  Reports to a session that is gone are dropped.           *)
(***************************************************************************)
Report(messages) == toTrader' = IF connected THEN toTrader \o messages ELSE toTrader

ReservedOn(side, except) ==
  SumOver([id \in DOMAIN working |-> IF side = "Buy"
                                     THEN working[id].price * working[id].remaining
                                     ELSE working[id].remaining],
          {id \in DOMAIN working \ {except} : working[id].side = side})

ExchangeRiskAccepts(side, price, quantity, except) ==
  IF side = "Buy" THEN xaccount.cash - ReservedOn(side, except) >= price * quantity
                  ELSE xaccount.holdings - ReservedOn(side, except) >= quantity

Rejected(m) == Report(<<[type |-> "Rejected", id |-> m.id]>>)

ProcessNewOrder(m) ==
  /\ m.type = "NewOrder"
  /\ IF ExchangeRiskAccepts(m.side, m.price, m.quantity, 0)
     THEN /\ incoming' = <<[id |-> m.id, side |-> m.side, price |-> m.price,
                            remaining |-> m.quantity,
                            time_in_force |-> m.time_in_force]>>
          /\ Report(<<[type |-> "Accepted", id |-> m.id, quantity |-> m.quantity]>>)
     ELSE Rejected(m) /\ UNCHANGED incoming
  /\ UNCHANGED working

ProcessCancel(m) ==
  /\ m.type = "CancelOrder"
  /\ IF m.id \in DOMAIN working
     THEN working' = Drop(working, m.id) /\ Report(<<[type |-> "Cancelled", id |-> m.id]>>)
     ELSE Rejected(m) /\ UNCHANGED working
  /\ UNCHANGED incoming

ProcessReplace(m) ==
  /\ m.type = "ReplaceOrder"
  /\ IF m.id \in DOMAIN working
        /\ ExchangeRiskAccepts(working[m.id].side, m.price, m.quantity, m.id)
     THEN LET old == working[m.id]
              new == [old EXCEPT !.price = m.price, !.remaining = m.quantity]
          IN  /\ IF m.price = old.price /\ m.quantity <= old.remaining
                 THEN /\ working' = Put(Drop(working, m.id), m.new_id, new)
                      /\ UNCHANGED incoming
                 ELSE /\ working' = Drop(working, m.id)
                      /\ incoming' = <<[id |-> m.new_id, side |-> old.side,
                                        price |-> m.price, remaining |-> m.quantity,
                                        time_in_force |-> "GTC"]>>
              /\ Report(<<[type |-> "Replaced", id |-> m.id, new_id |-> m.new_id,
                           price |-> m.price, quantity |-> m.quantity]>>)
     ELSE Rejected(m) /\ UNCHANGED <<working, incoming>>

ProcessRequest ==
  /\ toExchange # << >> /\ incoming = << >>
  /\ toExchange' = Tail(toExchange)
  /\ LET m == Head(toExchange)
     IN  ProcessNewOrder(m) \/ ProcessCancel(m) \/ ProcessReplace(m)
  /\ UNCHANGED <<strategyVars, omsVars, sending, traderVars, connected, xaccount>>

TradeReport(id, p, n, remaining) ==
  [type |-> "TradeReport", id |-> id, price |-> p, quantity |-> n,
   remaining |-> remaining]

\* Another participant's order takes n of one of ours that rests.
OthersTrade ==
  /\ incoming = << >>
  /\ \E id \in DOMAIN working : \E n \in 1..working[id].remaining :
       LET order == working[id]
           left  == order.remaining - n
       IN  /\ working' = IF left = 0 THEN Drop(working, id)
                         ELSE [working EXCEPT ![id].remaining = left]
           /\ xaccount' = ApplyFill(xaccount, [side |-> order.side,
                                     price |-> order.price, quantity |-> n])
           /\ Report(<<TradeReport(id, order.price, n, left)>>)
  /\ UNCHANGED <<strategyVars, omsVars, sending, traderVars, connected, toExchange,
                 incoming>>

OwnCrossing ==
  {id \in DOMAIN working :
     /\ incoming # << >> /\ incoming[1].remaining > 0
     /\ working[id].side = Contra(incoming[1].side)
     /\ Crosses(incoming[1].side, incoming[1].price, working[id].price)}

\* Our arriving order takes n of what others offer at p, unless an order of
\* our own offers better.
MatchOthers ==
  /\ incoming # << >>
  /\ \E p \in Prices, n \in 1..incoming[1].remaining :
       LET order == incoming[1]
       IN  /\ Crosses(order.side, order.price, p)
           /\ \A id \in OwnCrossing : Crosses(order.side, working[id].price, p)
           /\ incoming' = <<[order EXCEPT !.remaining = @ - n]>>
           /\ xaccount' = ApplyFill(xaccount, [side |-> order.side, price |-> p,
                                               quantity |-> n])
           /\ Report(<<TradeReport(order.id, p, n, order.remaining - n)>>)
  /\ UNCHANGED <<strategyVars, omsVars, sending, traderVars, connected, toExchange,
                 working>>

\* It meets an order of our own: both legs are reported, the buyer's first.
MatchOwn ==
  /\ \E id \in OwnCrossing :
       LET order  == incoming[1]
           rest   == working[id]
           n      == Min({order.remaining, rest.remaining})
           mine   == TradeReport(order.id, rest.price, n, order.remaining - n)
           theirs == TradeReport(id, rest.price, n, rest.remaining - n)
       IN  /\ incoming' = <<[order EXCEPT !.remaining = @ - n]>>
           /\ working' = IF n = rest.remaining THEN Drop(working, id)
                         ELSE [working EXCEPT ![id].remaining = @ - n]
           /\ Report(IF order.side = "Buy" THEN <<mine, theirs>> ELSE <<theirs, mine>>)
  /\ UNCHANGED <<strategyVars, omsVars, sending, traderVars, connected, toExchange,
                 xaccount>>

\* What is left rests, or of an IOC order is discarded without a report.
FinishRequest ==
  /\ incoming # << >> /\ OwnCrossing = {}
  /\ incoming' = << >>
  /\ LET order == incoming[1]
     IN  working' = IF order.remaining > 0 /\ order.time_in_force = "GTC"
                    THEN Put(working, order.id, [side |-> order.side,
                               price |-> order.price, remaining |-> order.remaining])
                    ELSE working
  /\ UNCHANGED <<strategyVars, omsVars, sending, traderVars, connected, toExchange,
                 toTrader, xaccount>>

\* The connection drops; some of what was under way still arrives.
Disconnect ==
  /\ MayDisconnect /\ connected
  /\ connected' = FALSE
  /\ \E n \in 0..Len(toExchange) : toExchange' = SubSeq(toExchange, 1, n)
  /\ \E n \in 0..Len(toTrader) : toTrader' = SubSeq(toTrader, 1, n)
  /\ UNCHANGED <<strategyVars, omsVars, sending, traderVars, exchangeVars>>

Next ==
  \/ BeginCycle \/ UpdateQuote \/ BeginWithdraw \/ Withdraw \/ MomentumOrder \/ Send
  \/ ReadMessage \/ SettlePosition \/ SettlePnl
  \/ ProcessRequest \/ MatchOthers \/ MatchOwn \/ FinishRequest \/ OthersTrade
  \/ Disconnect

Spec == Init /\ [][Next]_vars
-----------------------------------------------------------------------------
(***************************************************************************)
(* Properties.                                                             *)
(***************************************************************************)
Quiet == /\ connected /\ sending = << >> /\ toExchange = << >> /\ incoming = << >>
         /\ toTrader = << >> /\ settling = << >>

\* "Piling a second request onto an order whose state is not yet settled is
\* how a strategy ends up with more live orders than it thinks it has": on
\* each side there is at most one order of a quoting strategy at the exchange
\* or on its way there, through every race of fills, replaces and rejections.
OneOrderPerQuote ==
  \A side \in Sides :
    LET NewOnSide(s) == {j \in DOMAIN s : s[j].type = "NewOrder" /\ s[j].side = side}
    IN  strategy # "Momentum" =>
          Cardinality({id \in DOMAIN working : working[id].side = side})
            + Cardinality({j \in DOMAIN incoming :
                             incoming[j].side = side /\ incoming[j].remaining > 0})
            + Cardinality(NewOnSide(toExchange)) + Cardinality(NewOnSide(sending)) <= 1

\* Once everything under way has arrived, the trader's reconstruction is the
\* exchange's truth: an order that rests there is live here with the same
\* price and remaining quantity, a GTC order that is live here rests there.
QuietMeansAgreed ==
  Quiet =>
    /\ \A id \in DOMAIN working :
         /\ id \in DOMAIN orders /\ IsLive(orders[id].state)
         /\ orders[id].price = working[id].price
         /\ orders[id].remaining = working[id].remaining
    /\ \A id \in DOMAIN orders :
         IsLive(orders[id].state) /\ orders[id].time_in_force = "GTC" =>
           id \in DOMAIN working

\* Every fill is settled once and on the right side: when nothing is under way
\* the trader's cash and holdings are the ledger's, and a sell never took
\* the unsigned holdings below zero on the way.
SettledLikeTheLedger ==
  /\ account.holdings <= InitialHoldings + MaxId * QuoteSize
  /\ Quiet => account = xaccount

\* Two observers of the fills, each with its own lock and its own arithmetic,
\* agree whenever no fill is on its way from the one to the other: the
\* position is what the holdings gained, and the realized profit less the
\* cost of what is open is the cash that was gained, rounding included.
PnlExplainsCash ==
  observing = << >> =>
    /\ pnl.position = account.holdings - InitialHoldings
    /\ pnl.realized - pnl.open_notional = account.cash - InitialCash

\* An order that is locked against further changes is waiting for something:
\* while the connection lasts, its request or the answer to it is under way.
PendingIsUnderWay ==
  connected =>
    \A id \in DOMAIN orders :
      orders[id].pending # "None" =>
        \/ \E j \in DOMAIN sending : sending[j].id = id
        \/ \E j \in DOMAIN toExchange :
             toExchange[j].id = id /\ toExchange[j].type # "NewOrder"
        \/ \E j \in DOMAIN toTrader :
             /\ toTrader[j].id = id
             /\ toTrader[j].type \in {"Cancelled", "Replaced", "Rejected"}

\* "A client_order_id can be terminal (nothing further will ever be observed
\* for it) or live (still working at the exchange)".  Not so: see README.md,
\* Disagreements.
LiveMeansWorking ==
  Quiet => \A id \in DOMAIN orders :
             IsTerminal(orders[id].state) \/ id \in DOMAIN working

\* "Widening the far side before advancing the near one" keeps a ladder from
\* trading with itself.  Not so: see README.md, Disagreements.
NeverTradesWithItself == OwnCrossing = {}
=============================================================================
