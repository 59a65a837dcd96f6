-------------------------- MODULE RiskGatedEngine --------------------------
(***************************************************************************)
(* The exchange core the gateway runs: every new order and replace passes  *)
(* the pre-trade risk check, and every account event of the engine is      *)
(* applied to the ledger before anything else sees it.  Check, match and   *)
(* settle share the matching thread, so nothing interleaves with them.     *)
(***************************************************************************)
EXTENDS MatchingEngine, Ledger

CONSTANT MaxOrderQuantity \* RiskLimits::max_order_quantity

ASSUME LimitAssumption == MaxOrderQuantity \in Nat

vars == <<engineVars, ledger>>

Init == EngineInit /\ LedgerInit
-----------------------------------------------------------------------------
(***************************************************************************)
(* RiskEngine::check.                                                      *)
(***************************************************************************)
RiskAcceptsNewOrder(cmd) ==
  /\ cmd.quantity <= MaxOrderQuantity
  /\ cmd.side = "Buy" => AvailableCash(cmd.key[1]) >= cmd.quantity * cmd.price
  /\ cmd.side = "Sell" =>
       AvailablePosition(cmd.key[1], cmd.instrument) >= cmd.quantity

\* Mutant of RiskAcceptsReplace: only the size limit is checked.
RiskAcceptsAnyReplace(cmd) == cmd.quantity <= MaxOrderQuantity

\* Only the exposure beyond what the order already holds must be available;
\* with no hold to credit the engine will reject the command itself.
RiskAcceptsReplace(cmd) ==
  /\ cmd.quantity <= MaxOrderQuantity
  /\ cmd.key \in DOMAIN ledger.holds =>
       LET hold == ledger.holds[cmd.key]
           extraCash == cmd.quantity * cmd.price
                          - hold.remaining * hold.limit_price
           extraUnits == cmd.quantity - hold.remaining
       IN  hold.instrument = cmd.instrument =>
             IF hold.side = "Buy"
             THEN AvailableCash(cmd.key[1]) >= Max({0, extraCash})
             ELSE AvailablePosition(cmd.key[1], cmd.instrument)
                    >= Max({0, extraUnits})
-----------------------------------------------------------------------------
(***************************************************************************)
(* RiskGatedEngine::process.                                               *)
(***************************************************************************)
PassesNewOrder(cmd) ==
  KnowsInstrument(cmd.instrument) /\ RiskAcceptsNewOrder(cmd)

PassesReplace(cmd) ==
  KnowsInstrument(cmd.instrument) /\ RiskAcceptsReplace(cmd)

GatedNewOrder(cmd) ==
  /\ PassesNewOrder(cmd)
  /\ ProcessNewOrder(cmd)
  /\ ledger' = OnOrderAccepted(ledger, cmd)

GatedReplace(cmd) ==
  /\ PassesReplace(cmd)
  /\ ProcessReplaceInPlace(cmd) \/ ProcessReplaceAsNew(cmd)
  /\ ledger' = OnOrderReplaced(ledger, cmd)

\* Cancels are not risk-checked.
GatedCancel(cmd) ==
  /\ ProcessCancel(cmd)
  /\ ledger' = OnOrderCancelled(ledger, cmd.key)

GatedMatch ==
  \E p \in Prices :
    /\ MatchAt(p)
    /\ ledger' = OnTradeExecuted(ledger, TradeExecuted(p))

\* The end of a command emits at most BookOrderAdded, a no-op to the ledger.
GatedFinish == (RestRemainder \/ DiscardRemainder) /\ UNCHANGED ledger

\* Refused by the instrument check, by risk, or by the engine itself.
GatedReject ==
  /\ Idle
  /\ \/ {cmd \in NewOrderCommand :
           ~PassesNewOrder(cmd) \/ ~AcceptsNewOrder(cmd)} # {}
     \/ {cmd \in CancelOrderCommand : ~FindsOrder(cmd.key, cmd.instrument)} # {}
     \/ {cmd \in ReplaceOrderCommand :
           ~PassesReplace(cmd) \/ ~AcceptsReplace(cmd)} # {}
  /\ UNCHANGED vars

Next ==
  \/ \E cmd \in NewOrderCommand : GatedNewOrder(cmd)
  \/ \E cmd \in ReplaceOrderCommand : ReplaceIdAllowed(cmd) /\ GatedReplace(cmd)
  \/ \E cmd \in CancelOrderCommand : GatedCancel(cmd)
  \/ GatedReject
  \/ GatedMatch
  \/ GatedFinish

Spec == Init /\ [][Next]_vars
-----------------------------------------------------------------------------
(***************************************************************************)
(* Properties.                                                             *)
(***************************************************************************)
\* The ledger has the shape of AccountBalances and the hold table.
LedgerTypeOK ==
  /\ ledger.cash_total \in [Accounts -> Int]
  /\ ledger.cash_reserved \in [Accounts -> Int]
  /\ ledger.position_total \in [Positions -> Int]
  /\ ledger.position_reserved \in [Positions -> Int]
  /\ DOMAIN ledger.holds \subseteq LiveKeys
  /\ \A k \in DOMAIN ledger.holds : ledger.holds[k] \in Hold
  /\ ledger.hold_count \in Int

\* The keys that must be held: resting orders, and a GTC order being matched.
HeldKeys ==
  DOMAIN orders \cup
    {incoming[j].key : j \in {n \in DOMAIN incoming : Rests(incoming[n])}}

HoldMirrors(key, order) ==
  ledger.holds[key] =
    [instrument |-> order.instrument, side |-> order.side,
     limit_price |-> order.price, remaining |-> order.remaining]

\* Every live GTC order, and nothing else, is backed by a hold with its own
\* side, limit price and remaining quantity, in every state between events.
HoldsMirrorOrders ==
  /\ DOMAIN ledger.holds = HeldKeys
  /\ \A k \in DOMAIN orders : HoldMirrors(k, slab[orders[k].handle])
  /\ \A j \in DOMAIN incoming :
       Rests(incoming[j]) => HoldMirrors(incoming[j].key, incoming[j])

\* The cash that the buy holds of account a lock, and the units that the sell
\* holds of a position lock.
HeldCash(holds, a) ==
  SumOver([k \in DOMAIN holds |-> holds[k].remaining * holds[k].limit_price],
          {k \in DOMAIN holds : k[1] = a /\ holds[k].side = "Buy"})

HeldUnits(holds, x) ==
  SumOver([k \in DOMAIN holds |-> holds[k].remaining],
          {k \in DOMAIN holds :
             <<k[1], holds[k].instrument>> = x /\ holds[k].side = "Sell"})

\* What is reserved is the sum of the holds, no more (leaked) and no less.
ReservedIsHeld ==
  /\ \A a \in Accounts : ledger.cash_reserved[a] = HeldCash(ledger.holds, a)
  /\ \A x \in Positions : ledger.position_reserved[x] = HeldUnits(ledger.holds, x)
  /\ ledger.hold_count = Cardinality(DOMAIN ledger.holds)

\* available_position(): "MatchingEngine never lets a hold exceed what was
\* available when opened, so total >= reserved always".
PositionsCovered ==
  \A x \in Positions : ledger.position_total[x] >= ledger.position_reserved[x]

\* No account ever owes more than it has: every sequence of fills, at prices
\* better than the limit too, leaves the holds that remain fully covered.
NeverOverdrawn ==
  /\ \A a \in Accounts : ledger.cash_total[a] >= ledger.cash_reserved[a]
  /\ PositionsCovered

\* Trading moves cash and units between accounts and creates none.
FundsConserved ==
  /\ SumOver(ledger.cash_total, Accounts)
       = SeedCash * Cardinality(Accounts)
  /\ \A i \in Instruments :
       SumOver([a \in Accounts |-> ledger.position_total[<<a, i>>]], Accounts)
         = SeedPosition * Cardinality(Accounts)
=============================================================================
