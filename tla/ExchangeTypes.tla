--------------------------- MODULE ExchangeTypes ---------------------------
(***************************************************************************)
(* The vocabulary shared by the exchange's matching engine, ledger and     *)
(* risk gate: identifiers, sides, time in force and the three commands.    *)
(***************************************************************************)
EXTENDS Integers, Sequences, FiniteSets, Maps

CONSTANTS
  Accounts,          \* account ids
  ClientIds,         \* client order ids; unique only within an account
  Instruments,       \* the instruments registered with the engine
  UnknownInstrument, \* an id a client may send that was never registered
  Prices,            \* the positive prices that occur
  Quantities         \* the positive quantities that occur

(***************************************************************************)
(* Prices are int64 ticks, so any set of them has a least and a greatest   *)
(* element; quantities are unsigned.  The engine rejects what is outside.  *)
(***************************************************************************)
ASSUME PriceAssumption ==
  /\ Prices \subseteq Nat \ {0}
  /\ \A S \in SUBSET Prices : S # {} =>
       /\ \E m \in S : \A p \in S : p <= m
       /\ \E m \in S : \A p \in S : m <= p

ASSUME QuantityAssumption == Quantities \subseteq Nat \ {0}

\* Account ids are 64-bit.
ASSUME AccountAssumption == IsFiniteSet(Accounts)

ASSUME InstrumentAssumption == UnknownInstrument \notin Instruments

Sides == {"Buy", "Sell"}

Contra(side) == IF side = "Buy" THEN "Sell" ELSE "Buy"

TimeInForce == {"GTC", "IOC", "FOK"}

\* MatchingEngine::LiveKey and Ledger::HoldKey: the pair identifies an order.
LiveKeys == Accounts \X ClientIds

AnyInstrument == Instruments \cup {UnknownInstrument}

\* Commands as clients send them: price and quantity may be the invalid 0.
NewOrderCommand ==
  [key : LiveKeys, instrument : AnyInstrument, side : Sides,
   price : Prices \cup {0}, quantity : Quantities \cup {0},
   time_in_force : TimeInForce]

CancelOrderCommand == [key : LiveKeys, instrument : AnyInstrument]

\* key is the original order's; the replacement keeps its account.
ReplaceOrderCommand ==
  [key : LiveKeys, new_id : ClientIds, instrument : AnyInstrument,
   price : Prices \cup {0}, quantity : Quantities \cup {0}]

NewKey(cmd) == <<cmd.key[1], cmd.new_id>>

\* On a book side, price p is at least as good to trade against as q.
AtLeastAsGood(side, p, q) == IF side = "Buy" THEN p >= q ELSE p <= q

\* Mutant of Crosses: an equal price does not trade.
CrossesStrictly(side, limit, p) == IF side = "Buy" THEN limit > p ELSE limit < p

\* An incoming order limited at `limit` may trade at the resting price p.
Crosses(side, limit, p) == IF side = "Buy" THEN limit >= p ELSE limit <= p

Lesser(a, b) == IF a <= b THEN a ELSE b
=============================================================================
