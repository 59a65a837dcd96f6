CONSTANTS
  MaxOrderQuantity = 2
  QuantityModulus = 64
  Strategies = {"Ladder", "MarketMaker", "Momentum"}
  References = {3, 5}
  HalfSpread = 1
  QuoteSize = 2
  MaxPosition = 1
  MaxHoldings = 3
  InitialCash = 12
  InitialHoldings = 2
  MayDisconnect = TRUE
  MaxIdOf <- MCMaxIdOf
SPECIFICATION Spec
CHECK_DEADLOCK FALSE
INVARIANTS
  OneOrderPerQuote
  QuietMeansAgreed
  SettledLikeTheLedger
  PnlExplainsCash
  PendingIsUnderWay
