-------------------------- MODULE MCTradingSession --------------------------
EXTENDS TradingSession

\* Two orders are enough for a position to be opened and turned over; a third
\* id lets a quote be replaced while the other side is quoted.
MCMaxIdOf == [Ladder |-> 3, MarketMaker |-> 3, Momentum |-> 2]
=============================================================================
