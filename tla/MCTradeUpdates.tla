--------------------------- MODULE MCTradeUpdates ---------------------------
\* A small instance of TradeUpdates for TLC.
EXTENDS TradeUpdates

\* Three executions at three prices.
Prices == <<10, 11, 13>>

\* The first two executions bear the same time.
Stamps == <<1, 1, 2, 3>>
=============================================================================
