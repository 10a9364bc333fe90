------------------------------ MODULE MCPrices ------------------------------
\* A small instance of Prices for TLC; the other constants are in MCPrices.cfg.
EXTENDS Prices

TwoPrices == {500, 999}
=============================================================================
