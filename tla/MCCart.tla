------------------------------- MODULE MCCart -------------------------------
\* A small instance of Cart for TLC; the other constants are in MCCart.cfg.
EXTENDS Cart, TLC

\* A tie ($5.00, tax 40.5 cents) and none.
TwoPrices == {500, 999}

Symmetry == Permutations(Lines) \cup Permutations(Bins) \cup Permutations(Panes)
=============================================================================
