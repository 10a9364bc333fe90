---------------------------- MODULE MCTillReport ----------------------------
\* A small instance of TillReport for TLC: a cash refund; the other constants are
\* in MCTillReport.cfg.
EXTENDS TillReport, TLC

CONSTANT mike

OneRefund == {[cashier |-> mike, method |-> "cash", refund |-> TRUE, cents |-> -200]}

Symmetry == Permutations(Workers) \cup Permutations(Sessions)
=============================================================================
