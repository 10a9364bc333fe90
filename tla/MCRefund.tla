----------------------------- MODULE MCRefund -----------------------------
(* Instances of Refund for TLC; the configurations give the constants.       *)
EXTENDS Refund
=============================================================================
