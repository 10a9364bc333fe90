---------------------------- MODULE MCCheckout ----------------------------
(* Instances of Checkout for TLC; the configurations give the constants.     *)
EXTENDS Checkout
=============================================================================
