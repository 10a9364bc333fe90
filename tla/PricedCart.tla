----------------------------- MODULE PricedCart -----------------------------
(***************************************************************************)
(* The cart and the price cache together, over the one table pos_prices:   *)
(* what Cart leaves open, who writes the prices and when, is here the sync *)
(* loop and the CSV imports of Prices.  A lookup or a checkout runs        *)
(* between two of their steps: they share an event loop, and a write is    *)
(* one commit (services/pricing.py, services/fabric_price_sync.py).        *)
(***************************************************************************)
EXTENDS Cart, Prices

allvars == <<vars, pricevars>>

PricedInit == Init /\ PricesInit

\* A step of the sync, an import or Fabric: the cart only keeps a note of the
\* items that got another price.
PriceStep ==
  /\ PricesNext
  /\ repriced' = repriced \cup {s \in Skus : unit_price_cents'[s] # unit_price_cents[s]}
  /\ UNCHANGED <<answer, cart, sale>>

\* A step of the register reads the table and leaves the price cache alone.
CartStep == Next /\ UNCHANGED pricevars

PricedNext == PriceStep \/ CartStep

PricedSpec == PricedInit /\ [][PricedNext]_allvars

=============================================================================
