----------------------------- MODULE PriceTable -----------------------------
(***************************************************************************)
(* What the rest of the service may count on of the table pos_prices       *)
(* (models.py POSPrice, services/pricing.py): it starts empty, and a       *)
(* writer sets the prices of some items in one commit and leaves the rest. *)
(* Prices implements it; Cart uses it.                                     *)
(***************************************************************************)
EXTENDS Integers

CONSTANTS
  Skus,   \* items
  Cents,  \* prices
  None    \* no row

ASSUME CentsAssumption == Cents \subseteq Nat /\ None \notin Cents

VARIABLE unit_price_cents  \* the table: the price of each item, or None

\* Tables, and what a catalogue or a file says of some of the items.
Tables == [Skus -> Cents \cup {None}]
NoPrices == [s \in Skus |-> None]
Priced(table) == {s \in Skus : table[s] # None}

\* services/pricing.py.
get_price_cents(s) == unit_price_cents[s]

\* Mutant of Upsert: INSERT ... ON CONFLICT DO NOTHING.
InsertMissing(table) ==
  unit_price_cents' =
    [s \in Skus |-> IF unit_price_cents[s] = None THEN table[s] ELSE unit_price_cents[s]]

\* INSERT ... ON CONFLICT (sku) DO UPDATE: other rows stay.
Upsert(table) ==
  unit_price_cents' = [s \in Skus |-> IF table[s] = None THEN unit_price_cents[s] ELSE table[s]]

TableInit == unit_price_cents = NoPrices
TableNext == \E table \in Tables : Upsert(table)
TableSpec == TableInit /\ [][TableNext]_unit_price_cents

=============================================================================
