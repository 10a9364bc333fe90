------------------------------- MODULE Prices -------------------------------
(***************************************************************************)
(* The price cache: the table pos_prices, the loop that copies Fabric's    *)
(* catalogue into it, and the CSV import that overrides it                 *)
(* (services/fabric_price_sync.py, services/pricing.py, routes/prices.py). *)
(*                                                                         *)
(* Both writers run on the event loop and write in one commit.  The sync   *)
(* awaits the catalogue first, and an import may be committed meanwhile.   *)
(* A CSV file that is refused, and a row that is rejected, change nothing. *)
(***************************************************************************)
EXTENDS PriceTable

CONSTANT MaxChanges  \* bound: changes of Fabric's catalogue and CSV imports

ASSUME MaxChangesAssumption == MaxChanges \in Nat

VARIABLES
  catalogue,   \* Fabric's prices (external)
  sync,        \* the loop: "asleep", "fetching" or "answered"
  rows,        \* the catalogue it was answered with
  stamped,     \* the items whose updated_at names the last write of their row
  overridden,  \* history: the items last written by a CSV over a price they had
  changes      \* counted against MaxChanges

pricevars == <<unit_price_cents, catalogue, sync, rows, stamped, overridden, changes>>

\* A new installation: no prices yet.
PricesInit ==
  /\ TableInit
  /\ catalogue \in Tables
  /\ sync = "asleep"
  /\ rows = NoPrices
  /\ stamped = {}
  /\ overridden = {}
  /\ changes = 0

-----------------------------------------------------------------------------
(* The sync loop                                                             *)

\* run_loop starts a pass.
SyncWakes ==
  /\ sync = "asleep"
  /\ sync' = "fetching"
  /\ UNCHANGED <<unit_price_cents, catalogue, rows, stamped, overridden, changes>>

\* Fabric reads its catalogue; its answer is on the way.
FabricAnswers ==
  /\ sync = "fetching"
  /\ sync' = "answered"
  /\ rows' = catalogue
  /\ UNCHANGED <<unit_price_cents, catalogue, stamped, overridden, changes>>

\* No answer, or one that is no catalogue: the pass ends and the loop goes on.
SyncFails ==
  /\ sync \in {"fetching", "answered"}
  /\ sync' = "asleep"
  /\ rows' = NoPrices
  /\ UNCHANGED <<unit_price_cents, catalogue, stamped, overridden, changes>>

\* Mutant of SyncUpserts: updated_at is left to the column's onupdate.
SyncUpsertsUnstamped ==
  /\ sync = "answered"
  /\ sync' = "asleep"
  /\ Upsert(rows)
  /\ stamped' = stamped \ Priced(unit_price_cents)
  /\ overridden' = overridden \ Priced(rows)
  /\ rows' = NoPrices
  /\ UNCHANGED <<catalogue, changes>>

\* Mutant of SyncUpserts: the catalogue replaces the table.
SyncReplaces ==
  /\ sync = "answered"
  /\ sync' = "asleep"
  /\ unit_price_cents' = rows
  /\ stamped' = Priced(rows)
  /\ overridden' = {}
  /\ rows' = NoPrices
  /\ UNCHANGED <<catalogue, changes>>

\* sync_once after the await; an empty catalogue is a pass that writes nothing.
SyncUpserts ==
  /\ sync = "answered"
  /\ sync' = "asleep"
  /\ Upsert(rows)
  /\ stamped' = stamped \cup Priced(rows)
  /\ overridden' = overridden \ Priced(rows)
  /\ rows' = NoPrices
  /\ UNCHANGED <<catalogue, changes>>

-----------------------------------------------------------------------------
(* Imports, and Fabric                                                       *)

\* import_csv sets the price of a row that exists and leaves its updated_at:
\* SQLAlchemy does not apply onupdate to an upsert.  A new row gets the default.
ImportCsv(table) ==
  /\ changes < MaxChanges
  /\ changes' = changes + 1
  /\ Upsert(table)
  /\ stamped' = (stamped \ Priced(table)) \cup (Priced(table) \ Priced(unit_price_cents))
  /\ overridden' = overridden \cup (Priced(table) \cap Priced(unit_price_cents))
  /\ UNCHANGED <<catalogue, sync, rows>>

FabricChanges(s, c) ==
  /\ changes < MaxChanges
  /\ changes' = changes + 1
  /\ catalogue' = [catalogue EXCEPT ![s] = c]
  /\ UNCHANGED <<unit_price_cents, sync, rows, stamped, overridden>>

-----------------------------------------------------------------------------

PricesNext ==
  \/ SyncWakes \/ FabricAnswers \/ SyncFails \/ SyncUpserts
  \/ \E table \in Tables : ImportCsv(table)
  \/ \E s \in Skus, c \in Cents \cup {None} : FabricChanges(s, c)

PricesSpec == PricesInit /\ [][PricesNext]_pricevars

\* The loop sleeps a fixed interval, and Fabric is not out of reach for ever.
PricesFairSpec ==
  /\ PricesSpec
  /\ WF_pricevars(SyncWakes)
  /\ SF_pricevars(FabricAnswers)
  /\ SF_pricevars(SyncUpserts)

-----------------------------------------------------------------------------

PricesTypeOK ==
  /\ unit_price_cents \in Tables
  /\ catalogue \in Tables
  /\ sync \in {"asleep", "fetching", "answered"}
  /\ rows \in Tables
  /\ stamped \subseteq Skus
  /\ overridden \subseteq Skus
  /\ changes \in 0 .. MaxChanges

\* "The updated_at column on pos_prices records the last write" (README.md,
\* Pricing data sources): of every row but those that a CSV import wrote last,
\* over a price they had.
StampNamesLastWrite ==
  \A s \in Priced(unit_price_cents) : s \in stamped \/ s \in overridden

\* A price that was there once is there for good: both writers are steps of
\* PriceTable, whatever they overtake.
KeepsRows == TableSpec

\* "Fabric is the routine source of truth" (fabric_price_sync.py): when catalogue
\* and imports are at rest, the prices of the catalogue arrive and stay.
PricesCatchUp ==
  <>[](\A s \in Priced(catalogue) : unit_price_cents[s] = catalogue[s])

=============================================================================
