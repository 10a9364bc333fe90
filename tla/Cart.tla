-------------------------------- MODULE Cart --------------------------------
(***************************************************************************)
(* The register's cart over the price cache: an item is looked up, put in  *)
(* the cart with the price of that moment, and priced again when the sale  *)
(* is started (routes/items.py, services/checkout.py start_checkout,       *)
(* desktop_client/src/store/cart.ts).  What the customer sees is the cart; *)
(* what is charged is what start_checkout computed.                        *)
(*                                                                         *)
(* Prices may be written between any two steps (PriceTable).  The cart's   *)
(* amounts are computed in floating point, the service's in decimals, at   *)
(* the default tax rate.                                                   *)
(***************************************************************************)
EXTENDS PriceTable

CONSTANTS
  Taxable,  \* the items Sentry calls taxable
  Bins,     \* where an item may be taken from
  Panes,    \* the scan input and the bookmarks: each looks up one item at a time
  Lines,    \* identifiers of cart lines
  MaxQty    \* bound: the quantity of a line

ASSUME TaxableAssumption == Taxable \subseteq Skus
ASSUME MaxQtyAssumption == MaxQty \in Nat \ {0}

VARIABLES
  answer,   \* the lookup's answer on its way to each pane, or None
  cart,     \* the lines of the store
  sale,     \* the started sale: what each of its lines showed and is charged
  repriced  \* history: items whose price changed since they were first shown

vars == <<unit_price_cents, answer, cart, sale, repriced>>

Line == [id : Lines, sku : Skus, bin : Bins, unit : Cents, quantity : 1 .. MaxQty]
Charge == [sku : Skus, shown : Cents, quantity : 1 .. MaxQty, unit : Cents, tax : Nat]

Init ==
  /\ TableInit
  /\ answer = [p \in Panes |-> None]
  /\ cart = {}
  /\ sale = {}
  /\ repriced = {}

-----------------------------------------------------------------------------
(* Amounts.  The tax rate is 0.081; products are in thousandths of a cent.   *)

Rate == 81

\* Decimal.quantize with ROUND_HALF_EVEN.
HalfEven(n) ==
  LET q == n \div 1000
      r == n % 1000
  IN IF r > 500 \/ (r = 500 /\ q % 2 = 1) THEN q + 1 ELSE q

\* Math.round: at this rate the product of a tie is exact in floating point.
HalfUp(n) == (n + 500) \div 1000

\* Mutant of compute_line_tax: the line's is_taxable is not looked at.
TaxEveryLine(amount, taxable) == HalfEven(Rate * amount)

compute_line_tax(amount, taxable) == IF taxable THEN HalfEven(Rate * amount) ELSE 0

\* computeTotals of the cart, for one line.
ShownTax(amount, taxable) == IF taxable THEN HalfUp(Rate * amount) ELSE 0

\* Half a cent above an even number of cents.
EvenTie(amount) == amount % 1000 = 500 /\ ((Rate * amount) \div 1000) % 2 = 0

-----------------------------------------------------------------------------
(* The cart                                                                  *)

Ids(lines) == {l.id : l \in lines}
Named(lines) == {l.sku : l \in lines}

\* The items an answer, the cart or the sale shows a price of.
Shown ==
  Named(cart) \cup Named(sale) \cup {answer[p].sku : p \in {q \in Panes : answer[q] # None}}

\* Mutant of lookup_item: an item without a price is found.
LookupUnpriced(p, s) ==
  /\ answer[p] = None
  /\ answer' = [answer EXCEPT ![p] = [sku |-> s, unit |-> get_price_cents(s)]]
  /\ repriced' = IF s \in Shown THEN repriced ELSE repriced \ {s}
  /\ UNCHANGED <<unit_price_cents, cart, sale>>

\* lookup_item reads the price after Sentry's answer; an item without one is not
\* found.  The pane is disabled until it is answered.
lookup_item(p, s) ==
  /\ answer[p] = None
  /\ get_price_cents(s) # None
  /\ answer' = [answer EXCEPT ![p] = [sku |-> s, unit |-> get_price_cents(s)]]
  /\ repriced' = IF s \in Shown THEN repriced ELSE repriced \ {s}
  /\ UNCHANGED <<unit_price_cents, cart, sale>>

\* The answer is lost, or its pane is gone.
LookupLost(p) ==
  /\ answer[p] # None
  /\ answer' = [answer EXCEPT ![p] = None]
  /\ UNCHANGED <<unit_price_cents, cart, sale, repriced>>

\* The line of the same item and bin counts one more, at the price it has.
addItem(p, b) ==
  /\ answer[p] # None
  /\ LET item == answer[p]
         same == {l \in cart : l.sku = item.sku /\ l.bin = b} IN
       \/ \E l \in same :
            /\ l.quantity < MaxQty
            /\ cart' = (cart \ {l}) \cup {[l EXCEPT !.quantity = @ + 1]}
       \/ /\ same = {}
          /\ \E id \in Lines \ Ids(cart) :
               cart' = cart \cup {[id |-> id, sku |-> item.sku, bin |-> b,
                                   unit |-> item.unit, quantity |-> 1]}
  /\ answer' = [answer EXCEPT ![p] = None]
  /\ UNCHANGED <<unit_price_cents, sale, repriced>>

removeLine(l) ==
  /\ cart' = cart \ {l}
  /\ UNCHANGED <<unit_price_cents, answer, sale, repriced>>

setQuantity(l, n) ==
  /\ cart' = (cart \ {l}) \cup {[l EXCEPT !.quantity = n]}
  /\ UNCHANGED <<unit_price_cents, answer, sale, repriced>>

setWarehouseBin(l, b) ==
  /\ cart' = (cart \ {l}) \cup {[l EXCEPT !.bin = b]}
  /\ UNCHANGED <<unit_price_cents, answer, sale, repriced>>

\* splitLine in two; a split in more parts is several of these.
splitLine(l, b, n) ==
  /\ n < l.quantity
  /\ \E id \in Lines \ Ids(cart) :
       cart' = (cart \ {l}) \cup {[l EXCEPT !.quantity = @ - n],
                                  [l EXCEPT !.id = id, !.bin = b, !.quantity = n]}
  /\ UNCHANGED <<unit_price_cents, answer, sale, repriced>>

-----------------------------------------------------------------------------
(* The sale                                                                  *)

Charged(l) ==
  LET unit == get_price_cents(l.sku)
  IN [sku |-> l.sku, shown |-> l.unit, quantity |-> l.quantity, unit |-> unit,
      tax |-> compute_line_tax(unit * l.quantity, l.sku \in Taxable)]

\* PayPanel sends the lines without their prices; start_checkout, up to its first
\* await, prices every line again, or refuses the sale (price_missing).
start_checkout ==
  /\ cart # {}
  /\ sale = {}
  /\ \A l \in cart : get_price_cents(l.sku) # None
  /\ sale' = {Charged(l) : l \in cart}
  /\ UNCHANGED <<unit_price_cents, answer, cart, repriced>>

\* The sale fails or is cancelled: the cart stays.
PaymentFails ==
  /\ sale # {}
  /\ sale' = {}
  /\ UNCHANGED <<unit_price_cents, answer, cart, repriced>>

\* PaymentResult: "Done" after a success clears the cart it finds.
PaymentDone ==
  /\ sale # {}
  /\ sale' = {}
  /\ cart' = {}
  /\ UNCHANGED <<unit_price_cents, answer, repriced>>

-----------------------------------------------------------------------------

\* A sync or an import writes; a new price is news to whatever was looked up before.
PricesWritten(table) ==
  /\ Upsert(table)
  /\ repriced' = repriced \cup {s \in Skus : unit_price_cents'[s] # unit_price_cents[s]}
  /\ UNCHANGED <<answer, cart, sale>>

Next ==
  \/ \E table \in Tables : PricesWritten(table)
  \/ \E p \in Panes :
       \/ \E s \in Skus : lookup_item(p, s)
       \/ \E b \in Bins : addItem(p, b)
       \/ LookupLost(p)
  \/ \E l \in cart :
       \/ removeLine(l)
       \/ \E n \in 1 .. MaxQty : setQuantity(l, n)
       \/ \E b \in Bins : setWarehouseBin(l, b)
       \/ \E b \in Bins, n \in 1 .. MaxQty : splitLine(l, b, n)
  \/ start_checkout \/ PaymentFails \/ PaymentDone

Spec == Init /\ [][Next]_vars

-----------------------------------------------------------------------------

TypeOK ==
  /\ unit_price_cents \in Tables
  /\ answer \in [Panes -> [sku : Skus, unit : Cents] \cup {None}]
  /\ cart \subseteq Line
  /\ sale \subseteq Charge
  /\ repriced \subseteq Skus

\* What was scanned can be paid for: whatever the sync and the imports do, an item
\* of the cart keeps a price, and start_checkout does not refuse it (price_missing).
ScannedIsPayable == \A s \in Named(cart) : get_price_cents(s) # None

\* Line by line the sale charges what the cart showed, unless the item got another
\* price in the meantime (start_checkout, computeTotals).  Only half a cent above
\* an even number of cents is shown one cent dearer than it is charged.
ChargedAsShown ==
  \A c \in sale : c.sku \notin repriced =>
    LET amount == c.shown * c.quantity
        taxable == c.sku \in Taxable
    IN /\ c.unit = c.shown
       /\ c.tax = ShownTax(amount, taxable) - (IF taxable /\ EvenTie(amount) THEN 1 ELSE 0)

-----------------------------------------------------------------------------
(* Why: what was looked up has a price, and the same one unless repriced.    *)

StillPriced(s, unit) ==
  get_price_cents(s) # None /\ (s \notin repriced => get_price_cents(s) = unit)

LookupsHold ==
  /\ \A p \in Panes : answer[p] # None => StillPriced(answer[p].sku, answer[p].unit)
  /\ \A l \in cart : StillPriced(l.sku, l.unit)

IInv == TypeOK /\ LookupsHold /\ ChargedAsShown

=============================================================================
