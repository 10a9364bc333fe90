-------------------------- MODULE RegisterProofs --------------------------
(***************************************************************************)
(* The register, for any items, prices, lines, sales and clicks: what was  *)
(* scanned can be paid for and is charged as it was shown, from a table    *)
(* whose rows the sync and the imports keep; and the payment dialogs show  *)
(* a success of a paid sale only, print it once, and take the money for an *)
(* item once unless they gave its sale up.                                 *)
(***************************************************************************)
EXTENDS PricedCart, Register, TLAPS

-----------------------------------------------------------------------------
(* Amounts                                                                   *)

(* A rounded tax is a number of cents. *)
LEMMA HalfEvenTyped ==
  ASSUME NEW m \in Nat
  PROVE HalfEven(m) \in Nat
  BY DEF HalfEven

(* The two ways of rounding differ by one, at half a cent above an even number
   of cents. *)
LEMMA RoundingsDiffer ==
  ASSUME NEW m \in Nat
  PROVE HalfEven(m) = HalfUp(m) - (IF m % 1000 = 500 /\ (m \div 1000) % 2 = 0 THEN 1 ELSE 0)
  <1>1. HalfUp(m) = IF m % 1000 >= 500 THEN (m \div 1000) + 1 ELSE m \div 1000
    BY DEF HalfUp
  <1>2. HalfEven(m) = IF m % 1000 > 500 \/ (m % 1000 = 500 /\ (m \div 1000) % 2 = 1)
                        THEN (m \div 1000) + 1 ELSE m \div 1000
    BY DEF HalfEven
  <1>3. (m \div 1000) % 2 = 0 \/ (m \div 1000) % 2 = 1
    OBVIOUS
  <1>4. m \div 1000 \in Nat /\ m % 1000 \in Nat
    OBVIOUS
  <1> QED BY <1>1, <1>2, <1>3, <1>4

(* The product of an amount and the rate is a tie if the amount is one: 81 has an
   inverse modulo 1000, which is 321. *)
LEMMA TieOfAmount ==
  ASSUME NEW n \in Nat
  PROVE (Rate * n) % 1000 = 500 <=> n % 1000 = 500
  <1>1. ASSUME NEW q \in Nat, 81 * n = 1000 * q + 500
        PROVE n % 1000 = 500
    <2>1. n = 1000 * (321 * q - 26 * n + 160) + 500
      BY <1>1
    <2> QED BY <2>1
  <1>2. ASSUME NEW q \in Nat, n = 1000 * q + 500
        PROVE (81 * n) % 1000 = 500
    <2>1. 81 * n = 1000 * (81 * q + 40) + 500
      BY <1>2
    <2> QED BY <2>1
  <1>3. ASSUME (81 * n) % 1000 = 500
        PROVE 81 * n = 1000 * ((81 * n) \div 1000) + 500 /\ (81 * n) \div 1000 \in Nat
    BY <1>3
  <1>4. ASSUME n % 1000 = 500
        PROVE n = 1000 * (n \div 1000) + 500 /\ n \div 1000 \in Nat
    BY <1>4
  <1>5. CASE (81 * n) % 1000 = 500
    BY <1>1, <1>3, <1>5 DEF Rate
  <1>6. CASE n % 1000 = 500
    BY <1>2, <1>4, <1>6 DEF Rate
  <1> QED BY <1>5, <1>6 DEF Rate

(* The cart and the service agree on the tax of a line, but for half a cent
   above an even number of cents: computeTotals and compute_line_tax. *)
THEOREM TaxAsShown ==
  ASSUME NEW n \in Nat, NEW taxable \in BOOLEAN
  PROVE compute_line_tax(n, taxable)
          = ShownTax(n, taxable) - (IF taxable /\ EvenTie(n) THEN 1 ELSE 0)
  <1>1. Rate * n \in Nat
    BY DEF Rate
  <1>2. HalfEven(Rate * n) = HalfUp(Rate * n) - (IF EvenTie(n) THEN 1 ELSE 0)
    BY <1>1, RoundingsDiffer, TieOfAmount DEF EvenTie
  <1> QED BY <1>2 DEF compute_line_tax, ShownTax

-----------------------------------------------------------------------------
(* The cart                                                                  *)

(* A line is charged in cents. *)
LEMMA ChargedTyped ==
  ASSUME TypeOK, NEW l \in Line, get_price_cents(l.sku) # None
  PROVE Charged(l) \in Charge
  <1>1. get_price_cents(l.sku) \in Cents /\ get_price_cents(l.sku) \in Nat
    BY CentsAssumption DEF TypeOK, Tables, Line, get_price_cents
  <1>2. l.quantity \in Nat /\ l.quantity \in 1 .. MaxQty /\ l.sku \in Skus /\ l.unit \in Cents
    BY MaxQtyAssumption DEF Line
  <1>3. get_price_cents(l.sku) * l.quantity \in Nat
    BY <1>1, <1>2
  <1>4. compute_line_tax(get_price_cents(l.sku) * l.quantity, l.sku \in Taxable) \in Nat
    BY <1>3, HalfEvenTyped DEF compute_line_tax, Rate
  <1> QED BY <1>1, <1>2, <1>4 DEF Charged, Charge

(* Every step keeps the types. *)
LEMMA TypeStep ==
  ASSUME TypeOK, [Next]_vars
  PROVE TypeOK'
  <1>1. ASSUME NEW table \in Tables, PricesWritten(table)
        PROVE TypeOK'
    <2>1. unit_price_cents' \in Tables
      BY <1>1 DEF PricesWritten, Upsert, TypeOK, Tables
    <2> QED BY <1>1, <2>1 DEF PricesWritten, TypeOK
  <1>2. ASSUME NEW p \in Panes, NEW s \in Skus, lookup_item(p, s)
        PROVE TypeOK'
    <2>1. [sku |-> s, unit |-> get_price_cents(s)] \in [sku : Skus, unit : Cents]
      BY <1>2 DEF lookup_item, get_price_cents, TypeOK, Tables
    <2>2. answer' \in [Panes -> [sku : Skus, unit : Cents] \cup {None}]
      BY <1>2, <2>1 DEF lookup_item, TypeOK
    <2> QED BY <1>2, <2>2 DEF lookup_item, TypeOK
  <1>3. ASSUME NEW p \in Panes, NEW b \in Bins, addItem(p, b)
        PROVE TypeOK'
    <2>1. answer[p] \in [sku : Skus, unit : Cents]
      BY <1>3 DEF addItem, TypeOK
    <2>2. cart' \subseteq Line
      <3>1. ASSUME NEW l \in cart, l.quantity < MaxQty
            PROVE [l EXCEPT !.quantity = @ + 1] \in Line
        BY <3>1, MaxQtyAssumption DEF TypeOK, Line
      <3>2. ASSUME NEW id \in Lines
            PROVE [id |-> id, sku |-> answer[p].sku, bin |-> b, unit |-> answer[p].unit,
                   quantity |-> 1] \in Line
        BY <2>1, MaxQtyAssumption DEF Line
      <3> QED BY <1>3, <3>1, <3>2 DEF addItem, TypeOK
    <2> QED BY <1>3, <2>2 DEF addItem, TypeOK
  <1>4. ASSUME NEW l \in cart, removeLine(l)
        PROVE TypeOK'
    BY <1>4 DEF removeLine, TypeOK
  <1>5. ASSUME NEW l \in cart, NEW n \in 1 .. MaxQty, setQuantity(l, n)
        PROVE TypeOK'
    <2>1. [l EXCEPT !.quantity = n] \in Line
      BY DEF TypeOK, Line
    <2> QED BY <1>5, <2>1 DEF setQuantity, TypeOK
  <1>6. ASSUME NEW l \in cart, NEW b \in Bins, setWarehouseBin(l, b)
        PROVE TypeOK'
    <2>1. [l EXCEPT !.bin = b] \in Line
      BY DEF TypeOK, Line
    <2> QED BY <1>6, <2>1 DEF setWarehouseBin, TypeOK
  <1>7. ASSUME NEW l \in cart, NEW b \in Bins, NEW n \in 1 .. MaxQty, splitLine(l, b, n)
        PROVE TypeOK'
    <2>1. PICK id \in Lines : cart' = (cart \ {l}) \cup {[l EXCEPT !.quantity = @ - n],
                                        [l EXCEPT !.id = id, !.bin = b, !.quantity = n]}
      BY <1>7 DEF splitLine
    <2>2. [l EXCEPT !.quantity = @ - n] \in Line
      BY <1>7, MaxQtyAssumption DEF splitLine, TypeOK, Line
    <2>3. [l EXCEPT !.id = id, !.bin = b, !.quantity = n] \in Line
      BY DEF TypeOK, Line
    <2> QED BY <1>7, <2>1, <2>2, <2>3 DEF splitLine, TypeOK
  <1>8. CASE start_checkout
    <2>1. ASSUME NEW l \in cart
          PROVE Charged(l) \in Charge
      BY <1>8, ChargedTyped DEF start_checkout, TypeOK
    <2> QED BY <1>8, <2>1 DEF start_checkout, TypeOK
  <1>9. CASE PaymentFails
    BY <1>9 DEF PaymentFails, TypeOK
  <1>10. CASE PaymentDone
    BY <1>10 DEF PaymentDone, TypeOK
  <1>11. CASE UNCHANGED vars
    BY <1>11 DEF vars, TypeOK
  <1>12. ASSUME NEW p \in Panes, LookupLost(p)
        PROVE TypeOK'
    BY <1>12 DEF LookupLost, TypeOK
  <1> QED
    BY <1>1, <1>2, <1>3, <1>4, <1>5, <1>6, <1>7, <1>8, <1>9, <1>10, <1>11,
       <1>12 DEF Next

(* Lines of the same items at the same prices are priced like those before. *)
LEMMA SameItems ==
  ASSUME LookupsHold, UNCHANGED <<unit_price_cents, answer, repriced>>,
         \A x \in cart' : \E y \in cart : x.sku = y.sku /\ x.unit = y.unit
  PROVE LookupsHold'
  BY DEF LookupsHold, StillPriced, get_price_cents

(* Every step keeps what was looked up priced. *)
LEMMA LookupsStep ==
  ASSUME TypeOK, LookupsHold, [Next]_vars
  PROVE LookupsHold'
  <1>1. ASSUME NEW table \in Tables, PricesWritten(table)
        PROVE LookupsHold'
    <2>1. ASSUME NEW s \in Skus, NEW unit, StillPriced(s, unit)
          PROVE StillPriced(s, unit)'
      BY <1>1, <2>1 DEF PricesWritten, Upsert, StillPriced, TypeOK, get_price_cents
    <2>2. UNCHANGED <<answer, cart>>
      BY <1>1 DEF PricesWritten
    <2>3. /\ \A p \in Panes : answer[p] # None => answer[p].sku \in Skus
          /\ \A l \in cart : l.sku \in Skus
      BY DEF TypeOK, Line
    <2> QED BY <2>1, <2>2, <2>3 DEF LookupsHold
  <1>2. ASSUME NEW p \in Panes, NEW s \in Skus, lookup_item(p, s)
        PROVE LookupsHold'
    <2>1. UNCHANGED <<unit_price_cents, cart>> /\ \A l \in cart : l.sku \in Shown
      BY <1>2 DEF lookup_item, Shown, Named
    <2>2. ASSUME NEW l \in cart
          PROVE StillPriced(l.sku, l.unit)'
      BY <1>2, <2>1 DEF lookup_item, LookupsHold, StillPriced, get_price_cents
    <2>3. ASSUME NEW q \in Panes, answer'[q] # None
          PROVE StillPriced(answer[q].sku, answer[q].unit)'
      <3>1. CASE q = p
        <4>1. answer'[q] = [sku |-> s, unit |-> get_price_cents(s)]
          BY <1>2, <3>1 DEF lookup_item, TypeOK
        <4> QED BY <1>2, <2>1, <4>1 DEF lookup_item, StillPriced, get_price_cents
      <3>2. CASE q # p
        <4>1. answer'[q] = answer[q]
          BY <1>2, <3>2 DEF lookup_item, TypeOK
        <4>2. answer[q].sku \in Shown
          BY <2>3, <4>1 DEF Shown
        <4> QED
          BY <1>2, <2>1, <2>3, <4>1, <4>2 DEF lookup_item, LookupsHold, StillPriced,
             get_price_cents
      <3> QED BY <3>1, <3>2
    <2> QED BY <2>1, <2>2, <2>3 DEF LookupsHold
  <1>3. ASSUME NEW p \in Panes, NEW b \in Bins, addItem(p, b)
        PROVE LookupsHold'
    <2>1. ASSUME NEW x \in cart'
          PROVE \/ \E y \in cart : x.sku = y.sku /\ x.unit = y.unit
                \/ x.sku = answer[p].sku /\ x.unit = answer[p].unit
      <3>1. CASE x \in cart
        BY <3>1
      <3>2. ASSUME NEW l \in cart, x = [l EXCEPT !.quantity = @ + 1]
            PROVE \E y \in cart : x.sku = y.sku /\ x.unit = y.unit
        <4>1. x.sku = l.sku /\ x.unit = l.unit
          BY <3>2 DEF TypeOK, Line
        <4> QED BY <4>1
      <3>3. ASSUME NEW id \in Lines,
                   x = [id |-> id, sku |-> answer[p].sku, bin |-> b,
                        unit |-> answer[p].unit, quantity |-> 1]
            PROVE x.sku = answer[p].sku /\ x.unit = answer[p].unit
        BY <3>3
      <3> QED BY <1>3, <3>1, <3>2, <3>3 DEF addItem
    <2>2. answer[p] # None /\ UNCHANGED <<unit_price_cents, repriced>>
      BY <1>3 DEF addItem
    <2>3. ASSUME NEW q \in Panes, answer'[q] # None
          PROVE answer'[q] = answer[q]
      BY <1>3, <2>3 DEF addItem, TypeOK
    <2> QED BY <2>1, <2>2, <2>3 DEF LookupsHold, StillPriced, get_price_cents
  <1>4. ASSUME NEW l \in cart, removeLine(l)
        PROVE LookupsHold'
    <2>1. \A x \in cart' : \E y \in cart : x.sku = y.sku /\ x.unit = y.unit
      BY <1>4 DEF removeLine, TypeOK, Line
    <2> QED BY <1>4, <2>1, SameItems DEF removeLine
  <1>5. ASSUME NEW l \in cart, NEW n \in 1 .. MaxQty, setQuantity(l, n)
        PROVE LookupsHold'
    <2>1. \A x \in cart' : \E y \in cart : x.sku = y.sku /\ x.unit = y.unit
      BY <1>5 DEF setQuantity, TypeOK, Line
    <2> QED BY <1>5, <2>1, SameItems DEF setQuantity
  <1>6. ASSUME NEW l \in cart, NEW b \in Bins, setWarehouseBin(l, b)
        PROVE LookupsHold'
    <2>1. \A x \in cart' : \E y \in cart : x.sku = y.sku /\ x.unit = y.unit
      BY <1>6 DEF setWarehouseBin, TypeOK, Line
    <2> QED BY <1>6, <2>1, SameItems DEF setWarehouseBin
  <1>7. ASSUME NEW l \in cart, NEW b \in Bins, NEW n \in 1 .. MaxQty, splitLine(l, b, n)
        PROVE LookupsHold'
    <2>1. \A x \in cart' : \E y \in cart : x.sku = y.sku /\ x.unit = y.unit
      BY <1>7 DEF splitLine, TypeOK, Line
    <2> QED BY <1>7, <2>1, SameItems DEF splitLine
  <1>8. CASE start_checkout
    BY <1>8 DEF start_checkout, LookupsHold, StillPriced, TypeOK, get_price_cents
  <1>9. CASE PaymentFails
    BY <1>9 DEF PaymentFails, LookupsHold, StillPriced, TypeOK, get_price_cents
  <1>10. CASE PaymentDone
    BY <1>10 DEF PaymentDone, LookupsHold, StillPriced, TypeOK, get_price_cents
  <1>11. CASE UNCHANGED vars
    BY <1>11 DEF vars, LookupsHold, StillPriced, TypeOK, get_price_cents
  <1>12. ASSUME NEW p \in Panes, LookupLost(p)
        PROVE LookupsHold'
    BY <1>12 DEF LookupLost, LookupsHold, StillPriced, TypeOK, get_price_cents
  <1> QED
    BY <1>1, <1>2, <1>3, <1>4, <1>5, <1>6, <1>7, <1>8, <1>9, <1>10, <1>11,
       <1>12 DEF Next

(* Every step keeps the sale as it was shown. *)
LEMMA ChargedStep ==
  ASSUME TypeOK, LookupsHold, ChargedAsShown, [Next]_vars
  PROVE ChargedAsShown'
  <1>1. ASSUME NEW table \in Tables, PricesWritten(table)
        PROVE ChargedAsShown'
    BY <1>1 DEF PricesWritten, Upsert, ChargedAsShown, TypeOK, get_price_cents
  <1>2. ASSUME NEW p \in Panes, NEW s \in Skus, lookup_item(p, s)
        PROVE ChargedAsShown'
    <2>1. UNCHANGED sale /\ \A c \in sale : c.sku \in Shown
      BY <1>2 DEF lookup_item, Shown, Named
    <2>2. \A c \in sale : c.sku \notin repriced' => c.sku \notin repriced
      BY <1>2, <2>1 DEF lookup_item
    <2> QED BY <2>1, <2>2 DEF ChargedAsShown
  <1>3. ASSUME NEW p \in Panes, NEW b \in Bins, addItem(p, b)
        PROVE ChargedAsShown'
    BY <1>3 DEF addItem, ChargedAsShown, TypeOK, get_price_cents
  <1>4. ASSUME NEW l \in cart, removeLine(l)
        PROVE ChargedAsShown'
    BY <1>4 DEF removeLine, ChargedAsShown, TypeOK, get_price_cents
  <1>5. ASSUME NEW l \in cart, NEW n \in 1 .. MaxQty, setQuantity(l, n)
        PROVE ChargedAsShown'
    BY <1>5 DEF setQuantity, ChargedAsShown, TypeOK, get_price_cents
  <1>6. ASSUME NEW l \in cart, NEW b \in Bins, setWarehouseBin(l, b)
        PROVE ChargedAsShown'
    BY <1>6 DEF setWarehouseBin, ChargedAsShown, TypeOK, get_price_cents
  <1>7. ASSUME NEW l \in cart, NEW b \in Bins, NEW n \in 1 .. MaxQty, splitLine(l, b, n)
        PROVE ChargedAsShown'
    BY <1>7 DEF splitLine, ChargedAsShown, TypeOK, get_price_cents
  <1>8. CASE start_checkout
    <2>1. ASSUME NEW l \in cart, l.sku \notin repriced
          PROVE LET c == Charged(l)
                    amount == c.shown * c.quantity
                    taxable == c.sku \in Taxable
                IN /\ c.unit = c.shown
                   /\ c.tax = ShownTax(amount, taxable) - (IF taxable /\ EvenTie(amount) THEN 1 ELSE 0)
      <3>1. get_price_cents(l.sku) = l.unit
        BY <2>1 DEF LookupsHold, StillPriced
      <3>2. l.unit \in Nat /\ l.quantity \in Nat
        <4>1. l \in Line
          BY DEF TypeOK
        <4>2. l.unit \in Cents /\ l.quantity \in 1 .. MaxQty
          BY <4>1 DEF Line
        <4>3. l.unit \in Nat
          BY <4>2, CentsAssumption
        <4>4. l.quantity \in Nat
          BY <4>2
        <4> QED BY <4>3, <4>4
      <3>3. l.unit * l.quantity \in Nat
        BY <3>2
      <3>4. (l.sku \in Taxable) \in BOOLEAN
        OBVIOUS
      <3>5. compute_line_tax(l.unit * l.quantity, l.sku \in Taxable)
              = ShownTax(l.unit * l.quantity, l.sku \in Taxable)
                  - (IF l.sku \in Taxable /\ EvenTie(l.unit * l.quantity) THEN 1 ELSE 0)
        BY <3>3, <3>4, TaxAsShown
      <3> QED BY <3>1, <3>5 DEF Charged
    <2>2. repriced' = repriced /\ sale' = {Charged(l) : l \in cart}
      BY <1>8 DEF start_checkout
    <2>3. \A l \in cart : Charged(l).sku = l.sku
      BY DEF Charged
    <2> QED BY <2>1, <2>2, <2>3 DEF ChargedAsShown
  <1>9. CASE PaymentFails
    BY <1>9 DEF PaymentFails, ChargedAsShown, TypeOK, get_price_cents
  <1>10. CASE PaymentDone
    BY <1>10 DEF PaymentDone, ChargedAsShown, TypeOK, get_price_cents
  <1>11. CASE UNCHANGED vars
    BY <1>11 DEF vars, ChargedAsShown, TypeOK, get_price_cents
  <1>12. ASSUME NEW p \in Panes, LookupLost(p)
        PROVE ChargedAsShown'
    BY <1>12 DEF LookupLost, ChargedAsShown, TypeOK, get_price_cents
  <1> QED
    BY <1>1, <1>2, <1>3, <1>4, <1>5, <1>6, <1>7, <1>8, <1>9, <1>10, <1>11,
       <1>12 DEF Next

(* The invariant of the cart. *)
THEOREM CartInvariant == Spec => []IInv
  <1>1. Init => IInv
    BY DEF Init, TableInit, NoPrices, IInv, TypeOK, Tables, LookupsHold, ChargedAsShown
  <1>2. IInv /\ [Next]_vars => IInv'
    BY TypeStep, LookupsStep, ChargedStep DEF IInv
  <1> QED BY <1>1, <1>2, PTL DEF Spec

(* The cart keeps its types. *)
THEOREM TypeCorrect == Spec => []TypeOK
  <1>1. IInv => TypeOK
    BY DEF IInv
  <1> QED BY <1>1, CartInvariant, PTL

(* What was scanned has a price when the sale is started (start_checkout). *)
THEOREM ScannedArePayable == Spec => []ScannedIsPayable
  <1>1. IInv => ScannedIsPayable
    BY DEF IInv, LookupsHold, StillPriced, ScannedIsPayable, Named
  <1> QED BY <1>1, CartInvariant, PTL

(* A sale charges what the cart showed, but for new prices and even half cents
   (start_checkout, computeTotals). *)
THEOREM SalesAreChargedAsShown == Spec => []ChargedAsShown
  <1>1. IInv => ChargedAsShown
    BY DEF IInv
  <1> QED BY <1>1, CartInvariant, PTL

-----------------------------------------------------------------------------
(* The price cache                                                           *)

(* Every step of the sync, of an import or of Fabric keeps the types. *)
LEMMA PricesTypeStep ==
  ASSUME PricesTypeOK, [PricesNext]_pricevars
  PROVE PricesTypeOK'
  <1>1. ASSUME NEW table \in Tables, Upsert(table)
        PROVE unit_price_cents' \in Tables
    BY <1>1 DEF Upsert, PricesTypeOK, Tables
  <1>2. NoPrices \in Tables
    BY DEF NoPrices, Tables
  <1>3. CASE SyncWakes
    BY <1>3 DEF SyncWakes, PricesTypeOK
  <1>4. CASE FabricAnswers
    BY <1>4 DEF FabricAnswers, PricesTypeOK
  <1>5. CASE SyncFails
    BY <1>2, <1>5 DEF SyncFails, PricesTypeOK
  <1>6. CASE SyncUpserts
    <2>1. unit_price_cents' \in Tables
      BY <1>1, <1>6 DEF SyncUpserts, PricesTypeOK
    <2> QED BY <1>2, <1>6, <2>1 DEF SyncUpserts, PricesTypeOK, Priced
  <1>7. ASSUME NEW table \in Tables, ImportCsv(table)
        PROVE PricesTypeOK'
    <2>1. unit_price_cents' \in Tables
      BY <1>1, <1>7 DEF ImportCsv
    <2> QED BY MaxChangesAssumption, <1>7, <2>1 DEF ImportCsv, PricesTypeOK, Priced
  <1>8. ASSUME NEW s \in Skus, NEW c \in Cents \cup {None}, FabricChanges(s, c)
        PROVE PricesTypeOK'
    BY MaxChangesAssumption, <1>8 DEF FabricChanges, PricesTypeOK, Tables
  <1>9. CASE UNCHANGED pricevars
    BY <1>9 DEF pricevars, PricesTypeOK
  <1> QED
    BY <1>3, <1>4, <1>5, <1>6, <1>7, <1>8, <1>9 DEF PricesNext

(* The price cache keeps its types (fabric_price_sync.py, pricing.py). *)
THEOREM PricesTypeCorrect == PricesSpec => []PricesTypeOK
  <1>1. PricesInit => PricesTypeOK
    BY MaxChangesAssumption DEF PricesInit, PricesTypeOK, TableInit, NoPrices, Tables
  <1>2. PricesTypeOK /\ [PricesNext]_pricevars => PricesTypeOK'
    BY PricesTypeStep
  <1> QED BY <1>1, <1>2, PTL DEF PricesSpec

(* The rows of the table have the times of their last writes, or were overridden
   by an import (sync_once, import_csv). *)
THEOREM StampsNameLastWrites == PricesSpec => []StampNamesLastWrite
  <1>1. PricesInit => StampNamesLastWrite
    BY DEF PricesInit, StampNamesLastWrite, TableInit, NoPrices, Priced
  <1>2. StampNamesLastWrite /\ [PricesNext]_pricevars => StampNamesLastWrite'
    <2> SUFFICES ASSUME StampNamesLastWrite, [PricesNext]_pricevars,
                        NEW s \in Skus, unit_price_cents'[s] # None
                 PROVE s \in stamped' \/ s \in overridden'
      BY DEF StampNamesLastWrite, Priced
    <2>1. unit_price_cents[s] # None => s \in stamped \/ s \in overridden
      BY DEF StampNamesLastWrite, Priced
    <2>2. CASE SyncUpserts
      BY <2>1, <2>2 DEF SyncUpserts, Upsert, Priced
    <2>3. ASSUME NEW table \in Tables, ImportCsv(table)
          PROVE s \in stamped' \/ s \in overridden'
      BY <2>1, <2>3 DEF ImportCsv, Upsert, Priced
    <2>4. CASE UNCHANGED <<unit_price_cents, stamped, overridden>>
      BY <2>1, <2>4
    <2> QED
      BY <2>2, <2>3, <2>4 DEF PricesNext, SyncWakes, FabricAnswers, SyncFails,
         FabricChanges, pricevars
  <1> QED BY <1>1, <1>2, PTL DEF PricesSpec

(* Sync and imports implement the table that keeps its rows (PriceTable). *)
THEOREM PricesKeepRows == PricesSpec => KeepsRows
  <1>1. PricesInit => TableInit
    BY DEF PricesInit
  <1>2. PricesTypeOK /\ [PricesNext]_pricevars => [TableNext]_unit_price_cents
    BY DEF PricesTypeOK, PricesNext, SyncWakes, FabricAnswers, SyncFails, SyncUpserts,
       ImportCsv, FabricChanges, pricevars, TableNext
  <1> QED BY <1>1, <1>2, PricesTypeCorrect, PTL DEF PricesSpec, KeepsRows, TableSpec

-----------------------------------------------------------------------------
(* The cart over the price cache: together they are both.                    *)

(* Whatever the cart does, the price cache takes its own steps (PricesSpec),
   and a step of the price cache is a write that the cart is made for, or leaves
   its table alone. *)
THEOREM CartOverPrices == PricedSpec => Spec /\ PricesSpec
  <1>1. PricedInit => Init /\ PricesInit
    BY DEF PricedInit
  <1>2. [PricedNext]_allvars => [PricesNext]_pricevars
    BY DEF PricedNext, PriceStep, CartStep, allvars
  <1>3. PricedSpec => PricesSpec
    BY <1>1, <1>2, PTL DEF PricedSpec, PricesSpec
  <1>4. PricesTypeOK /\ [PricedNext]_allvars => [Next]_vars
    <2> SUFFICES ASSUME PricesTypeOK, [PricedNext]_allvars PROVE [Next]_vars
      OBVIOUS
    <2>1. ASSUME PriceStep, NEW table \in Tables, Upsert(table) PROVE Next
      BY <2>1 DEF PriceStep, Next, PricesWritten
    <2>2. CASE PriceStep /\ UNCHANGED unit_price_cents
      <3>1. repriced' = repriced
        BY <2>2 DEF PriceStep
      <3> QED BY <2>2, <3>1 DEF PriceStep, vars
    <2>3. CASE PriceStep
      <3>1. UNCHANGED unit_price_cents \/ \E table \in Tables : Upsert(table)
        BY <2>3 DEF PriceStep, PricesNext, SyncWakes, FabricAnswers, SyncFails, SyncUpserts,
           ImportCsv, FabricChanges, PricesTypeOK
      <3> QED BY <2>1, <2>2, <2>3, <3>1
    <2>4. CASE CartStep \/ UNCHANGED allvars
      BY <2>4 DEF CartStep, allvars
    <2> QED BY <2>3, <2>4 DEF PricedNext
  <1>5. PricedSpec => Spec
    BY <1>1, <1>3, <1>4, PricesTypeCorrect, PTL DEF PricedSpec, Spec
  <1> QED BY <1>3, <1>5

(* So, with the sync and the imports as they are, the table keeps its rows, what
   was scanned can be paid for and the sale charges what the cart showed. *)
THEOREM CartOfSyncedPrices ==
  PricedSpec => KeepsRows /\ []ScannedIsPayable /\ []ChargedAsShown
  BY CartOverPrices, PricesKeepRows, ScannedArePayable, SalesAreChargedAsShown, PTL

-----------------------------------------------------------------------------
(* The payment dialogs: types first.  Then where a sale is, for one step at a *)
(* time; receipts and items follow from that.                                 *)

(* A rendering of the dialogs prints one receipt, or none. *)
LEMMA RenderTypes ==
  ASSUME RegisterTypeOK, NEW p, PanelOK(p), Render(p)
  PROVE /\ printedTxnRef' \in Sales \cup {NoSale}
        /\ prints' \in [Sales -> Nat]
        /\ \A s \in Sales :
             prints'[s] = IF Prints(p) /\ p.of = s THEN prints[s] + 1 ELSE prints[s]
  <1>1. printedTxnRef' \in Sales \cup {NoSale}
    BY DEF Render, RegisterTypeOK, PanelOK, Panels
  <1>2. CASE Prints(p)
    <2>1. prints' = [prints EXCEPT ![p.of] = @ + 1]
      BY <1>2 DEF Render
    <2>2. prints' = [s \in Sales |-> IF s = p.of THEN prints[s] + 1 ELSE prints[s]]
      BY <2>1 DEF RegisterTypeOK
    <2> QED BY <1>1, <1>2, <2>2 DEF RegisterTypeOK
  <1>3. CASE ~ Prints(p)
    BY <1>1, <1>3 DEF Render, RegisterTypeOK
  <1> QED BY <1>2, <1>3

(* What a write of the store leaves behind has its types. *)
LEMMA ShowTypes ==
  ASSUME RegisterTypeOK, NEW p, PanelOK(p), NEW ls \in SUBSET Items, Show(p, ls)
  PROVE /\ PanelOK(panel)'
        /\ printedTxnRef' \in Sales \cup {NoSale}
        /\ prints' \in [Sales -> Nat]
        /\ gaveUp' \subseteq Items
  <1>1. PanelOK(panel)'
    BY DEF Show, PanelOK, Panels, Statuses, TERMINAL_STATUSES, Idle
  <1>2. printedTxnRef' \in Sales \cup {NoSale}
    BY RenderTypes DEF Show
  <1>3. prints' \in [Sales -> Nat]
    BY RenderTypes DEF Show
  <1>4. gaveUp' \subseteq Items
    BY DEF Show, RegisterTypeOK
  <1> QED BY <1>1, <1>2, <1>3, <1>4

(* The panels the handlers show. *)
LEMMA PanelTypes ==
  ASSUME RegisterTypeOK, NEW s \in Sales
  PROVE /\ PanelOK(Idle)
        /\ PanelOK([Idle EXCEPT !.phase = "result", !.status = "PAYMENT_FAILED"])
        /\ \A st \in Statuses, receipt \in BOOLEAN :
             PanelOK([panel EXCEPT !.phase = "result", !.status = st,
                                   !.receipt = receipt, !.of = s])
        /\ PanelOK([phase |-> "in_flight", txn |-> s, status |-> "PAYMENT_IN_FLIGHT",
                    receipt |-> FALSE, of |-> NoSale])
        /\ PanelOK([phase |-> "tendering_cash", txn |-> s, status |-> "AWAITING_PAYMENT",
                    receipt |-> FALSE, of |-> NoSale])
  <1>1. ASSUME NEW st \in Statuses, NEW receipt \in BOOLEAN
        PROVE PanelOK([panel EXCEPT !.phase = "result", !.status = st,
                                    !.receipt = receipt, !.of = s])
    BY DEF RegisterTypeOK, PanelOK, Panels
  <1>2. PanelOK(Idle)
    BY DEF PanelOK, Panels, Idle, Statuses, TERMINAL_STATUSES
  <1>3. PanelOK([Idle EXCEPT !.phase = "result", !.status = "PAYMENT_FAILED"])
    BY DEF PanelOK, Panels, Idle, Statuses, TERMINAL_STATUSES
  <1>4. PanelOK([phase |-> "in_flight", txn |-> s, status |-> "PAYMENT_IN_FLIGHT",
                 receipt |-> FALSE, of |-> NoSale])
    BY NoSaleAssumption DEF PanelOK, Panels, Statuses, TERMINAL_STATUSES
  <1>5. PanelOK([phase |-> "tendering_cash", txn |-> s, status |-> "AWAITING_PAYMENT",
                 receipt |-> FALSE, of |-> NoSale])
    BY NoSaleAssumption DEF PanelOK, Panels, Statuses, TERMINAL_STATUSES
  <1> QED BY <1>1, <1>2, <1>3, <1>4, <1>5

(* The lines a sale leaves behind are items. *)
LEMMA DisplacedTypes ==
  ASSUME RegisterTypeOK, NEW s
  PROVE Displaced(s) \subseteq Items
  BY DEF RegisterTypeOK, Displaced

(* So has what the end of a payment leaves. *)
LEMMA FinishedTypes ==
  ASSUME RegisterTypeOK, NEW s \in Sales,
         \E st \in Statuses, receipt \in BOOLEAN : finished(s, st, receipt)
  PROVE /\ PanelOK(panel)'
        /\ printedTxnRef' \in Sales \cup {NoSale}
        /\ prints' \in [Sales -> Nat]
        /\ gaveUp' \subseteq Items
  <1>1. PICK st \in Statuses, receipt \in BOOLEAN : finished(s, st, receipt)
    OBVIOUS
  <1>2. lines[s] \subseteq Items
    BY DEF RegisterTypeOK
  <1> QED BY <1>1, <1>2, ShowTypes, PanelTypes, DisplacedTypes DEF finished

(* An answered request changes one handler that waits for it, or none. *)
LEMMA RepliedOne ==
  ASSUME NEW handler, NEW H, DOMAIN handler = H, NEW s, NEW new \in Replied(handler, s)
  PROVE \/ new = handler
        \/ \E x \in H :
             /\ handler[x].at = "charging" /\ handler[x].sale = s
             /\ new = [handler EXCEPT ![x].at = "charged"]
  BY DEF Replied

(* Every step of the register or the service keeps the types. *)
LEMMA RegisterTypeStep ==
  ASSUME RegisterTypeOK, [RegisterNext]_registervars
  PROVE RegisterTypeOK'
  <1> USE NoSaleAssumption
  <1>1. ASSUME NEW i \in Items, Scan(i)
        PROVE RegisterTypeOK'
    BY <1>1 DEF Scan, RegisterTypeOK, client, service, PanelOK
  <1>2. ASSUME NEW h \in Presses, NEW kind \in {"card", "cash"}, PressPay(h, kind)
        PROVE RegisterTypeOK'
    BY <1>2 DEF PressPay, RegisterTypeOK, service, PanelOK, PressStates
  <1>3. ASSUME NEW h \in Presses, StartAnswered(h)
        PROVE RegisterTypeOK'
    <2> DEFINE s == press[h].sale
    <2>1. s \in Sales /\ press[h].kind \in {"card", "cash"}
      BY <1>3 DEF StartAnswered, RegisterTypeOK, PressStates
    <2>2. CASE press[h].kind = "card"
      <3>1. /\ press' = [press EXCEPT ![h].at = "charging"] /\ press[h].at = "started"
            /\ asked' = asked \cup {<<"card", s>>}
            /\ UNCHANGED <<items, panel, tender, cancelling, poll, printedTxnRef, status,
                           lines, paid, prints, gaveUp>>
        BY <1>3, <2>2 DEF StartAnswered
      <3>2. /\ press' \in [Presses -> PressStates]
            /\ \A g \in Presses : press'[g].at \in {"started", "charging", "charged"}
                                    => press'[g].sale # NoSale
        BY <3>1 DEF RegisterTypeOK, PressStates
      <3> QED BY <2>1, <3>1, <3>2 DEF RegisterTypeOK, PanelOK
    <2>3. CASE press[h].kind = "cash"
      <3>1. startedCash(s)
        BY <1>3, <2>3 DEF StartAnswered
      <3>2. /\ PanelOK(panel)' /\ printedTxnRef' \in Sales \cup {NoSale}
            /\ prints' \in [Sales -> Nat] /\ gaveUp' \subseteq Items
        BY <2>1, <3>1, ShowTypes, PanelTypes, DisplacedTypes DEF startedCash
      <3>3. press' = [press EXCEPT ![h] = NoPress] /\ UNCHANGED asked
        BY <1>3, <2>3 DEF StartAnswered
      <3>4. UNCHANGED <<items, tender, cancelling, poll, status, lines, paid>>
        BY <1>3 DEF StartAnswered
      <3> QED BY <3>2, <3>3, <3>4 DEF RegisterTypeOK, PressStates, NoPress
    <2> QED BY <2>1, <2>2, <2>3
  <1>4. ASSUME NEW h \in Presses, CardAnswered(h)
        PROVE RegisterTypeOK'
    <2>1. press[h].sale \in Sales
      BY <1>4 DEF CardAnswered, RegisterTypeOK, PressStates
    <2>2. /\ PanelOK(panel)' /\ printedTxnRef' \in Sales \cup {NoSale}
          /\ prints' \in [Sales -> Nat] /\ gaveUp' \subseteq Items
      BY <1>4, <2>1, ShowTypes, PanelTypes, DisplacedTypes DEF CardAnswered, startedAt
    <2> QED BY <1>4, <2>2 DEF CardAnswered, RegisterTypeOK, PressStates, NoPress, service
  <1>5. ASSUME NEW h \in Presses, PayFails(h)
        PROVE RegisterTypeOK'
    <2>1. press[h].lines \subseteq Items
      BY <1>5 DEF RegisterTypeOK, PressStates
    <2>2. PanelOK([Idle EXCEPT !.phase = "result", !.status = "PAYMENT_FAILED"])
      BY DEF PanelOK, Panels, Idle, Statuses, TERMINAL_STATUSES
    <2>3. /\ PanelOK(panel)' /\ printedTxnRef' \in Sales \cup {NoSale}
          /\ prints' \in [Sales -> Nat] /\ gaveUp' \subseteq Items
      BY <1>5, <2>1, <2>2, ShowTypes, DisplacedTypes DEF PayFails, failed
    <2> QED BY <1>5, <2>3 DEF PayFails, RegisterTypeOK, PressStates, NoPress, service
  <1>6. ASSUME NEW h \in Presses, NEW s \in Sales, ServeStart(h, s)
        PROVE RegisterTypeOK'
    BY <1>6 DEF ServeStart, RegisterTypeOK, PressStates, PanelOK, Statuses
  <1>7. ASSUME NEW d \in Tenders, Tender(d)
        PROVE RegisterTypeOK'
    BY <1>7 DEF Tender, DialogOpen, RegisterTypeOK, TenderStates, PanelOK, Panels
  <1>8. ASSUME NEW d \in Tenders, TenderAnswered(d)
        PROVE RegisterTypeOK'
    BY <1>8 DEF TenderAnswered, RegisterTypeOK, TenderStates, PanelOK, service
  <1>9. ASSUME NEW d \in Tenders, TenderFails(d) \/ StatusFetched(d)
        PROVE RegisterTypeOK'
    <2> DEFINE s == tender[d].sale
    <2>1. s \in Sales
      BY <1>9 DEF TenderFails, StatusFetched, RegisterTypeOK, TenderStates
    <2>2. \E st \in Statuses, receipt \in BOOLEAN : finished(s, st, receipt)
      <3>1. /\ "PAYMENT_FAILED" \in Statuses /\ "COMPLETE" \in Statuses
            /\ status[s] \in Statuses
            /\ (status[s] \in {"COMPLETE", "INVENTORY_UPDATE_FAILED"}) \in BOOLEAN
        BY <2>1 DEF RegisterTypeOK, Statuses, TERMINAL_STATUSES
      <3>2. CASE TenderFails(d)
        BY <3>1, <3>2 DEF TenderFails
      <3>3. CASE StatusFetched(d)
        BY <3>1, <3>3 DEF StatusFetched
      <3> QED BY <1>9, <3>2, <3>3
    <2>3. /\ PanelOK(panel)' /\ printedTxnRef' \in Sales \cup {NoSale}
          /\ prints' \in [Sales -> Nat] /\ gaveUp' \subseteq Items
      BY <2>1, <2>2, FinishedTypes
    <2>4. /\ tender' = [tender EXCEPT ![d] = NoTender]
          /\ UNCHANGED <<items, press, cancelling, poll, service>>
      BY <1>9 DEF TenderFails, StatusFetched
    <2> QED BY <2>3, <2>4 DEF RegisterTypeOK, TenderStates, NoTender, service
  <1>10. CASE LeaveScreen
    <2>1. /\ press' \in [Presses -> PressStates]
          /\ \A h \in Presses : press'[h].at = press[h].at /\ press'[h].sale = press[h].sale
      <3>1. press' = [h \in Presses |-> [press[h] EXCEPT !.here = FALSE]]
        BY <1>10 DEF LeaveScreen
      <3>2. ASSUME NEW h \in Presses
            PROVE /\ [press[h] EXCEPT !.here = FALSE] \in PressStates
                  /\ [press[h] EXCEPT !.here = FALSE].at = press[h].at
                  /\ [press[h] EXCEPT !.here = FALSE].sale = press[h].sale
        <4>1. press[h] \in PressStates
          BY DEF RegisterTypeOK
        <4> QED BY <4>1 DEF PressStates
      <3> QED BY <3>1, <3>2
    <2>4. /\ tender' \in [Tenders -> TenderStates]
          /\ \A d \in Tenders : tender'[d].at = tender[d].at /\ tender'[d].sale = tender[d].sale
      <3>1. tender' = [d \in Tenders |-> [tender[d] EXCEPT !.here = FALSE]]
        BY <1>10 DEF LeaveScreen
      <3>2. ASSUME NEW d \in Tenders
            PROVE /\ [tender[d] EXCEPT !.here = FALSE] \in TenderStates
                  /\ [tender[d] EXCEPT !.here = FALSE].at = tender[d].at
                  /\ [tender[d] EXCEPT !.here = FALSE].sale = tender[d].sale
        <4>1. tender[d] \in TenderStates
          BY DEF RegisterTypeOK
        <4> QED BY <4>1 DEF TenderStates
      <3> QED BY <3>1, <3>2
    <2>2. printedTxnRef' \in Sales \cup {NoSale} /\ prints' \in [Sales -> Nat]
      BY <1>10 DEF LeaveScreen, RegisterTypeOK, PanelOK, Panels
    <2>3. gaveUp' \subseteq Items
      BY <1>10 DEF LeaveScreen, RegisterTypeOK, PressStates
    <2> QED BY <1>10, <2>1, <2>2, <2>3, <2>4 DEF LeaveScreen, RegisterTypeOK, PanelOK, service
  <1>11. CASE CancelTender
    BY <1>11 DEF CancelTender, DialogOpen, RegisterTypeOK, PanelOK, Panels
  <1>12. CASE CancelSettled
    <2>1. cancelling \in Sales /\ lines[cancelling] \subseteq Items
      BY <1>12 DEF CancelSettled, RegisterTypeOK
    <2>2. /\ PanelOK(panel)' /\ printedTxnRef' \in Sales \cup {NoSale}
          /\ prints' \in [Sales -> Nat] /\ gaveUp' \subseteq Items
      BY <1>12, <2>1, ShowTypes, PanelTypes, DisplacedTypes DEF CancelSettled, reset
    <2> QED BY <1>12, <2>2 DEF CancelSettled, RegisterTypeOK, service
  <1>13. CASE PollSent
    BY <1>13 DEF PollSent, RegisterTypeOK, PanelOK, Panels, service
  <1>14. CASE PollAnswered
    <2>1. CASE panel.txn = poll /\ status[poll] \in TERMINAL_STATUSES
      <3>1. poll \in Sales
        BY <1>14 DEF PollAnswered, RegisterTypeOK
      <3>2. finished(poll, status[poll],
                     status[poll] \in {"COMPLETE", "INVENTORY_UPDATE_FAILED"})
        BY <1>14, <2>1 DEF PollAnswered
      <3>4. status[poll] \in Statuses
        BY <3>1 DEF RegisterTypeOK
      <3>3. /\ PanelOK(panel)' /\ printedTxnRef' \in Sales \cup {NoSale}
            /\ prints' \in [Sales -> Nat] /\ gaveUp' \subseteq Items
        <4>1. (status[poll] \in {"COMPLETE", "INVENTORY_UPDATE_FAILED"}) \in BOOLEAN
          OBVIOUS
        <4>2. \E st \in Statuses, receipt \in BOOLEAN : finished(poll, st, receipt)
          BY <3>2, <3>4, <4>1
        <4> QED BY <3>1, <4>2, FinishedTypes
      <3> QED BY <1>14, <3>3 DEF PollAnswered, RegisterTypeOK, service
    <2>2. CASE ~ (panel.txn = poll /\ status[poll] \in TERMINAL_STATUSES)
      BY <1>14, <2>2 DEF PollAnswered, RegisterTypeOK, PanelOK, service
    <2> QED BY <2>1, <2>2
  <1>15. CASE CancelCard
    BY <1>15 DEF CancelCard, RegisterTypeOK, PanelOK, Panels, client
  <1>16. CASE PrintSettled
    <2>1. printedTxnRef' \in Sales \cup {NoSale} /\ prints' \in [Sales -> Nat]
      BY <1>16, RenderTypes DEF PrintSettled, RegisterTypeOK
    <2> QED BY <1>16, <2>1 DEF PrintSettled, RegisterTypeOK, PanelOK, service
  <1>17. CASE Done
    <2>1. PanelOK(Idle)
      BY DEF PanelOK, Panels, Idle, Statuses, TERMINAL_STATUSES
    <2>2. /\ PanelOK(panel)' /\ printedTxnRef' \in Sales \cup {NoSale}
          /\ prints' \in [Sales -> Nat] /\ gaveUp' \subseteq Items
      BY <1>17, <2>1, ShowTypes DEF Done, reset
    <2> QED BY <1>17, <2>2 DEF Done, RegisterTypeOK, service
  <1>18. ASSUME NEW s \in Sales, ServeCard(s)
         PROVE RegisterTypeOK'
    <2>1. CASE press' = press
      BY <1>18, <2>1 DEF ServeCard, RegisterTypeOK, PanelOK, Statuses, TERMINAL_STATUSES
    <2>2. CASE /\ press' \in Replied(press, s) /\ UNCHANGED paid
               /\ status' = [status EXCEPT ![s] = "PAYMENT_IN_FLIGHT"]
               /\ asked' = (asked \ {<<"card", s>>}) \cup {<<"poll", s>>}
      <3>1. /\ press' \in [Presses -> PressStates]
            /\ \A h \in Presses : press'[h].at \in {"started", "charging", "charged"}
                                    => press'[h].sale # NoSale
        <4>1. CASE press' = press
          BY <4>1 DEF RegisterTypeOK
        <4>2. CASE \E x \in Presses : press[x].at = "charging"
                                    /\ press' = [press EXCEPT ![x].at = "charged"]
          BY <4>2 DEF RegisterTypeOK, PressStates
        <4>3. DOMAIN press = Presses
          BY DEF RegisterTypeOK
        <4>4. \/ press' = press
              \/ \E x \in Presses : press[x].at = "charging"
                                  /\ press' = [press EXCEPT ![x].at = "charged"]
          BY <2>2, <4>3, RepliedOne
        <4> QED BY <4>1, <4>2, <4>4
      <3> QED
        BY <1>18, <2>2, <3>1 DEF ServeCard, RegisterTypeOK, PanelOK, Statuses, TERMINAL_STATUSES
    <2> QED BY <1>18, <2>1, <2>2 DEF ServeCard
  <1>19. ASSUME NEW s \in Sales, ServeCash(s)
         PROVE RegisterTypeOK'
    <2>1. /\ tender' \in [Tenders -> TenderStates]
          /\ \A d \in Tenders : tender'[d].at # "idle" => tender'[d].sale # NoSale
      <3>1. CASE tender' = tender
        BY <3>1 DEF RegisterTypeOK
      <3>2. CASE \E x \in Tenders : tender[x].at = "charging"
                                  /\ tender' = [tender EXCEPT ![x].at = "charged"]
        BY <3>2 DEF RegisterTypeOK, TenderStates
      <3>3. DOMAIN tender = Tenders
        BY DEF RegisterTypeOK
      <3>4. UNCHANGED tender \/ tender' \in Replied(tender, s)
        BY <1>19 DEF ServeCash
      <3>5. \/ tender' = tender
            \/ \E x \in Tenders : tender[x].at = "charging"
                                /\ tender' = [tender EXCEPT ![x].at = "charged"]
        BY <3>3, <3>4, RepliedOne
      <3> QED BY <3>1, <3>2, <3>5
    <2>2. status' \in [Sales -> Statuses] /\ paid' \subseteq Sales
      BY <1>19 DEF ServeCash, RegisterTypeOK, Statuses, TERMINAL_STATUSES
    <2> QED BY <1>19, <2>1, <2>2 DEF ServeCash, Arrives, RegisterTypeOK, PanelOK
  <1>20. ASSUME NEW s \in Sales, ServeCancel(s) \/ WindcaveCancelled(s) \/ PollerEnds(s)
                                   \/ RetrySentry(s)
         PROVE RegisterTypeOK'
    <2>1. status' \in [Sales -> Statuses] /\ paid' \subseteq Sales
      BY <1>20 DEF ServeCancel, WindcaveCancelled, PollerEnds, RetrySentry,
         RegisterTypeOK, Statuses, TERMINAL_STATUSES
    <2>2. asked' \subseteq {"card", "cash", "cancel", "cancelled", "poll"} \X Sales
      BY <1>20 DEF ServeCancel, WindcaveCancelled, PollerEnds, RetrySentry, Arrives,
         RegisterTypeOK
    <2>3. UNCHANGED <<items, client, lines, prints>>
      BY <1>20 DEF ServeCancel, WindcaveCancelled, PollerEnds, RetrySentry
    <2> QED BY <2>1, <2>2, <2>3 DEF client, RegisterTypeOK, PanelOK
  <1>21. CASE UNCHANGED registervars
    BY <1>21 DEF registervars, client, service, RegisterTypeOK, PanelOK
  <1> QED
    BY <1>1, <1>2, <1>3, <1>4, <1>5, <1>6, <1>7, <1>8, <1>9, <1>10, <1>11, <1>12, <1>13,
       <1>14, <1>15, <1>16, <1>17, <1>18, <1>19, <1>20, <1>21 DEF RegisterNext


(* Which steps write the service's tables, a tender, a press, or the store. *)
LEMMA ServiceWriters ==
  ASSUME RegisterNext
  PROVE \/ UNCHANGED <<status, lines, paid>>
        \/ \E h \in Presses, s \in Sales : ServeStart(h, s)
        \/ \E s \in Sales : ServeCard(s) \/ ServeCash(s) \/ ServeCancel(s)
                              \/ WindcaveCancelled(s) \/ PollerEnds(s) \/ RetrySentry(s)
  BY DEF RegisterNext, Scan, PressPay, StartAnswered, CardAnswered, PayFails, Tender,
     TenderAnswered, TenderFails, StatusFetched, LeaveScreen, CancelTender, CancelSettled,
     PollSent, PollAnswered, CancelCard, PrintSettled, Done, service

LEMMA TenderWriters ==
  ASSUME RegisterNext
  PROVE \/ UNCHANGED tender
        \/ \E d \in Tenders : Tender(d) \/ TenderAnswered(d) \/ TenderFails(d) \/ StatusFetched(d)
        \/ LeaveScreen
        \/ \E s \in Sales : ServeCash(s)
  BY DEF RegisterNext, Scan, PressPay, StartAnswered, CardAnswered, PayFails,
     CancelTender, CancelSettled, PollSent, PollAnswered, CancelCard, PrintSettled, Done,
     ServeStart, ServeCard, ServeCancel, WindcaveCancelled, PollerEnds, RetrySentry, client

LEMMA PressWriters ==
  ASSUME RegisterNext
  PROVE \/ UNCHANGED press
        \/ \E h \in Presses : \/ \E kind \in {"card", "cash"} : PressPay(h, kind)
                              \/ StartAnswered(h) \/ CardAnswered(h) \/ PayFails(h)
                              \/ \E s \in Sales : ServeStart(h, s)
        \/ LeaveScreen
        \/ \E s \in Sales : ServeCard(s)
  BY DEF RegisterNext, Scan, Tender, TenderAnswered, TenderFails, StatusFetched,
     CancelTender, CancelSettled, PollSent, PollAnswered, CancelCard, PrintSettled, Done,
     ServeCash, ServeCancel, WindcaveCancelled, PollerEnds, RetrySentry, client

LEMMA StoreWriters ==
  ASSUME RegisterNext
  PROVE \/ UNCHANGED <<panel, printedTxnRef, prints, gaveUp>>
        \/ \E h \in Presses : StartAnswered(h) \/ CardAnswered(h) \/ PayFails(h)
        \/ \E d \in Tenders : TenderFails(d) \/ StatusFetched(d)
        \/ LeaveScreen \/ CancelSettled \/ PollAnswered \/ PrintSettled \/ Done
  BY DEF RegisterNext, Scan, PressPay, Tender, TenderAnswered, CancelTender, PollSent,
     CancelCard, ServeStart, ServeCard, ServeCash, ServeCancel, WindcaveCancelled,
     PollerEnds, RetrySentry, client, registervars

(* Money that was taken stays taken. *)
LEMMA PaidGrows ==
  ASSUME RegisterNext
  PROVE paid \subseteq paid'
  BY ServiceWriters DEF ServeStart, ServeCard, ServeCash, ServeCancel, WindcaveCancelled,
     PollerEnds, RetrySentry

(* A sale comes to a success only with its money. *)
LEMMA CompleteIsPaid ==
  ASSUME RegisterTypeOK, PaidFor, RegisterNext
  PROVE (\A s \in Sales : status[s] \in {"COMPLETE", "INVENTORY_UPDATE_FAILED"} => s \in paid)'
  <1> SUFFICES ASSUME NEW s \in Sales,
                      status'[s] \in {"COMPLETE", "INVENTORY_UPDATE_FAILED"}
               PROVE s \in paid'
    OBVIOUS
  <1>1. CASE status'[s] = status[s]
    BY <1>1, PaidGrows DEF PaidFor
  <1>2. CASE status'[s] # status[s]
    <2>1. \A h \in Presses, r \in Sales : ~ ServeStart(h, r)
      BY <1>2 DEF ServeStart, RegisterTypeOK
    <2>2. PICK r \in Sales : ServeCard(r) \/ ServeCash(r) \/ ServeCancel(r)
                              \/ WindcaveCancelled(r) \/ PollerEnds(r) \/ RetrySentry(r)
      BY <1>2, <2>1, ServiceWriters
    <2>3. \E st : status' = [status EXCEPT ![r] = st]
      BY <1>2, <2>2 DEF ServeCard, ServeCash, ServeCancel, WindcaveCancelled, PollerEnds,
         RetrySentry
    <2>4. r = s
      BY <1>2, <2>3 DEF RegisterTypeOK
    <2>5. CASE RetrySentry(s)
      BY <2>5 DEF RetrySentry, PaidFor
    <2>6. CASE ServeCash(s) \/ PollerEnds(s)
      BY <1>2, <2>6 DEF ServeCash, PollerEnds, RegisterTypeOK
    <2>7. CASE ServeCard(s) \/ ServeCancel(s) \/ WindcaveCancelled(s)
      BY <1>2, <2>7 DEF ServeCard, ServeCancel, WindcaveCancelled, RegisterTypeOK
    <2> QED BY <2>2, <2>4, <2>5, <2>6, <2>7
  <1> QED BY <1>1, <1>2

(* A tender is answered only when its sale's money was taken. *)
LEMMA ChargedIsPaid ==
  ASSUME RegisterTypeOK, PaidFor, RegisterNext
  PROVE (\A d \in Tenders : tender[d].at \in {"charged", "fetching"} => tender[d].sale \in paid)'
  <1> SUFFICES ASSUME NEW d \in Tenders, tender'[d].at \in {"charged", "fetching"}
               PROVE tender'[d].sale \in paid'
    OBVIOUS
  <1>1. CASE tender[d].at \in {"charged", "fetching"} /\ tender'[d].sale = tender[d].sale
    BY <1>1, PaidGrows DEF PaidFor
  <1>2. CASE UNCHANGED tender
    BY <1>1, <1>2
  <1>3. ASSUME NEW e \in Tenders, Tender(e)
        PROVE e # d /\ tender'[d] = tender[d]
    BY <1>3 DEF Tender, RegisterTypeOK
  <1>4. ASSUME NEW e \in Tenders, TenderAnswered(e)
        PROVE tender[d].at \in {"charged", "fetching"} /\ tender'[d].sale = tender[d].sale
    BY <1>4 DEF TenderAnswered, RegisterTypeOK, TenderStates
  <1>5. ASSUME NEW e \in Tenders, TenderFails(e) \/ StatusFetched(e)
        PROVE e # d /\ tender'[d] = tender[d]
    <2>1. tender' = [tender EXCEPT ![e] = NoTender]
      BY <1>5 DEF TenderFails, StatusFetched
    <2> QED BY <2>1 DEF RegisterTypeOK, NoTender
  <1>6. CASE LeaveScreen
    <2>1. tender'[d] = [tender[d] EXCEPT !.here = FALSE]
      BY <1>6 DEF LeaveScreen
    <2> QED BY <1>1, <2>1 DEF RegisterTypeOK, TenderStates
  <1>7. ASSUME NEW s \in Sales, ServeCash(s)
        PROVE tender'[d].sale \in paid'
    <2>1. CASE tender'[d] = tender[d]
      BY <1>1, <2>1
    <2>2. CASE tender'[d] # tender[d]
      <3>1. tender' \in Replied(tender, s) /\ paid' = paid \cup {s}
        BY <1>7, <2>2 DEF ServeCash
      <3>2. DOMAIN tender = Tenders
        BY DEF RegisterTypeOK
      <3>3. PICK x \in Tenders : tender[x].sale = s /\ tender' = [tender EXCEPT ![x].at = "charged"]
        BY <2>2, <3>1, <3>2, RepliedOne
      <3> QED BY <2>2, <3>1, <3>2, <3>3 DEF RegisterTypeOK, TenderStates
    <2> QED BY <2>1, <2>2
  <1> QED
    BY <1>1, <1>2, <1>3, <1>4, <1>5, <1>6, <1>7, TenderWriters

(* A success is shown from a status, or from a tender that was answered. *)
LEMMA SuccessIsPaidStep ==
  ASSUME RegisterTypeOK, PaidFor, RegisterNext
  PROVE SuccessIsPaid'
  <1> SUFFICES ASSUME Success' PROVE panel'.of \in paid'
    BY DEF SuccessIsPaid
  <1>1. CASE panel' = panel
    BY <1>1, PaidGrows DEF PaidFor, SuccessIsPaid, Success
  <1>2. ASSUME NEW s \in Sales, NEW st, NEW receipt, finished(s, st, receipt),
               st = "COMPLETE" => s \in paid
        PROVE panel'.of \in paid'
    BY <1>2, PaidGrows DEF finished, Show, Success, RegisterTypeOK, PanelOK, Panels
  <1>3. ASSUME NEW h \in Presses, StartAnswered(h) \/ CardAnswered(h) \/ PayFails(h)
        PROVE panel' = panel
    <2>1. CASE StartAnswered(h)
      BY <2>1 DEF StartAnswered, startedCash, Show, Success
    <2>2. CASE CardAnswered(h)
      BY <2>2 DEF CardAnswered, startedAt, Show, Success
    <2>3. CASE PayFails(h)
      BY <2>3 DEF PayFails, failed, Show, Success, Idle
    <2> QED BY <1>3, <2>1, <2>2, <2>3
  <1>4. ASSUME NEW d \in Tenders, TenderFails(d)
        PROVE panel'.of \in paid'
    <2>1. tender[d].sale \in Sales
      BY <1>4 DEF TenderFails, RegisterTypeOK, TenderStates
    <2> QED BY <1>2, <1>4, <2>1 DEF TenderFails
  <1>5. ASSUME NEW d \in Tenders, StatusFetched(d)
        PROVE panel'.of \in paid'
    <2>1. tender[d].sale \in Sales /\ tender[d].sale \in paid
      BY <1>5 DEF StatusFetched, RegisterTypeOK, TenderStates, PaidFor
    <2> QED BY <1>2, <1>5, <2>1 DEF StatusFetched
  <1>6. CASE LeaveScreen \/ PrintSettled
    BY <1>1, <1>6 DEF LeaveScreen, PrintSettled
  <1>7. CASE CancelSettled \/ Done
    BY <1>7 DEF CancelSettled, Done, reset, Show, Success, Idle
  <1>8. CASE PollAnswered
    <2>1. CASE panel.txn = poll /\ status[poll] \in TERMINAL_STATUSES
      <3>1. poll \in Sales /\ (status[poll] = "COMPLETE" => poll \in paid)
        BY <1>8 DEF PollAnswered, RegisterTypeOK, PaidFor
      <3>2. finished(poll, status[poll],
                     status[poll] \in {"COMPLETE", "INVENTORY_UPDATE_FAILED"})
        BY <1>8, <2>1 DEF PollAnswered
      <3> QED BY <1>2, <3>1, <3>2
    <2>2. CASE ~ (panel.txn = poll /\ status[poll] \in TERMINAL_STATUSES)
      BY <1>1, <1>8, <2>2 DEF PollAnswered
    <2> QED BY <2>1, <2>2
  <1> QED BY <1>1, <1>3, <1>4, <1>5, <1>6, <1>7, <1>8, StoreWriters

LEMMA PaidForStep ==
  ASSUME RegisterTypeOK, PaidFor, [RegisterNext]_registervars
  PROVE PaidFor'
  <1>1. CASE RegisterNext
    <2>1. SuccessIsPaid'
      BY <1>1, SuccessIsPaidStep
    <2> QED BY <1>1, <2>1, CompleteIsPaid, ChargedIsPaid DEF PaidFor
  <1>2. CASE UNCHANGED registervars
    BY <1>2 DEF registervars, client, service, PaidFor, SuccessIsPaid, Success
  <1> QED BY <1>1, <1>2

-----------------------------------------------------------------------------
(* Where a sale is, after a step and before it.                              *)

LEMMA PollWriters ==
  ASSUME RegisterNext
  PROVE UNCHANGED poll \/ PollSent \/ PollAnswered
  BY DEF RegisterNext, Scan, PressPay, StartAnswered, CardAnswered, PayFails, Tender,
     TenderAnswered, TenderFails, StatusFetched, LeaveScreen, CancelTender, CancelSettled,
     CancelCard, PrintSettled, Done, ServeStart, ServeCard, ServeCash, ServeCancel,
     WindcaveCancelled, PollerEnds, RetrySentry, client

(* A sale leaves "none" for good, and once settled it stays so. *)
LEMMA StatusGoesOn ==
  ASSUME RegisterTypeOK, RegisterNext, NEW s \in Sales
  PROVE /\ status'[s] = "none" => status[s] = "none"
        /\ Settled(s) => Settled(s)'
  <1>1. CASE UNCHANGED status
    BY <1>1 DEF Settled
  <1>2. ASSUME NEW h \in Presses, NEW r \in Sales, ServeStart(h, r)
        PROVE /\ status'[s] = "none" => status[s] = "none"
              /\ Settled(s) => Settled(s)'
    BY <1>2 DEF ServeStart, Settled, RegisterTypeOK
  <1>3. ASSUME NEW r \in Sales, ServeCard(r) \/ ServeCash(r) \/ ServeCancel(r)
                                  \/ WindcaveCancelled(r) \/ PollerEnds(r) \/ RetrySentry(r)
        PROVE /\ status'[s] = "none" => status[s] = "none"
              /\ Settled(s) => Settled(s)'
    <2>1. \/ UNCHANGED status
          \/ \E st \in Statuses \ {"none", "AWAITING_PAYMENT"} :
               status' = [status EXCEPT ![r] = st]
      BY <1>3 DEF ServeCard, ServeCash, ServeCancel, WindcaveCancelled, PollerEnds,
         RetrySentry, Statuses, TERMINAL_STATUSES
    <2> QED BY <1>1, <2>1 DEF Settled, RegisterTypeOK
  <1> QED BY <1>1, <1>2, <1>3, ServiceWriters

(* A press comes to hold a sale by starting one. *)
LEMMA HoldsFrom ==
  ASSUME RegisterTypeOK, RegisterNext, NEW h \in Presses, NEW s \in Sales, Holds(h, s)'
  PROVE Holds(h, s) \/ ServeStart(h, s)
  <1>1. CASE UNCHANGED press
    BY <1>1 DEF Holds
  <1>2. ASSUME NEW g \in Presses, NEW kind \in {"card", "cash"}, PressPay(g, kind)
        PROVE Holds(h, s)
    BY <1>2 DEF PressPay, Holds, RegisterTypeOK
  <1>3. ASSUME NEW g \in Presses, StartAnswered(g)
        PROVE Holds(h, s)
    BY <1>3 DEF StartAnswered, Holds, RegisterTypeOK, PressStates, NoPress
  <1>4. ASSUME NEW g \in Presses, CardAnswered(g) \/ PayFails(g)
        PROVE Holds(h, s)
    <2>1. press' = [press EXCEPT ![g] = NoPress]
      BY <1>4 DEF CardAnswered, PayFails
    <2> QED BY <2>1 DEF Holds, RegisterTypeOK, NoPress
  <1>5. ASSUME NEW g \in Presses, NEW r \in Sales, ServeStart(g, r)
        PROVE Holds(h, s) \/ ServeStart(h, s)
    BY <1>5 DEF ServeStart, Holds, RegisterTypeOK, PressStates
  <1>6. CASE LeaveScreen
    <2>1. press'[h] = [press[h] EXCEPT !.here = FALSE]
      BY <1>6 DEF LeaveScreen
    <2> QED BY <2>1 DEF Holds, RegisterTypeOK, PressStates
  <1>7. ASSUME NEW r \in Sales, ServeCard(r)
        PROVE Holds(h, s)
    <2>1. DOMAIN press = Presses /\ (UNCHANGED press \/ press' \in Replied(press, r))
      BY <1>7 DEF ServeCard, RegisterTypeOK
    <2>2. CASE \E x \in Presses : press[x].at = "charging"
                                /\ press' = [press EXCEPT ![x].at = "charged"]
      BY <2>2 DEF Holds, RegisterTypeOK, PressStates
    <2>3. \/ UNCHANGED press
          \/ \E x \in Presses : press[x].at = "charging"
                              /\ press' = [press EXCEPT ![x].at = "charged"]
      BY <2>1, RepliedOne
    <2>4. CASE UNCHANGED press
      BY <2>4 DEF Holds
    <2> QED BY <2>2, <2>3, <2>4
  <1> QED BY <1>1, <1>2, <1>3, <1>4, <1>5, <1>6, <1>7, PressWriters

(* A payment dialog opens by an answer to the press that started its sale. *)
LEMMA DialogFrom ==
  ASSUME RegisterTypeOK, RegisterNext, panel'.phase \in {"in_flight", "tendering_cash"}
  PROVE \/ panel' = panel
        \/ \E h \in Presses :
             /\ press' = [press EXCEPT ![h] = NoPress]
             /\ panel'.txn = press[h].sale
             /\ \/ press[h].at = "charged" /\ panel'.phase = "in_flight"
                \/ press[h].at = "started" /\ panel'.phase = "tendering_cash"
  <1>1. CASE UNCHANGED panel
    BY <1>1
  <1>2. ASSUME NEW h \in Presses, StartAnswered(h)
        PROVE \/ panel' = panel
              \/ /\ press' = [press EXCEPT ![h] = NoPress]
                 /\ panel'.txn = press[h].sale
                 /\ press[h].at = "started" /\ panel'.phase = "tendering_cash"
    BY <1>2 DEF StartAnswered, startedCash, Show
  <1>3. ASSUME NEW h \in Presses, CardAnswered(h)
        PROVE /\ press' = [press EXCEPT ![h] = NoPress]
              /\ panel'.txn = press[h].sale
              /\ press[h].at = "charged" /\ panel'.phase = "in_flight"
    BY <1>3 DEF CardAnswered, startedAt, Show
  <1>4. ASSUME NEW h \in Presses, PayFails(h)
        PROVE FALSE
    BY <1>4 DEF PayFails, failed, Show, Idle
  <1>5. ASSUME NEW s, NEW st, NEW receipt, finished(s, st, receipt)
        PROVE FALSE
    BY <1>5 DEF finished, Show, RegisterTypeOK, PanelOK, Panels
  <1>6. ASSUME NEW d \in Tenders, TenderFails(d) \/ StatusFetched(d)
        PROVE FALSE
    BY <1>5, <1>6 DEF TenderFails, StatusFetched
  <1>7. CASE LeaveScreen \/ PrintSettled
    BY <1>7 DEF LeaveScreen, PrintSettled
  <1>8. CASE CancelSettled \/ Done
    BY <1>8 DEF CancelSettled, Done, reset, Show, Idle
  <1>9. CASE PollAnswered
    BY <1>5, <1>9 DEF PollAnswered
  <1> QED
    BY <1>1, <1>2, <1>3, <1>4, <1>6, <1>7, <1>8, <1>9, StoreWriters

(* A sale comes to a card dialog, or its poll, from the press that held it. *)
LEMMA ByCardFrom ==
  ASSUME RegisterTypeOK, RegisterNext, NEW s \in Sales, ByCard(s)'
  PROVE \/ ByCard(s)
        \/ \E h \in Presses : /\ press[h].at = "charged" /\ press[h].sale = s
                              /\ press' = [press EXCEPT ![h] = NoPress]
  <1>1. CASE poll' = s
    <2>1. CASE PollSent
      BY <1>1, <2>1 DEF PollSent, ByCard
    <2>2. CASE PollAnswered
      BY <1>1, <2>2, NoSaleAssumption DEF PollAnswered, ByCard
    <2> QED BY <1>1, <2>1, <2>2, PollWriters DEF ByCard
  <1>2. CASE panel'.phase = "in_flight" /\ panel'.txn = s
    BY <1>2, DialogFrom DEF ByCard
  <1> QED BY <1>1, <1>2 DEF ByCard

(* A sale comes to a cash dialog from the press that held it, and to a press of
   the tender button from the dialog. *)
LEMMA ByCashFrom ==
  ASSUME RegisterTypeOK, RegisterNext, NEW s \in Sales, ByCash(s)'
  PROVE \/ ByCash(s)
        \/ \E h \in Presses : /\ press[h].at = "started" /\ press[h].sale = s
                              /\ press' = [press EXCEPT ![h] = NoPress]
  <1>1. CASE panel'.phase = "tendering_cash" /\ panel'.txn = s
    BY <1>1, DialogFrom DEF ByCash
  <1>2. ASSUME NEW d \in Tenders, tender'[d].at # "idle", tender'[d].sale = s
        PROVE ByCash(s)
    <2>1. CASE tender[d].at # "idle" /\ tender[d].sale = s
      BY <2>1 DEF ByCash
    <2>2. ASSUME NEW e \in Tenders, Tender(e)
          PROVE ByCash(s)
      BY <1>2, <2>1, <2>2 DEF Tender, DialogOpen, ByCash, RegisterTypeOK
    <2>3. ASSUME NEW e \in Tenders, TenderAnswered(e)
          PROVE ByCash(s)
      BY <1>2, <2>1, <2>3 DEF TenderAnswered, RegisterTypeOK, TenderStates
    <2>4. ASSUME NEW e \in Tenders, TenderFails(e) \/ StatusFetched(e)
          PROVE ByCash(s)
      <3>1. tender' = [tender EXCEPT ![e] = NoTender]
        BY <2>4 DEF TenderFails, StatusFetched
      <3> QED BY <1>2, <2>1, <3>1 DEF RegisterTypeOK, NoTender
    <2>5. CASE LeaveScreen
      <3>1. tender'[d] = [tender[d] EXCEPT !.here = FALSE]
        BY <2>5 DEF LeaveScreen
      <3> QED BY <1>2, <2>1, <3>1 DEF RegisterTypeOK, TenderStates
    <2>6. ASSUME NEW r \in Sales, ServeCash(r)
          PROVE ByCash(s)
      <3>1. DOMAIN tender = Tenders /\ (UNCHANGED tender \/ tender' \in Replied(tender, r))
        BY <2>6 DEF ServeCash, RegisterTypeOK
      <3>2. CASE \E x \in Tenders : tender[x].at = "charging"
                                  /\ tender' = [tender EXCEPT ![x].at = "charged"]
        BY <1>2, <2>1, <3>2 DEF RegisterTypeOK, TenderStates
      <3> QED BY <1>2, <2>1, <3>1, <3>2, RepliedOne
    <2> QED BY <1>2, <2>1, <2>2, <2>3, <2>4, <2>5, <2>6, TenderWriters
  <1> QED BY <1>1, <1>2 DEF ByCash

LEMMA OnePlaceStep ==
  ASSUME RegisterTypeOK, OnePlace, RegisterNext
  PROVE OnePlace'
  <1>1. ASSUME NEW h1 \in Presses, NEW h2 \in Presses, NEW s \in Sales,
               Holds(h1, s)', Holds(h2, s)'
        PROVE h1 = h2
    <2>1. ASSUME NEW g \in Presses, NEW h \in Presses, ServeStart(g, s), Holds(h, s)'
          PROVE g = h
      <3>1. ~ Held(s)
        BY <2>1 DEF ServeStart, OnePlace
      <3>2. ServeStart(h, s)
        BY <2>1, <3>1, HoldsFrom DEF Held
      <3> QED BY <2>1, <3>1, <3>2 DEF ServeStart, RegisterTypeOK, PressStates
    <2> QED BY <1>1, <2>1, HoldsFrom DEF OnePlace
  <1>2. ASSUME NEW s \in Sales, Held(s)'
        PROVE ~ ByCard(s)' /\ ~ ByCash(s)'
    <2>1. PICK h \in Presses : Holds(h, s)'
      BY <1>2 DEF Held
    <2>2. ASSUME NEW g \in Presses, Holds(g, s)
          PROVE press' # [press EXCEPT ![g] = NoPress]
      <3>1. ~ ServeStart(h, s)
        BY <2>2 DEF ServeStart, OnePlace, Held
      <3>2. Holds(h, s)
        BY <2>1, <3>1, HoldsFrom
      <3>3. g = h
        BY <2>2, <3>2 DEF OnePlace
      <3> QED BY <2>1, <3>3 DEF Holds, RegisterTypeOK, NoPress
    <2>3. ~ ByCard(s) /\ ~ ByCash(s)
      BY <2>1, HoldsFrom DEF OnePlace, Held, ServeStart
    <2> QED BY <2>2, <2>3, ByCardFrom, ByCashFrom DEF Holds
  <1>3. ASSUME NEW s \in Sales
        PROVE ~ (ByCard(s)' /\ ByCash(s)')
    <2>1. ASSUME NEW g \in Presses, press[g].at = "charged", press[g].sale = s,
                 NEW h \in Presses, press[h].at = "started", press[h].sale = s
          PROVE FALSE
      BY <2>1 DEF OnePlace, Holds
    <2> QED BY <2>1, ByCardFrom, ByCashFrom DEF OnePlace, Held, Holds
  <1>4. ASSUME NEW s \in Sales, status'[s] = "none"
        PROVE ~ Held(s)' /\ ~ ByCard(s)' /\ ~ ByCash(s)'
    <2>1. status[s] = "none"
      BY <1>4, StatusGoesOn
    <2>2. ~ Held(s) /\ ~ ByCard(s) /\ ~ ByCash(s)
      BY <2>1 DEF OnePlace
    <2>3. \A h \in Presses : ~ ServeStart(h, s)
      BY <1>4 DEF ServeStart, RegisterTypeOK
    <2>4. ~ Held(s)'
      BY <2>2, <2>3, HoldsFrom DEF Held
    <2> QED BY <2>2, <2>4, ByCardFrom, ByCashFrom DEF Held, Holds
  <1> QED BY <1>1, <1>2, <1>3, <1>4 DEF OnePlace

-----------------------------------------------------------------------------
(* Receipts                                                                  *)

(* A tender is answered when the service takes the cash of a sale that awaits it. *)
LEMMA AnsweredFrom ==
  ASSUME RegisterTypeOK, RegisterNext, NEW d \in Tenders, NEW s \in Sales, Answered(d, s)'
  PROVE \/ Answered(d, s)
        \/ /\ status[s] = "AWAITING_PAYMENT" /\ Settled(s)'
           /\ tender[d].at = "charging"
           /\ tender' = [tender EXCEPT ![d].at = "charged"]
  <1>1. CASE tender[d].at \in {"charged", "fetching"} /\ tender[d].sale = tender'[d].sale
    BY <1>1 DEF Answered
  <1>2. CASE UNCHANGED tender
    BY <1>2 DEF Answered
  <1>3. ASSUME NEW e \in Tenders, Tender(e)
        PROVE Answered(d, s)
    BY <1>3 DEF Tender, Answered, RegisterTypeOK
  <1>4. ASSUME NEW e \in Tenders, TenderAnswered(e)
        PROVE Answered(d, s)
    BY <1>4 DEF TenderAnswered, Answered, RegisterTypeOK, TenderStates
  <1>5. ASSUME NEW e \in Tenders, TenderFails(e) \/ StatusFetched(e)
        PROVE Answered(d, s)
    <2>1. tender' = [tender EXCEPT ![e] = NoTender]
      BY <1>5 DEF TenderFails, StatusFetched
    <2> QED BY <2>1 DEF Answered, RegisterTypeOK, NoTender
  <1>6. CASE LeaveScreen
    <2>1. tender'[d] = [tender[d] EXCEPT !.here = FALSE]
      BY <1>6 DEF LeaveScreen
    <2> QED BY <2>1 DEF Answered, RegisterTypeOK, TenderStates
  <1>7. ASSUME NEW r \in Sales, ServeCash(r), ~ Answered(d, s)
        PROVE /\ status[s] = "AWAITING_PAYMENT" /\ Settled(s)'
              /\ tender[d].at = "charging"
              /\ tender' = [tender EXCEPT ![d].at = "charged"]
    <2>1. tender' # tender
      BY <1>7 DEF Answered
    <2>2. /\ status[r] = "AWAITING_PAYMENT"
          /\ \E st \in {"COMPLETE", "INVENTORY_UPDATE_FAILED"} :
               status' = [status EXCEPT ![r] = st]
          /\ tender' \in Replied(tender, r)
      BY <1>7, <2>1 DEF ServeCash
    <2>3. DOMAIN tender = Tenders
      BY DEF RegisterTypeOK
    <2>4. PICK x \in Tenders : /\ tender[x].at = "charging" /\ tender[x].sale = r
                               /\ tender' = [tender EXCEPT ![x].at = "charged"]
      BY <2>1, <2>2, <2>3, RepliedOne
    <2>5. x = d /\ r = s
      BY <1>7, <2>4 DEF Answered, RegisterTypeOK, TenderStates
    <2> QED BY <2>2, <2>4, <2>5 DEF Settled, RegisterTypeOK
  <1> QED
    BY <1>1, <1>2, <1>3, <1>4, <1>5, <1>6, <1>7, TenderWriters

LEMMA AnsweredOnceStep ==
  ASSUME RegisterTypeOK, AnsweredOnce, RegisterNext
  PROVE AnsweredOnce'
  <1>1. ASSUME NEW d \in Tenders, NEW s \in Sales, Answered(d, s)'
        PROVE Settled(s)'
    BY <1>1, AnsweredFrom, StatusGoesOn DEF AnsweredOnce
  <1>2. ASSUME NEW d \in Tenders, NEW e \in Tenders, NEW s \in Sales,
               Answered(d, s)', Answered(e, s)'
        PROVE d = e
    <2>1. CASE status[s] = "AWAITING_PAYMENT"
      <3>1. ~ Answered(d, s) /\ ~ Answered(e, s)
        BY <2>1 DEF AnsweredOnce, Settled
      <3>2. /\ tender[e].at = "charging"
            /\ tender' = [tender EXCEPT ![d].at = "charged"]
        BY <1>2, <3>1, AnsweredFrom
      <3> QED BY <1>2, <3>2 DEF Answered, RegisterTypeOK
    <2>2. CASE status[s] # "AWAITING_PAYMENT"
      BY <1>2, <2>2, AnsweredFrom DEF AnsweredOnce
    <2> QED BY <2>1, <2>2
  <1> QED BY <1>1, <1>2 DEF AnsweredOnce

(* A success that PaymentResult prints, and whose it may be: of a tender that was
   answered, or of the poll. *)
Receipt(p) == p.phase = "result" /\ p.status = "COMPLETE" /\ p.receipt

Ends(s) ==
  \/ \E d \in Tenders : /\ Answered(d, s)
                        /\ tender' = [tender EXCEPT ![d] = NoTender]
                        /\ UNCHANGED <<press, poll, status>>
  \/ /\ poll = s /\ poll' = NoSale /\ status[s] = "COMPLETE" /\ panel'.phase = "result"
     /\ UNCHANGED <<press, tender, status>>

LEMMA Renders ==
  ASSUME RegisterTypeOK, RegisterNext
  PROVE \/ UNCHANGED <<panel, printedTxnRef, prints>>
        \/ LeaveScreen \/ PrintSettled
        \/ /\ Render(panel')
           /\ Receipt(panel') => panel'.of \in Sales /\ Ends(panel'.of)
  <1>1. ASSUME NEW h \in Presses, StartAnswered(h)
        PROVE \/ UNCHANGED <<panel, printedTxnRef, prints>>
              \/ Render(panel') /\ ~ Receipt(panel')
    <2>1. CASE startedCash(press[h].sale)
      BY <2>1 DEF startedCash, Show, Receipt
    <2> QED BY <1>1, <2>1 DEF StartAnswered
  <1>2. ASSUME NEW h \in Presses, CardAnswered(h)
        PROVE Render(panel') /\ ~ Receipt(panel')
    BY <1>2 DEF CardAnswered, startedAt, Show, Receipt
  <1>3. ASSUME NEW h \in Presses, PayFails(h)
        PROVE Render(panel') /\ ~ Receipt(panel')
    BY <1>3 DEF PayFails, failed, Show, Receipt, Idle
  <1>4. ASSUME NEW s \in Sales, NEW st, NEW receipt, finished(s, st, receipt)
        PROVE /\ Render(panel') /\ panel'.of = s
              /\ panel'.status = st /\ panel'.receipt = receipt
    BY <1>4 DEF finished, Show, RegisterTypeOK, PanelOK, Panels
  <1>5. ASSUME NEW d \in Tenders, TenderFails(d)
        PROVE Render(panel') /\ ~ Receipt(panel')
    <2>1. tender[d].sale \in Sales
      BY <1>5 DEF TenderFails, RegisterTypeOK, TenderStates
    <2> QED BY <1>4, <1>5, <2>1 DEF TenderFails, Receipt
  <1>6. ASSUME NEW d \in Tenders, StatusFetched(d)
        PROVE /\ Render(panel')
              /\ Receipt(panel') => panel'.of \in Sales /\ Ends(panel'.of)
    <2>1. tender[d].sale \in Sales /\ Answered(d, tender[d].sale)
      BY <1>6 DEF StatusFetched, RegisterTypeOK, TenderStates, Answered
    <2>2. Ends(tender[d].sale)
      BY <1>6, <2>1 DEF StatusFetched, Ends, service
    <2>3. Render(panel') /\ panel'.of = tender[d].sale
      BY <1>4, <1>6, <2>1 DEF StatusFetched
    <2> QED BY <2>1, <2>2, <2>3
  <1>7. CASE CancelSettled \/ Done
    <2>1. \E ls : reset(ls)
      BY <1>7 DEF CancelSettled, Done
    <2> QED BY <2>1 DEF reset, Show, Receipt, Idle
  <1>8. CASE PollAnswered
    <2>1. CASE panel.txn = poll /\ status[poll] \in TERMINAL_STATUSES
      <3>1. poll \in Sales
        BY <1>8 DEF PollAnswered, RegisterTypeOK
      <3>2. finished(poll, status[poll],
                     status[poll] \in {"COMPLETE", "INVENTORY_UPDATE_FAILED"})
        BY <1>8, <2>1 DEF PollAnswered
      <3>3. Render(panel') /\ panel'.of = poll /\ panel'.status = status[poll]
        BY <1>4, <3>1, <3>2
      <3>4. Receipt(panel') => Ends(poll)
        BY <1>8, <3>3 DEF PollAnswered, Ends, Receipt, service
      <3> QED BY <3>1, <3>3, <3>4
    <2>2. CASE ~ (panel.txn = poll /\ status[poll] \in TERMINAL_STATUSES)
      BY <1>8, <2>2 DEF PollAnswered
    <2> QED BY <2>1, <2>2
  <1> QED
    BY <1>1, <1>2, <1>3, <1>5, <1>6, <1>7, <1>8, StoreWriters

(* The ref of PaymentResult follows the receipt on the screen. *)
LEMMA RefNamesReceiptStep ==
  ASSUME RegisterTypeOK, RefNamesReceipt, RegisterNext
  PROVE RefNamesReceipt'
  <1>1. CASE UNCHANGED <<panel, printedTxnRef, prints>>
    BY <1>1 DEF RefNamesReceipt, Success
  <1>2. CASE LeaveScreen
    BY <1>2 DEF LeaveScreen, RefNamesReceipt, Success
  <1>3. CASE PrintSettled
    BY <1>3 DEF PrintSettled, Render, Prints, RefNamesReceipt, Success
  <1>4. CASE Render(panel')
    BY <1>4 DEF Render, Prints, RefNamesReceipt, Success
  <1> QED BY <1>1, <1>2, <1>3, <1>4, Renders

(* What a step prints: a receipt that the screen shows already, when the screen is
   left and entered again, or one that comes with the end of its payment. *)
LEMMA PrintedFrom ==
  ASSUME RegisterTypeOK, RefNamesReceipt, RegisterNext, NEW s \in Sales
  PROVE /\ Printed(s)' => Printed(s) \/ Ends(s)
        /\ prints'[s] \in {0, 1} \/ prints'[s] = prints[s]
             \/ (prints'[s] = prints[s] + 1 /\ Ends(s))
  <1>1. CASE UNCHANGED <<panel, printedTxnRef, prints>>
    BY <1>1 DEF Printed, Success
  <1>2. CASE LeaveScreen
    BY <1>2 DEF LeaveScreen, Printed, Success
  <1>3. CASE PrintSettled
    <2>1. ~ Prints(panel)
      BY DEF RefNamesReceipt, Success, Prints
    <2> QED BY <1>3, <2>1 DEF PrintSettled, Render, Printed, Success
  <1>4. CASE /\ Render(panel')
             /\ Receipt(panel') => panel'.of \in Sales /\ Ends(panel'.of)
    <2>1. PanelOK(panel')
      BY RegisterTypeStep DEF RegisterTypeOK
    <2>2. prints'[s] = IF Prints(panel') /\ panel'.of = s THEN prints[s] + 1 ELSE prints[s]
      BY <1>4, <2>1, RenderTypes
    <2> QED
      BY <1>4, <2>2 DEF Prints, Receipt, Printed, Success, RegisterTypeOK
  <1> QED BY <1>1, <1>2, <1>3, <1>4, Renders

(* A sale whose payment ends on the screen was in one place, and is in none. *)
LEMMA EndsIsLast ==
  ASSUME RegisterTypeOK, OnePlace, AnsweredOnce, PrintedForGood, RegisterNext,
         NEW s \in Sales, Ends(s)
  PROVE /\ ~ Printed(s)
        /\ Settled(s) /\ ~ Held(s)
        /\ \A d \in Tenders : ~ Answered(d, s)'
        /\ ~ ByCard(s)'
  <1>1. CASE \E d \in Tenders : Answered(d, s) /\ tender' = [tender EXCEPT ![d] = NoTender]
    <2>1. PICK d \in Tenders : Answered(d, s) /\ tender' = [tender EXCEPT ![d] = NoTender]
      BY <1>1
    <2>2. ~ Printed(s) /\ Settled(s)
      BY <2>1 DEF PrintedForGood, AnsweredOnce
    <2>3. ~ Held(s) /\ ~ ByCard(s)
      BY <2>1 DEF OnePlace, ByCash, Answered
    <2>4. ASSUME NEW e \in Tenders, Answered(e, s)'
          PROVE FALSE
      <3>1. e # d
        BY <2>1, <2>4 DEF Answered, NoTender, RegisterTypeOK
      <3>2. Answered(e, s)
        BY <2>1, <2>4, <3>1 DEF Answered, RegisterTypeOK
      <3> QED BY <2>1, <3>1, <3>2 DEF AnsweredOnce
    <2> QED BY <2>2, <2>3, <2>4, ByCardFrom DEF Held, Holds
  <1>2. CASE /\ poll = s /\ poll' = NoSale /\ status[s] = "COMPLETE"
             /\ panel'.phase = "result"
             /\ UNCHANGED <<press, tender, status>>
    <2>1. ByCard(s) /\ ~ Held(s) /\ ~ ByCash(s) /\ Settled(s)
      BY <1>2 DEF ByCard, OnePlace, Settled
    <2>2. ~ Printed(s)
      BY <2>1 DEF PrintedForGood
    <2>3. \A d \in Tenders : ~ Answered(d, s)'
      BY <1>2, <2>1 DEF ByCash, Answered
    <2>4. ~ ByCard(s)'
      BY <1>2, NoSaleAssumption DEF ByCard
    <2> QED BY <2>1, <2>2, <2>3, <2>4
  <1> QED BY <1>1, <1>2 DEF Ends

LEMMA PrintedForGoodStep ==
  ASSUME RegisterTypeOK, OnePlace, AnsweredOnce, PrintedForGood, RefNamesReceipt, RegisterNext
  PROVE PrintedForGood'
  <1> SUFFICES ASSUME NEW s \in Sales, Printed(s)'
               PROVE /\ Settled(s)' /\ ~ Held(s)' /\ ~ ByCard(s)'
                     /\ \A d \in Tenders : ~ Answered(d, s)'
    BY DEF PrintedForGood
  <1>1. Settled(s) /\ ~ Held(s)
    BY PrintedFrom, EndsIsLast DEF PrintedForGood
  <1>2. ~ Held(s)'
    BY <1>1, HoldsFrom DEF Held, ServeStart, Settled
  <1>3. ~ ByCard(s)'
    BY <1>1, PrintedFrom, EndsIsLast, ByCardFrom DEF PrintedForGood, Held, Holds
  <1>4. \A d \in Tenders : ~ Answered(d, s)'
    BY <1>1, PrintedFrom, EndsIsLast, AnsweredFrom DEF PrintedForGood, Settled
  <1> QED BY <1>1, <1>2, <1>3, <1>4, StatusGoesOn

LEMMA PrintedOnceStep ==
  ASSUME RegisterTypeOK, OnePlace, AnsweredOnce, PrintedForGood, RefNamesReceipt,
         PrintedOnce, RegisterNext
  PROVE PrintedOnce'
  <1> SUFFICES ASSUME NEW s \in Sales PROVE prints'[s] <= 1
    BY DEF PrintedOnce
  <1>1. prints[s] \in Nat /\ prints[s] <= 1
    BY DEF RegisterTypeOK, PrintedOnce
  <1>2. Ends(s) => prints[s] = 0
    BY <1>1, EndsIsLast DEF Printed
  <1> QED BY <1>1, <1>2, PrintedFrom

-----------------------------------------------------------------------------
(* Items                                                                     *)

LEMMA ItemsGiven ==
  ASSUME NEW s, NEW r \in Sales, r # s, OnScreen(r)
  PROVE lines[r] \subseteq Displaced(s)
  BY DEF Displaced

(* A step that neither scans nor takes up lines keeps an item in one place, if it
   leaves what is in the cart blocked. *)
LEMMA NoNewLines ==
  ASSUME RegisterTypeOK, RegisterTypeOK', NotTwice,
         UNCHANGED lines, items' \subseteq items, gaveUp \subseteq gaveUp',
         \A h \in Presses : press'[h].at # "idle" =>
           /\ press[h].at # "idle"
           /\ press'[h].lines = press[h].lines /\ press'[h].sale = press[h].sale
           /\ press'[h].at = "starting" <=> press[h].at = "starting"
           /\ press'[h].here = press[h].here \/ press[h].lines \subseteq gaveUp',
         \A i \in Items \ gaveUp', r \in Sales :
           i \in items' /\ i \in lines[r] /\ (Held(r) \/ OnScreen(r))
             => Held(r)' \/ OnScreen(r)'
  PROVE NotTwice'
  <1>1. ASSUME NEW h \in Presses, NEW s \in Sales, Holds(h, s)'
        PROVE lines'[s] = press'[h].lines
    <2>1. Holds(h, s)
      BY <1>1 DEF Holds, RegisterTypeOK, PressStates
    <2> QED BY <1>1, <2>1 DEF NotTwice, Holds
  <1>2. ASSUME NEW i \in Items \ gaveUp'
        PROVE LinesAlone(i)'
    <2>1. LinesAlone(i)
      BY <1>2 DEF NotTwice
    <2> QED BY <2>1 DEF LinesAlone
  <1>3. ASSUME NEW i \in Items \ gaveUp'
        PROVE Blocked(i)'
    <2>1. Blocked(i)
      BY <1>3 DEF NotTwice
    <2>2. ASSUME NEW h \in Presses, press'[h].at # "idle", i \in press'[h].lines
          PROVE press'[h].here
      BY <1>3, <2>1, <2>2 DEF Blocked
    <2>3. ASSUME NEW s \in Sales, i \in items', i \in lines'[s]
          PROVE Held(s)' \/ OnScreen(s)'
      BY <1>3, <2>1, <2>3 DEF Blocked
    <2> QED BY <2>2, <2>3 DEF Blocked
  <1> QED BY <1>1, <1>2, <1>3 DEF NotTwice

(* A sale whose payment ends stays on the screen, or its items are given up. *)
LEMMA FinishedBlocks ==
  ASSUME RegisterTypeOK, NEW s \in Sales, NEW st, NEW receipt, finished(s, st, receipt),
         NEW i \in Items \ gaveUp', NEW r \in Sales, i \in lines[r], OnScreen(r)
  PROVE OnScreen(r)'
  <1>1. r = s
    BY ItemsGiven DEF finished, Show
  <1>2. st = "COMPLETE"
    BY <1>1 DEF finished, Show
  <1>3. panel' = [panel EXCEPT !.phase = "result", !.status = st, !.receipt = receipt, !.of = s]
    BY DEF finished, Show
  <1> QED BY <1>1, <1>2, <1>3 DEF OnScreen, Success, RegisterTypeOK, PanelOK, Panels

(* A press that gives its sale to a dialog, or fails, leaves nothing unblocked. *)
LEMMA GivesUp ==
  ASSUME RegisterTypeOK, RegisterTypeOK', NotTwice, UNCHANGED <<items, lines>>,
         gaveUp \subseteq gaveUp',
         NEW h \in Presses, press' = [press EXCEPT ![h] = NoPress],
         \A r \in Sales : Holds(h, r) => OnScreen(r)' \/ lines[r] \subseteq gaveUp',
         \A r \in Sales : OnScreen(r) => OnScreen(r)' \/ lines[r] \subseteq gaveUp'
  PROVE NotTwice'
  <1>1. \A g \in Presses : g # h => press'[g] = press[g]
    BY DEF RegisterTypeOK
  <1>2. press'[h].at = "idle"
    BY DEF RegisterTypeOK, NoPress
  <1>3. ASSUME NEW r \in Sales, Held(r)
        PROVE Held(r)' \/ OnScreen(r)' \/ lines[r] \subseteq gaveUp'
    BY <1>1, <1>3 DEF Held, Holds
  <1> QED BY <1>1, <1>2, <1>3, NoNewLines

LEMMA NotTwiceStep ==
  ASSUME RegisterTypeOK, OnePlace, NotTwice, RegisterNext
  PROVE NotTwice'
  <1>0. RegisterTypeOK'
    BY RegisterTypeStep
  <1>1. ASSUME NEW j \in Items, Scan(j)
        PROVE NotTwice'
    <2>1. UNCHANGED <<panel, press, lines, gaveUp>>
      BY <1>1 DEF Scan, client, service
    <2>2. ASSUME NEW i \in Items \ gaveUp' PROVE LinesAlone(i)'
      BY <2>1, <2>2 DEF NotTwice, LinesAlone
    <2>3. ASSUME NEW i \in Items \ gaveUp' PROVE Blocked(i)'
      <3>1. Blocked(i)
        BY <2>1, <2>3 DEF NotTwice
      <3> QED BY <1>1, <2>1, <3>1 DEF Scan, Blocked, Held, Holds, OnScreen, Success
    <2> QED BY <2>1, <2>2, <2>3 DEF NotTwice, Holds
  <1>2. ASSUME NEW h \in Presses, NEW kind \in {"card", "cash"}, PressPay(h, kind)
        PROVE NotTwice'
    <2>1. /\ UNCHANGED <<items, panel, lines, gaveUp>>
          /\ panel.phase = "idle" /\ press[h].at = "idle"
          /\ \A g \in Presses : ~ press[g].here
      BY <1>2 DEF PressPay, CanPay, service
    <2>2. /\ \A g \in Presses : g # h => press'[g] = press[g]
          /\ press'[h].at = "starting" /\ press'[h].lines = items /\ press'[h].here
      BY <1>2 DEF PressPay, RegisterTypeOK
    <2>3. \A g \in Presses, s \in Sales : Holds(g, s)' <=> Holds(g, s)
      BY <2>1, <2>2 DEF Holds
    <2>4. \A s \in Sales : ~ OnScreen(s)
      BY <2>1 DEF OnScreen, Success
    <2>5. ASSUME NEW i \in Items \ gaveUp'
          PROVE /\ \A g \in Presses : press[g].at # "idle" => i \notin press[g].lines
                /\ \A s \in Sales : i \in items => i \notin lines[s]
      <3>1. Blocked(i)
        BY <2>1, <2>5 DEF NotTwice
      <3>2. \A g \in Presses : press[g].at # "idle" => i \notin press[g].lines
        BY <2>1, <3>1 DEF Blocked
      <3>3. \A s \in Sales : i \in lines[s] => ~ Held(s)
        BY <3>2 DEF NotTwice, Held, Holds
      <3> QED BY <2>4, <3>1, <3>2, <3>3 DEF Blocked
    <2>6. ASSUME NEW i \in Items \ gaveUp' PROVE LinesAlone(i)'
      <3>1. LinesAlone(i)
        BY <2>1, <2>6 DEF NotTwice
      <3> QED BY <2>1, <2>2, <2>5, <2>6, <3>1 DEF LinesAlone
    <2>7. ASSUME NEW i \in Items \ gaveUp' PROVE Blocked(i)'
      BY <2>1, <2>2, <2>5, <2>7 DEF Blocked
    <2> QED BY <2>1, <2>2, <2>3, <2>6, <2>7 DEF NotTwice, Holds
  <1>3. ASSUME NEW h \in Presses, NEW s \in Sales, ServeStart(h, s)
        PROVE NotTwice'
    <2>1. /\ UNCHANGED <<items, panel, gaveUp>>
          /\ press[h].at = "starting" /\ status[s] = "none"
      BY <1>3 DEF ServeStart
    <2>2. /\ \A g \in Presses : g # h => press'[g] = press[g]
          /\ press'[h].at = "started" /\ press'[h].sale = s
          /\ press'[h].lines = press[h].lines /\ press'[h].here = press[h].here
      BY <1>3 DEF ServeStart, RegisterTypeOK, PressStates
    <2>3. /\ \A r \in Sales : r # s => lines'[r] = lines[r]
          /\ lines'[s] = press[h].lines
      BY <1>3 DEF ServeStart, RegisterTypeOK
    <2>4. ~ Held(s)
      BY <2>1 DEF OnePlace
    <2>5. ASSUME NEW g \in Presses, NEW r \in Sales, Holds(g, r)'
          PROVE lines'[r] = press'[g].lines
      <3>1. CASE g = h
        BY <2>2, <2>3, <2>5, <3>1 DEF Holds
      <3>2. CASE g # h
        <4>1. Holds(g, r)
          BY <2>2, <2>5, <3>2 DEF Holds
        <4> QED BY <2>2, <2>3, <2>4, <3>2, <4>1 DEF NotTwice, Held
      <3> QED BY <3>1, <3>2
    <2>6. ASSUME NEW i \in Items \ gaveUp' PROVE LinesAlone(i)'
      <3>1. LinesAlone(i)
        BY <2>1, <2>6 DEF NotTwice
      <3>2. \A s1, s2 \in Sales : i \in lines'[s1] /\ i \in lines'[s2] => s1 = s2
        BY <2>1, <2>3, <3>1 DEF LinesAlone
      <3>3. \A h1, h2 \in Presses :
              press'[h1].at # "idle" /\ press'[h2].at # "idle"
                /\ i \in press'[h1].lines /\ i \in press'[h2].lines => h1 = h2
        BY <2>1, <2>2, <3>1 DEF LinesAlone
      <3>4. \A g \in Presses, r \in Sales :
              press'[g].at = "starting" /\ i \in press'[g].lines => i \notin lines'[r]
        BY <2>1, <2>2, <2>3, <3>1 DEF LinesAlone
      <3> QED BY <3>2, <3>3, <3>4 DEF LinesAlone
    <2>7. ASSUME NEW i \in Items \ gaveUp' PROVE Blocked(i)'
      <3>1. Blocked(i)
        BY <2>1, <2>7 DEF NotTwice
      <3>2. \A r \in Sales : Held(r) => Held(r)'
        BY <2>1, <2>2 DEF Held, Holds
      <3>3. Held(s)'
        BY <2>2 DEF Held, Holds
      <3>4. \A r \in Sales : OnScreen(r) => OnScreen(r)'
        BY <2>1 DEF OnScreen, Success
      <3> QED BY <2>1, <2>2, <2>3, <3>1, <3>2, <3>3, <3>4 DEF Blocked
    <2> QED BY <2>5, <2>6, <2>7 DEF NotTwice
  <1>4. ASSUME NEW h \in Presses, StartAnswered(h)
        PROVE NotTwice'
    <2>1. CASE press[h].kind = "card"
      <3>1. UNCHANGED <<items, panel, lines, gaveUp>>
        BY <1>4, <2>1 DEF StartAnswered
      <3>2. /\ \A g \in Presses : g # h => press'[g] = press[g]
            /\ press'[h] = [press[h] EXCEPT !.at = "charging"] /\ press[h].at = "started"
        BY <1>4, <2>1 DEF StartAnswered, RegisterTypeOK
      <3>3. \A g \in Presses :
              /\ press'[g].lines = press[g].lines /\ press'[g].sale = press[g].sale
              /\ press'[g].here = press[g].here
              /\ press'[g].at = "starting" <=> press[g].at = "starting"
              /\ press'[g].at # "idle" => press[g].at # "idle"
              /\ press[g].at \in {"started", "charging", "charged"}
                   => press'[g].at \in {"started", "charging", "charged"}
        BY <3>2 DEF RegisterTypeOK, PressStates
      <3>4. \A r \in Sales : Held(r) \/ OnScreen(r) => Held(r)' \/ OnScreen(r)'
        BY <3>1, <3>3 DEF Held, Holds, OnScreen, Success
      <3> QED BY <1>0, <3>1, <3>3, <3>4, NoNewLines
    <2>2. CASE press[h].kind = "cash"
      <3>1. /\ startedCash(press[h].sale) /\ UNCHANGED <<items, lines>>
            /\ press' = [press EXCEPT ![h] = NoPress]
        BY <1>4, <2>2 DEF StartAnswered
      <3>2. PICK s \in Sales : s = press[h].sale
        BY <1>4 DEF StartAnswered, RegisterTypeOK, PressStates
      <3>3. OnScreen(s)' /\ gaveUp' = gaveUp \cup Displaced(s)
        BY <3>1, <3>2 DEF startedCash, Show, OnScreen
      <3>4. \A r \in Sales : Holds(h, r) => r = s
        BY <3>2 DEF Holds
      <3>5. \A r \in Sales : OnScreen(r) => OnScreen(r)' \/ lines[r] \subseteq gaveUp'
        BY <3>3, ItemsGiven
      <3> QED BY <1>0, <3>1, <3>3, <3>4, <3>5, GivesUp
    <2> QED BY <1>4, <2>1, <2>2 DEF StartAnswered
  <1>5. ASSUME NEW h \in Presses, CardAnswered(h)
        PROVE NotTwice'
    <2>1. /\ startedAt(press[h].sale) /\ UNCHANGED <<items, lines>>
          /\ press' = [press EXCEPT ![h] = NoPress]
      BY <1>5 DEF CardAnswered, service
    <2>2. PICK s \in Sales : s = press[h].sale
      BY <1>5 DEF CardAnswered, RegisterTypeOK, PressStates
    <2>3. OnScreen(s)' /\ gaveUp' = gaveUp \cup Displaced(s)
      BY <2>1, <2>2 DEF startedAt, Show, OnScreen
    <2>4. \A r \in Sales : Holds(h, r) => r = s
      BY <2>2 DEF Holds
    <2>5. \A r \in Sales : OnScreen(r) => OnScreen(r)' \/ lines[r] \subseteq gaveUp'
      BY <2>3, ItemsGiven
    <2> QED BY <1>0, <2>1, <2>3, <2>4, <2>5, GivesUp
  <1>6. ASSUME NEW h \in Presses, PayFails(h)
        PROVE NotTwice'
    <2>1. /\ failed(press[h].lines) /\ UNCHANGED <<items, lines>>
          /\ press' = [press EXCEPT ![h] = NoPress]
      BY <1>6 DEF PayFails, service
    <2>2. gaveUp' = gaveUp \cup press[h].lines \cup Displaced(NoSale)
      BY <2>1 DEF failed, Show
    <2>3. \A r \in Sales : Holds(h, r) => lines[r] \subseteq gaveUp'
      BY <2>2 DEF NotTwice
    <2>4. \A r \in Sales : OnScreen(r) => lines[r] \subseteq gaveUp'
      BY <2>2, ItemsGiven, NoSaleAssumption
    <2> QED BY <1>0, <2>1, <2>2, <2>3, <2>4, GivesUp
  <1>7. ASSUME UNCHANGED <<items, press, lines>>, gaveUp \subseteq gaveUp',
               \A i \in Items \ gaveUp', r \in Sales :
                 i \in lines[r] /\ OnScreen(r) => OnScreen(r)'
        PROVE NotTwice'
    <2>1. \A r \in Sales : Held(r)' <=> Held(r)
      BY <1>7 DEF Held, Holds
    <2> QED BY <1>0, <1>7, <2>1, NoNewLines
  <1>8. ASSUME NEW s \in Sales, NEW st, NEW receipt, finished(s, st, receipt),
               UNCHANGED <<items, press, lines>>
        PROVE NotTwice'
    <2>1. gaveUp \subseteq gaveUp'
      BY <1>8 DEF finished, Show
    <2> QED BY <1>7, <1>8, <2>1, FinishedBlocks
  <1>9. ASSUME NEW d \in Tenders, TenderFails(d) \/ StatusFetched(d)
        PROVE NotTwice'
    <2>1. tender[d].sale \in Sales /\ UNCHANGED <<items, press, lines>>
      BY <1>9 DEF TenderFails, StatusFetched, RegisterTypeOK, TenderStates, service
    <2>2. \E st, receipt : finished(tender[d].sale, st, receipt)
      BY <1>9 DEF TenderFails, StatusFetched
    <2> QED BY <1>8, <2>1, <2>2
  <1>10. CASE LeaveScreen
    <2>1. /\ UNCHANGED <<items, panel, lines>>
          /\ gaveUp' = gaveUp \cup UNION {press[h].lines : h \in Presses}
      BY <1>10 DEF LeaveScreen, service
    <2>2. \A h \in Presses : press[h].lines \subseteq gaveUp'
      BY <2>1
    <2>3. ASSUME NEW h \in Presses
          PROVE /\ press'[h].at = press[h].at /\ press'[h].sale = press[h].sale
                /\ press'[h].lines = press[h].lines
      <3>1. press'[h] = [press[h] EXCEPT !.here = FALSE] /\ press[h] \in PressStates
        BY <1>10 DEF LeaveScreen, RegisterTypeOK
      <3> QED BY <3>1 DEF PressStates
    <2>4. \A r \in Sales : Held(r) \/ OnScreen(r) => Held(r)' \/ OnScreen(r)'
      BY <2>1, <2>3 DEF Held, Holds, OnScreen, Success
    <2> QED BY <1>0, <2>1, <2>2, <2>3, <2>4, NoNewLines
  <1>11. CASE CancelSettled
    <2>1. /\ UNCHANGED <<items, press, lines>>
          /\ gaveUp' = gaveUp \cup lines[cancelling] \cup Displaced(NoSale)
      BY <1>11 DEF CancelSettled, reset, Show, service
    <2>2. \A r \in Sales : OnScreen(r) => lines[r] \subseteq gaveUp'
      BY <2>1, ItemsGiven, NoSaleAssumption
    <2> QED BY <1>7, <2>1, <2>2
  <1>12. CASE PollAnswered
    <2>1. UNCHANGED <<items, press, lines>> /\ poll \in Sales
      BY <1>12 DEF PollAnswered, RegisterTypeOK, service
    <2>2. CASE panel.txn = poll /\ status[poll] \in TERMINAL_STATUSES
      <3>1. finished(poll, status[poll],
                     status[poll] \in {"COMPLETE", "INVENTORY_UPDATE_FAILED"})
        BY <1>12, <2>2 DEF PollAnswered
      <3> QED BY <1>8, <2>1, <3>1
    <2>3. CASE ~ (panel.txn = poll /\ status[poll] \in TERMINAL_STATUSES)
      <3>1. UNCHANGED <<panel, gaveUp>>
        BY <1>12, <2>3 DEF PollAnswered
      <3> QED BY <1>7, <2>1, <3>1 DEF OnScreen, Success
    <2> QED BY <2>2, <2>3
  <1>13. CASE Done
    <2>1. UNCHANGED <<press, lines>> /\ gaveUp' = gaveUp
      BY <1>13 DEF Done, reset, Show, service
    <2>2. CASE Success
      <3>1. items' = {}
        BY <1>13, <2>2 DEF Done
      <3> QED BY <1>0, <2>1, <3>1, NoNewLines
    <2>3. CASE ~ Success
      <3>1. items' = items /\ \A r \in Sales : ~ OnScreen(r)
        BY <1>13, <2>3 DEF Done, OnScreen
      <3> QED BY <1>7, <2>1, <3>1
    <2> QED BY <2>2, <2>3
  <1>14. ASSUME NEW s \in Sales, ServeCard(s)
         PROVE NotTwice'
    <2>1. UNCHANGED <<items, panel, lines, gaveUp>>
      BY <1>14 DEF ServeCard
    <2>2. CASE UNCHANGED press
      BY <1>7, <2>1, <2>2 DEF OnScreen, Success
    <2>3. CASE \E x \in Presses : press[x].at = "charging"
                                /\ press' = [press EXCEPT ![x].at = "charged"]
      <3>1. \A g \in Presses :
              /\ press'[g].lines = press[g].lines /\ press'[g].sale = press[g].sale
              /\ press'[g].here = press[g].here
              /\ press'[g].at = "starting" <=> press[g].at = "starting"
              /\ press'[g].at # "idle" => press[g].at # "idle"
              /\ press[g].at \in {"started", "charging", "charged"}
                   => press'[g].at \in {"started", "charging", "charged"}
        BY <2>3 DEF RegisterTypeOK, PressStates
      <3>2. \A r \in Sales : Held(r) \/ OnScreen(r) => Held(r)' \/ OnScreen(r)'
        BY <2>1, <3>1 DEF Held, Holds, OnScreen, Success
      <3> QED BY <1>0, <2>1, <3>1, <3>2, NoNewLines
    <2>4. DOMAIN press = Presses /\ (UNCHANGED press \/ press' \in Replied(press, s))
      BY <1>14 DEF ServeCard, RegisterTypeOK
    <2> QED BY <2>2, <2>3, <2>4, RepliedOne
  <1>15. CASE UNCHANGED <<items, panel, press, lines, gaveUp>>
    BY <1>7, <1>15 DEF OnScreen, Success
  <1>16. ASSUME NEW d \in Tenders, Tender(d) \/ TenderAnswered(d)
         PROVE UNCHANGED <<items, panel, press, lines, gaveUp>>
    BY <1>16 DEF Tender, TenderAnswered, service
  <1>17. CASE CancelTender \/ PollSent \/ CancelCard \/ PrintSettled
    <2>1. UNCHANGED <<items, panel, press, lines, gaveUp>>
      BY <1>17 DEF CancelTender, PollSent, CancelCard, PrintSettled, client, service
    <2> QED BY <1>15, <2>1
  <1>18. ASSUME NEW s \in Sales, ServeCash(s) \/ ServeCancel(s) \/ WindcaveCancelled(s)
                                   \/ PollerEnds(s) \/ RetrySentry(s)
         PROVE UNCHANGED <<items, panel, press, lines, gaveUp>>
    BY <1>18 DEF ServeCash, ServeCancel, WindcaveCancelled, PollerEnds, RetrySentry, client
  <1> QED
    BY <1>1, <1>2, <1>3, <1>4, <1>5, <1>6, <1>9, <1>10, <1>11, <1>12, <1>13, <1>14, <1>15,
       <1>16, <1>17, <1>18 DEF RegisterNext

-----------------------------------------------------------------------------
(* The theorems.                                                             *)

LEMMA RegisterInvInit == RegisterInit => RegisterInv
  <1> SUFFICES ASSUME RegisterInit PROVE RegisterInv
    OBVIOUS
  <1> USE NoSaleAssumption DEF RegisterInit, Idle, NoPress, NoTender
  <1>1. RegisterTypeOK
    <2>1. PanelOK(panel)
      BY DEF PanelOK, Panels, Statuses, TERMINAL_STATUSES
    <2> QED BY <2>1 DEF RegisterTypeOK, PressStates, TenderStates, Statuses
  <1>2. PaidFor
    BY DEF PaidFor, SuccessIsPaid, Success
  <1>3. OnePlace /\ AnsweredOnce
    BY DEF OnePlace, AnsweredOnce, Holds, Held, ByCard, ByCash, Answered
  <1>4. PrintedForGood /\ RefNamesReceipt /\ PrintedOnce
    BY DEF PrintedForGood, Printed, RefNamesReceipt, PrintedOnce, Success
  <1>5. NotTwice
    BY DEF NotTwice, LinesAlone, Blocked, Holds
  <1> QED BY <1>1, <1>2, <1>3, <1>4, <1>5 DEF RegisterInv

LEMMA RegisterInvStep ==
  ASSUME RegisterInv, [RegisterNext]_registervars
  PROVE RegisterInv'
  <1>1. CASE RegisterNext
    <2>1. RegisterTypeOK' /\ PaidFor' /\ OnePlace' /\ AnsweredOnce'
      BY <1>1, RegisterTypeStep, PaidForStep, OnePlaceStep, AnsweredOnceStep DEF RegisterInv
    <2>2. PrintedForGood' /\ RefNamesReceipt' /\ PrintedOnce'
      BY <1>1, PrintedForGoodStep, RefNamesReceiptStep, PrintedOnceStep DEF RegisterInv
    <2>3. NotTwice'
      BY <1>1, NotTwiceStep DEF RegisterInv
    <2> QED BY <2>1, <2>2, <2>3 DEF RegisterInv
  <1>2. CASE UNCHANGED registervars
    <2>1. RegisterTypeOK' /\ PaidFor'
      BY <1>2, RegisterTypeStep, PaidForStep DEF RegisterInv
    <2>2. UNCHANGED <<items, panel, press, tender, poll, printedTxnRef, status, lines, prints,
                      gaveUp>>
      BY <1>2 DEF registervars, client, service
    <2>3. OnePlace' /\ AnsweredOnce'
      BY <2>2 DEF RegisterInv, OnePlace, AnsweredOnce, Holds, Held, ByCard, ByCash, Answered,
         Settled
    <2>4. PrintedForGood' /\ RefNamesReceipt' /\ PrintedOnce'
      BY <2>2 DEF RegisterInv, PrintedForGood, RefNamesReceipt, PrintedOnce, Printed, Success,
         Settled, Held, Holds, ByCard, Answered
    <2>5. NotTwice'
      BY <2>2 DEF RegisterInv, NotTwice, LinesAlone, Blocked, Held, Holds, OnScreen, Success
    <2> QED BY <2>1, <2>3, <2>4, <2>5 DEF RegisterInv
  <1> QED BY <1>1, <1>2

(* However the operator clicks, scans and leaves the screen, and however late the
   answers come, the strengthening holds in every state of the register. *)
THEOREM RegisterInvariant == RegisterSpec => []RegisterInv
  <1> QED BY RegisterInvInit, RegisterInvStep, PTL DEF RegisterSpec

(* The store, the handlers and the service's tables have their types; a dialog or a
   handler beyond the start has its sale. *)
THEOREM RegisterTypeCorrect == RegisterSpec => []RegisterTypeOK
  <1>1. RegisterInv => RegisterTypeOK
    BY DEF RegisterInv
  <1> QED BY <1>1, RegisterInvariant, PTL

(* "Sale complete" is shown of a paid sale only (CashTenderModal.tsx handleTender,
   PaymentInFlight.tsx), for any number of sales and handlers. *)
THEOREM SuccessesArePaid == RegisterSpec => []SuccessIsPaid
  <1>1. RegisterInv => SuccessIsPaid
    BY DEF RegisterInv, PaidFor
  <1> QED BY <1>1, RegisterInvariant, PTL

(* A visit of the screen prints each receipt at most once (PaymentResult.tsx). *)
THEOREM ReceiptsPrintedOnce == RegisterSpec => []PrintedOnce
  <1>1. RegisterInv => PrintedOnce
    BY DEF RegisterInv
  <1> QED BY <1>1, RegisterInvariant, PTL

(* Two paid sales have no item in common but one that was given up (PayPanel.tsx). *)
THEOREM PaidOncePerItem == RegisterSpec => []OnePaymentPerItem
  <1>1. RegisterInv => OnePaymentPerItem
    BY DEF RegisterInv, RegisterTypeOK, NotTwice, LinesAlone, OnePaymentPerItem
  <1> QED BY <1>1, RegisterInvariant, PTL

=============================================================================
