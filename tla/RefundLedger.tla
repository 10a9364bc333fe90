--------------------------- MODULE RefundLedger ---------------------------
(***************************************************************************)
(* What the refund path of the POS service promises the outside world,     *)
(* with the rows' statuses, the requests and the pollers left out: in      *)
(* which order a refund's money, its Sentry refund order, its till stamp,  *)
(* its Fabric event and the sale's reference to it may come about.         *)
(* Refund.tla implements it.                                               *)
(***************************************************************************)
EXTENDS Naturals

CONSTANTS CashSales, CardSales, Refunds, Nothing

VARIABLES
  sale,      \* sale[r]: the sale r is a refund of
  cashOut,   \* cashOut[r]: times the drawer paid r out
  approved,  \* refunds the card terminal paid out
  returned,  \* refunds Sentry holds a refund order for (the stock is back)
  events,    \* events[r]: Fabric outbox rows of r
  stamped,   \* refunds a till session counts
  link       \* link[s]: the refund that sale s names

vars == <<sale, cashOut, approved, returned, events, stamped, link>>

Init ==
  /\ sale = [r \in Refunds |-> Nothing]
  /\ cashOut = [r \in Refunds |-> 0]
  /\ approved = {}
  /\ returned = {}
  /\ events = [r \in Refunds |-> 0]
  /\ stamped = {}
  /\ link = [s \in CashSales \cup CardSales |-> Nothing]

PaidBack(r) == cashOut[r] > 0 \/ r \in approved

Start(r, s) ==
  /\ sale[r] = Nothing
  /\ sale' = [sale EXCEPT ![r] = s]
  /\ UNCHANGED <<cashOut, approved, returned, events, stamped, link>>

\* The drawer pays: only a cash sale, and only when it has paid none of the
\* refunds of that sale.
PayCash(r) ==
  /\ sale[r] \in CashSales
  /\ \A q \in Refunds : sale[q] = sale[r] => cashOut[q] = 0
  /\ cashOut' = [cashOut EXCEPT ![r] = 1]
  /\ UNCHANGED <<sale, approved, returned, events, stamped, link>>

\* The terminal pays, for each refund of a card sale that was presented to it.
PayCard(r) ==
  /\ sale[r] \in CardSales
  /\ approved' = approved \cup {r}
  /\ UNCHANGED <<sale, cashOut, returned, events, stamped, link>>

\* Sentry takes the stock back: never before the money.
Return(r) ==
  /\ PaidBack(r)
  /\ returned' = returned \cup {r}
  /\ UNCHANGED <<sale, cashOut, approved, events, stamped, link>>

\* The refund completes: event, stamp and the sale's reference in one commit.
Complete(r) ==
  /\ r \in returned
  /\ events' = [events EXCEPT ![r] = @ + 1]
  /\ stamped' = stamped \cup {r}
  /\ link' = [link EXCEPT ![sale[r]] = r]
  /\ UNCHANGED <<sale, cashOut, approved, returned>>

\* Sentry could not be told: the paid refund is published, and no more.
PublishUnbooked(r) ==
  /\ PaidBack(r)
  /\ events' = [events EXCEPT ![r] = @ + 1]
  /\ UNCHANGED <<sale, cashOut, approved, returned, stamped, link>>

\* A retry completes what was published then: no event, no stamp.
CompleteLater(r) ==
  /\ r \in returned
  /\ events[r] > 0
  /\ link' = [link EXCEPT ![sale[r]] = r]
  /\ UNCHANGED <<sale, cashOut, approved, returned, events, stamped>>

Next ==
  \E r \in Refunds :
    \/ \E s \in CashSales \cup CardSales : Start(r, s)
    \/ PayCash(r) \/ PayCard(r)
    \/ Return(r)
    \/ Complete(r) \/ PublishUnbooked(r) \/ CompleteLater(r)

Spec == Init /\ [][Next]_vars
=============================================================================
