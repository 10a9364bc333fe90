---------------------------- MODULE SaleLedger ----------------------------
(***************************************************************************)
(* What the sale path of the POS service promises the outside world, with  *)
(* the transaction row, the requests and the pollers left out: the order   *)
(* in which money, the Sentry sales order, the till stamp and the Fabric   *)
(* event of one sale may come about.  Checkout.tla implements it.          *)
(***************************************************************************)
EXTENDS Naturals

CONSTANT Txns

VARIABLES
  paid,      \* paid[t]: the customer's money has been taken for sale t
  ordered,   \* ordered[t]: Sentry holds a sales order for t (stock has moved)
  events,    \* events[t]: Fabric outbox rows of t, with and without an order id
  stamps     \* stamps[t]: how often a till session has counted t

vars == <<paid, ordered, events, stamps>>

Init ==
  /\ paid = [t \in Txns |-> FALSE]
  /\ ordered = [t \in Txns |-> FALSE]
  /\ events = [t \in Txns |-> [booked |-> 0, unbooked |-> 0]]
  /\ stamps = [t \in Txns |-> 0]

\* The customer pays.
Pay(t) ==
  /\ paid' = [paid EXCEPT ![t] = TRUE]
  /\ UNCHANGED <<ordered, events, stamps>>

\* Sentry creates the sales order: never before the money.
Order(t) ==
  /\ paid[t]
  /\ ordered' = [ordered EXCEPT ![t] = TRUE]
  /\ UNCHANGED <<paid, events, stamps>>

\* The sale completes: its event names the order, and the open till, if there
\* is one, counts the sale in the same step.
PublishBooked(t) ==
  /\ ordered[t]
  /\ events' = [events EXCEPT ![t].booked = @ + 1]
  /\ stamps' \in {stamps, [stamps EXCEPT ![t] = @ + 1]}
  /\ UNCHANGED <<paid, ordered>>

\* Sentry could not be told: the paid sale is published without an order id,
\* and no till counts it.
PublishUnbooked(t) ==
  /\ paid[t]
  /\ events' = [events EXCEPT ![t].unbooked = @ + 1]
  /\ UNCHANGED <<paid, ordered, stamps>>

Next == \E t \in Txns : Pay(t) \/ Order(t) \/ PublishBooked(t) \/ PublishUnbooked(t)

Spec == Init /\ [][Next]_vars
=============================================================================
