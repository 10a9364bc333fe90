----------------------------- MODULE Checkout -----------------------------
(***************************************************************************)
(* The life of a sale in the POS service (pos_service/services/checkout.py *)
(* with the routes that call it, and the sale half of reconciliation.py).  *)
(*                                                                         *)
(* Every handler runs on one event loop and is atomic between two awaits,  *)
(* but any number of requests, background pollers and the retry command    *)
(* may be suspended at an await at the same time.  A job is one of them:   *)
(* job[j].at is the await it is suspended at.  Each has its own database   *)
(* session and no row carries a version, so what a job writes after an     *)
(* await overwrites whatever the row has become meanwhile; the actions     *)
(* below test the row only where the code reads it.                        *)
(*                                                                         *)
(* External parties: the card terminal behind Windcave (one terminal       *)
(* session per TxnRef) and Sentry (one sales order per idempotency key).   *)
(***************************************************************************)
EXTENDS Naturals, FiniteSets

CONSTANTS
  Txns,      \* sales: POSTransaction rows of txn_type "sale"
  NoTxn,     \* no sale
  Jobs,      \* slots for concurrent requests and their background tasks
  MaxPolls   \* windcave_max_poll_duration_s over the poll interval

ASSUME TxnsAssumption == NoTxn \notin Txns
ASSUME PollsAssumption == MaxPolls \in Nat \ {0}

VARIABLES
  row,       \* the database row of each sale
  job,       \* what each job slot is suspended at
  cli,       \* the retry-failed-sales command, a process of its own
  tillOpen,  \* does the cashier have an OPEN till session?
  stamps,    \* stamps[t]: times attribute_transaction counted t in a till
  events,    \* fabric_outbox rows of t, by whether the payload has an order id
  terminal,  \* external: the card terminal's session for TxnRef t
  orders,    \* external: has Sentry created the sales order of t?
  cash,      \* history: cash tenders accepted for t
  orphaned   \* history: sales whose validation, poll or Sentry call died

db   == <<row, stamps, events>>
vars == <<row, job, cli, tillOpen, stamps, events, terminal, orders, cash, orphaned>>

TERMINAL_STATUSES ==
  {"COMPLETE", "PAYMENT_FAILED", "VALIDATION_FAILED", "INVENTORY_UPDATE_FAILED",
   "CANCELLED"}

Statuses ==
  TERMINAL_STATUSES \cup
  {"none", "PENDING_VALIDATION", "AWAITING_PAYMENT", "PAYMENT_IN_FLIGHT",
   "PAYMENT_SUCCESS"}

Idle == [at |-> "idle", txn |-> NoTxn, polls |-> 0]

At(j, point) == job[j].at = point
Txn(j) == job[j].txn

Suspend(j, point, t) == job' = [job EXCEPT ![j] = [at |-> point, txn |-> t, polls |-> 0]]
Return(j) == job' = [job EXCEPT ![j] = Idle]

SetStatus(t, s) == row' = [row EXCEPT ![t].status = s]

Decided(t) == terminal[t] \in {"approved", "declined", "signature"}

Init ==
  /\ row = [t \in Txns |-> [status |-> "none", method |-> "none", so |-> FALSE]]
  /\ job = [j \in Jobs |-> Idle]
  /\ cli = [now |-> NoTxn, todo |-> {}]
  /\ tillOpen = FALSE
  /\ stamps = [t \in Txns |-> 0]
  /\ events = [t \in Txns |-> [booked |-> 0, unbooked |-> 0]]
  /\ terminal = [t \in Txns |-> "none"]
  /\ orders = [t \in Txns |-> FALSE]
  /\ cash = [t \in Txns |-> 0]
  /\ orphaned = {}

-----------------------------------------------------------------------------
(* start_checkout: the row is committed, then Sentry validates the cart.     *)

StartCheckout(j, t) ==
  /\ At(j, "idle")
  /\ row[t].status = "none"
  /\ SetStatus(t, "PENDING_VALIDATION")
  /\ Suspend(j, "validate", t)
  /\ UNCHANGED <<cli, tillOpen, stamps, events, terminal, orders, cash, orphaned>>

\* Sentry found the cart valid, or it did not (conflicts, or no answer).
CartValidated(j) ==
  /\ At(j, "validate")
  /\ \E s \in {"AWAITING_PAYMENT", "VALIDATION_FAILED"} : SetStatus(Txn(j), s)
  /\ Return(j)
  /\ UNCHANGED <<cli, tillOpen, stamps, events, terminal, orders, cash, orphaned>>

-----------------------------------------------------------------------------
(* charge_cash: no await between the guard and the PAYMENT_SUCCESS commit.   *)
(* A tender below the total is refused before anything is written.           *)

\* Mutant of ChargeCash: any status that is not terminal is chargeable.
ChargeCashUnlessTerminal(j, t) ==
  /\ At(j, "idle")
  /\ row[t].status \notin TERMINAL_STATUSES \cup {"none"}
  /\ row' = [row EXCEPT ![t].status = "PAYMENT_SUCCESS", ![t].method = "cash"]
  /\ cash' = [cash EXCEPT ![t] = @ + 1]
  /\ Suspend(j, "sentry", t)
  /\ UNCHANGED <<cli, tillOpen, stamps, events, terminal, orders, orphaned>>

ChargeCash(j, t) ==
  /\ At(j, "idle")
  /\ row[t].status = "AWAITING_PAYMENT"
  /\ row' = [row EXCEPT ![t].status = "PAYMENT_SUCCESS", ![t].method = "cash"]
  /\ cash' = [cash EXCEPT ![t] = @ + 1]
  /\ Suspend(j, "sentry", t)
  /\ UNCHANGED <<cli, tillOpen, stamps, events, terminal, orders, orphaned>>

(* charge_card: the guard is read before the call to Windcave, the row       *)
(* written after it.                                                         *)

ChargeCard(j, t) ==
  /\ At(j, "idle")
  /\ row[t].status = "AWAITING_PAYMENT"
  /\ Suspend(j, "charge", t)
  /\ UNCHANGED <<cli, tillOpen, db, terminal, orders, cash, orphaned>>

\* WindcaveClientError: every attempt failed, or a 4xx.  The terminal may have
\* started the sale all the same.
ChargeCardFailed(j) ==
  /\ At(j, "charge")
  /\ SetStatus(Txn(j), "PAYMENT_FAILED")
  /\ Return(j)
  /\ UNCHANGED <<cli, tillOpen, stamps, events, terminal, orders, cash, orphaned>>

\* An incomplete answer: the row goes in flight, and the request's background
\* task polls from here on.
ChargeCardPending(j) ==
  /\ At(j, "charge")
  /\ terminal[Txn(j)] # "none"
  /\ row' = [row EXCEPT ![Txn(j)].status = "PAYMENT_IN_FLIGHT", ![Txn(j)].method = "card"]
  /\ Suspend(j, "poll", Txn(j))
  /\ UNCHANGED <<cli, tillOpen, stamps, events, terminal, orders, cash, orphaned>>

\* _finalize_card_charge: a complete answer about t.
FinalizeCardCharge(j, t) ==
  \/ /\ terminal[t] = "approved"
     /\ row' = [row EXCEPT ![t].status = "PAYMENT_SUCCESS", ![t].method = "card"]
     /\ Suspend(j, "sentry", t)
  \/ /\ terminal[t] \in {"declined", "signature"}
     /\ row' = [row EXCEPT ![t].status = "PAYMENT_FAILED", ![t].method = "card"]
     /\ Return(j)

ChargeCardComplete(j) ==
  /\ At(j, "charge")
  /\ Decided(Txn(j))
  /\ FinalizeCardCharge(j, Txn(j))
  /\ UNCHANGED <<cli, tillOpen, stamps, events, terminal, orders, cash, orphaned>>

-----------------------------------------------------------------------------
(* poll_card_until_complete                                                  *)

\* The status call failed or the answer was incomplete: sleep one interval.
PollAgain(j) ==
  /\ At(j, "poll")
  /\ job[j].polls < MaxPolls
  /\ job' = [job EXCEPT ![j].polls = @ + 1]
  /\ UNCHANGED <<cli, tillOpen, db, terminal, orders, cash, orphaned>>

\* A complete answer; the row is reloaded and left alone unless still in flight.
PollComplete(j) ==
  /\ At(j, "poll")
  /\ job[j].polls < MaxPolls
  /\ Decided(Txn(j))
  /\ IF row[Txn(j)].status = "PAYMENT_IN_FLIGHT"
       THEN FinalizeCardCharge(j, Txn(j))
       ELSE Return(j) /\ UNCHANGED row
  /\ UNCHANGED <<cli, tillOpen, stamps, events, terminal, orders, cash, orphaned>>

\* Mutant of PollTimeout: the poller gives up and leaves the row as it is.
PollGivesUp(j) ==
  /\ At(j, "poll")
  /\ job[j].polls = MaxPolls
  /\ Return(j)
  /\ UNCHANGED <<cli, tillOpen, db, terminal, orders, cash, orphaned>>

PollTimeout(j) ==
  /\ At(j, "poll")
  /\ job[j].polls = MaxPolls
  /\ IF row[Txn(j)].status = "PAYMENT_IN_FLIGHT"
       THEN SetStatus(Txn(j), "PAYMENT_FAILED")
       ELSE UNCHANGED row
  /\ Return(j)
  /\ UNCHANGED <<cli, tillOpen, stamps, events, terminal, orders, cash, orphaned>>

-----------------------------------------------------------------------------
(* _send_to_sentry: one commit for the status, the order id, the till stamp  *)
(* and the outbox row.                                                       *)

\* till.attribute_transaction, as the sale path sees it; Till.tla has the rest.
AttributeTransaction(t) ==
  stamps' = IF tillOpen THEN [stamps EXCEPT ![t] = @ + 1] ELSE stamps

SentryAccepted(j) ==
  /\ At(j, "sentry")
  /\ orders[Txn(j)]
  /\ row' = [row EXCEPT ![Txn(j)].status = "COMPLETE", ![Txn(j)].so = TRUE]
  /\ AttributeTransaction(Txn(j))
  /\ events' = [events EXCEPT ![Txn(j)].booked = @ + 1]
  /\ Return(j)
  /\ UNCHANGED <<cli, tillOpen, terminal, orders, cash, orphaned>>

\* Mutant of SentryFailed: no outbox row.
SentryFailedUnpublished(j) ==
  /\ At(j, "sentry")
  /\ SetStatus(Txn(j), "INVENTORY_UPDATE_FAILED")
  /\ Return(j)
  /\ UNCHANGED <<cli, tillOpen, stamps, events, terminal, orders, cash, orphaned>>

\* SentryClientError; Sentry may hold the order all the same.  The payload has
\* the order id of the job's own copy of the row, which has none.
SentryFailed(j) ==
  /\ At(j, "sentry")
  /\ SetStatus(Txn(j), "INVENTORY_UPDATE_FAILED")
  /\ events' = [events EXCEPT ![Txn(j)].unbooked = @ + 1]
  /\ Return(j)
  /\ UNCHANGED <<cli, tillOpen, stamps, terminal, orders, cash, orphaned>>

-----------------------------------------------------------------------------
(* cancel_checkout: Windcave is told first when the row is in flight; its    *)
(* answer, good or bad, is ignored and the row is written without a reload.  *)

CancelCheckout(j, t) ==
  /\ At(j, "idle")
  /\ row[t].status \in {"AWAITING_PAYMENT", "PAYMENT_IN_FLIGHT"}
  /\ IF row[t].status = "PAYMENT_IN_FLIGHT" /\ row[t].method = "card"
       THEN Suspend(j, "cancel", t) /\ UNCHANGED row
       ELSE SetStatus(t, "CANCELLED") /\ UNCHANGED job
  /\ UNCHANGED <<cli, tillOpen, stamps, events, terminal, orders, cash, orphaned>>

CancelAnswered(j) ==
  /\ At(j, "cancel")
  /\ SetStatus(Txn(j), "CANCELLED")
  /\ Return(j)
  /\ UNCHANGED <<cli, tillOpen, stamps, events, terminal, orders, cash, orphaned>>

-----------------------------------------------------------------------------
(* reconciliation.retry_one_sale, from POST .../retry-sentry and from the    *)
(* retry-failed-sales command.  A failed retry writes only last_error and    *)
(* retry_count.                                                              *)

Completed(t) == row' = [row EXCEPT ![t].status = "COMPLETE", ![t].so = TRUE]

RetrySentry(j, t) ==
  /\ At(j, "idle")
  /\ row[t].status = "INVENTORY_UPDATE_FAILED"
  /\ Suspend(j, "resend", t)
  /\ UNCHANGED <<cli, tillOpen, db, terminal, orders, cash, orphaned>>

\* Mutant of RetryOneSale: the error of the retried call is swallowed.
RetrySwallowsError(j) ==
  /\ At(j, "resend")
  /\ Completed(Txn(j))
  /\ Return(j)
  /\ UNCHANGED <<cli, tillOpen, stamps, events, terminal, orders, cash, orphaned>>

RetryOneSale(j) ==
  /\ At(j, "resend")
  /\ \/ orders[Txn(j)] /\ Completed(Txn(j))
     \/ UNCHANGED row
  /\ Return(j)
  /\ UNCHANGED <<cli, tillOpen, stamps, events, terminal, orders, cash, orphaned>>

CliNext(todo) ==
  \/ todo = {} /\ cli' = [now |-> NoTxn, todo |-> {}]
  \/ \E t \in todo : cli' = [now |-> t, todo |-> todo \ {t}]

\* Mutant of RetryFailedSales: the query has lost its status condition.
RetryEverySale ==
  /\ cli.now = NoTxn
  /\ \E t \in Txns : row[t].status # "none"
  /\ CliNext({t \in Txns : row[t].status # "none"})
  /\ UNCHANGED <<db, job, tillOpen, terminal, orders, cash, orphaned>>

\* The command lists the failed sales once and then works through its list.
RetryFailedSales ==
  /\ cli.now = NoTxn
  /\ \E t \in Txns : row[t].status = "INVENTORY_UPDATE_FAILED"
  /\ CliNext({t \in Txns : row[t].status = "INVENTORY_UPDATE_FAILED"})
  /\ UNCHANGED <<db, job, tillOpen, terminal, orders, cash, orphaned>>

RetryNextSale ==
  /\ cli.now # NoTxn
  /\ \/ orders[cli.now] /\ Completed(cli.now)
     \/ UNCHANGED row
  /\ CliNext(cli.todo)
  /\ UNCHANGED <<job, tillOpen, stamps, events, terminal, orders, cash, orphaned>>

\* The command is interrupted or meets an exception it does not catch.
RetryCommandStops ==
  /\ cli.now # NoTxn
  /\ cli' = [now |-> NoTxn, todo |-> {}]
  /\ UNCHANGED <<db, job, tillOpen, terminal, orders, cash, orphaned>>

-----------------------------------------------------------------------------
(* A job dies at an await: the process stops (all of them die, one after the *)
(* other) or a client raises an exception the handler does not catch, such   *)
(* as httpx.RemoteProtocolError or a payload pydantic rejects.  Nothing is   *)
(* written, and nothing in the service takes the job up again.               *)

JobDies(j) ==
  /\ ~ At(j, "idle")
  /\ orphaned' = IF job[j].at \in {"validate", "poll", "sentry"}
                   THEN orphaned \cup {Txn(j)} ELSE orphaned
  /\ Return(j)
  /\ UNCHANGED <<cli, tillOpen, db, terminal, orders, cash>>

-----------------------------------------------------------------------------
(* The world outside                                                         *)

\* The charge request reaches the terminal.  Another request with the same
\* TxnRef finds the session it started.
TerminalStarts(t) ==
  /\ terminal[t] = "none"
  /\ \E j \in Jobs : At(j, "charge") /\ Txn(j) = t
  /\ terminal' = [terminal EXCEPT ![t] = "pending"]
  /\ UNCHANGED <<db, job, cli, tillOpen, orders, cash, orphaned>>

\* The customer, the bank or the CANCEL button decides.
TerminalDecides(t) ==
  /\ terminal[t] = "pending"
  /\ \E d \in {"approved", "declined", "signature"} :
       terminal' = [terminal EXCEPT ![t] = d]
  /\ UNCHANGED <<db, job, cli, tillOpen, orders, cash, orphaned>>

\* A checkout request reaches Sentry, which replays the order it already has.
SentryOrders(t) ==
  /\ ~ orders[t]
  /\ \/ \E j \in Jobs : job[j].at \in {"sentry", "resend"} /\ Txn(j) = t
     \/ cli.now = t
  /\ orders' = [orders EXCEPT ![t] = TRUE]
  /\ UNCHANGED <<db, job, cli, tillOpen, terminal, cash, orphaned>>

\* The cashier opens or closes the till.
ToggleTill ==
  /\ tillOpen' = ~ tillOpen
  /\ UNCHANGED <<db, job, cli, terminal, orders, cash, orphaned>>

-----------------------------------------------------------------------------
Request(j, t) ==
  \/ StartCheckout(j, t) \/ ChargeCash(j, t) \/ ChargeCard(j, t)
  \/ CancelCheckout(j, t) \/ RetrySentry(j, t)

\* The next step of a suspended job.
Resume(j) ==
  \/ CartValidated(j)
  \/ ChargeCardFailed(j) \/ ChargeCardPending(j) \/ ChargeCardComplete(j)
  \/ PollAgain(j) \/ PollComplete(j) \/ PollTimeout(j)
  \/ SentryAccepted(j) \/ SentryFailed(j)
  \/ CancelAnswered(j) \/ RetryOneSale(j)

World(t) == TerminalStarts(t) \/ TerminalDecides(t) \/ SentryOrders(t)

Next ==
  \/ \E j \in Jobs : Resume(j) \/ JobDies(j)
  \/ \E j \in Jobs, t \in Txns : Request(j, t)
  \/ \E t \in Txns : World(t)
  \/ RetryFailedSales \/ RetryNextSale \/ RetryCommandStops
  \/ ToggleTill

Spec == Init /\ [][Next]_vars

\* Every client call ends by its timeout and attempt limit, and the loop
\* resumes the job that awaited it.  Nothing is assumed of customers, of
\* Windcave or Sentry, or of cashiers.
Fairness == \A j \in Jobs : WF_vars(Resume(j))

FairSpec == Spec /\ Fairness

-----------------------------------------------------------------------------
(* Properties                                                                *)

RowOK ==
  row \in [Txns -> [status : Statuses, method : {"none", "cash", "card"}, so : BOOLEAN]]

Points == {"idle", "validate", "charge", "poll", "sentry", "cancel", "resend"}

\* A slot is idle exactly when it works on no sale.
JobOK ==
  /\ job \in [Jobs -> [at : Points, txn : Txns \cup {NoTxn}, polls : 0 .. MaxPolls]]
  /\ \A j \in Jobs : At(j, "idle") <=> Txn(j) = NoTxn

CliOK == cli \in [now : Txns \cup {NoTxn}, todo : SUBSET Txns]

RecordsOK ==
  /\ tillOpen \in BOOLEAN
  /\ stamps \in [Txns -> Nat]
  /\ events \in [Txns -> [booked : Nat, unbooked : Nat]]
  /\ terminal \in [Txns -> {"none", "pending", "approved", "declined", "signature"}]
  /\ orders \in [Txns -> BOOLEAN]
  /\ cash \in [Txns -> Nat]
  /\ orphaned \subseteq Txns

TypeOK == RowOK /\ JobOK /\ CliOK /\ RecordsOK

Paid(t) == cash[t] > 0 \/ terminal[t] = "approved"
Published(t) == events[t].booked + events[t].unbooked > 0

\* Stock moves only for money: when Sentry holds a sales order for a sale, cash
\* was accepted or the terminal approved the card, whatever requests, pollers,
\* retries and deaths came between.
OrderOnlyAfterPayment == \A t \in Txns : orders[t] => Paid(t)

\* A row says COMPLETE only when it carries a sales order id that Sentry gave,
\* so a refund, which only COMPLETE sales get, always names an order.
CompleteIsOrdered ==
  \A t \in Txns : row[t].status = "COMPLETE" => row[t].so /\ orders[t]

\* Every COMPLETE sale has reached the outbox, even one that a retry completed:
\* the retry adds no event and relies on the one its failure left.
CompleteIsPublished == \A t \in Txns : row[t].status = "COMPLETE" => Published(t)

\* A till never counts a sale more often than Fabric hears of its order: stamp
\* and event come in one commit.
StampComesWithEvent == \A t \in Txns : stamps[t] <= events[t].booked

\* Cash is accepted at most once for a sale, however requests overlap.
CashOnce == \A t \in Txns : cash[t] <= 1

\* A sale the service is working on comes to rest: the register's status poll
\* sees a terminal status, or the sale is up for payment.
WorkEnds ==
  \A t \in Txns :
    row[t].status \in {"PENDING_VALIDATION", "PAYMENT_IN_FLIGHT", "PAYMENT_SUCCESS"} ~>
      row[t].status \in TERMINAL_STATUSES \cup {"AWAITING_PAYMENT"} \/ t \in orphaned

\* Cash in the drawer reaches Fabric.
CashReachesFabric ==
  \A t \in Txns : cash[t] > 0 ~> Published(t) \/ t \in orphaned

\* The order of effects SaleLedger promises.
Ledger == INSTANCE SaleLedger WITH paid <- [t \in Txns |-> Paid(t)], ordered <- orders

KeepsLedger == Ledger!Spec

-----------------------------------------------------------------------------
(* Why the safety properties hold: the invariants an induction over the      *)
(* steps needs.  A job's or the command's knowledge about its sale was true  *)
(* when it read the row and stays true, because money, orders and events are *)
(* never taken back.                                                         *)

CliSales == cli.todo \cup ({cli.now} \ {NoTxn})

SafeRow(t) ==
  /\ row[t].status \in {"PAYMENT_SUCCESS", "INVENTORY_UPDATE_FAILED", "COMPLETE"} => Paid(t)
  /\ row[t].status \in {"INVENTORY_UPDATE_FAILED", "COMPLETE"} => Published(t)
  /\ row[t].status = "COMPLETE" => row[t].so
  /\ row[t].so => orders[t]
  /\ orders[t] => Paid(t)
  /\ stamps[t] <= events[t].booked

SafeJob(j) ==
  /\ job[j].at \in {"sentry", "resend"} => Paid(Txn(j))
  /\ At(j, "resend") => Published(Txn(j))

\* Every row, suspended job and listed sale is backed by money and events.
Backed ==
  /\ \A t \in Txns : SafeRow(t)
  /\ \A j \in Jobs : SafeJob(j)
  /\ \A t \in CliSales : Paid(t) /\ Published(t)

Unpaid == {"none", "PENDING_VALIDATION", "AWAITING_PAYMENT"}

\* A row leaves the unpaid statuses for good, and cash only moves a row out of
\* them; the only job on a sale under validation is the one validating it.
CashGuarded ==
  /\ \A t \in Txns : cash[t] <= 1 /\ (row[t].status \in Unpaid => cash[t] = 0)
  /\ \A j \in Jobs : ~ At(j, "idle") =>
       /\ row[Txn(j)].status # "none"
       /\ At(j, "validate") <=> row[Txn(j)].status = "PENDING_VALIDATION"
  /\ \A j, k \in Jobs : At(j, "validate") /\ At(k, "validate") /\ Txn(j) = Txn(k) => j = k
  /\ \A t \in CliSales : row[t].status \notin Unpaid

-----------------------------------------------------------------------------
(* What is sure without fairness                                             *)

Held(point, t) == \E j \in Jobs : At(j, point) /\ Txn(j) = t

SaleIsHeld(t) ==
  /\ row[t].status = "PENDING_VALIDATION" => Held("validate", t)
  /\ row[t].status = "PAYMENT_IN_FLIGHT" => Held("poll", t)
  /\ row[t].status = "PAYMENT_SUCCESS" => Held("sentry", t)
  /\ cash[t] > 0 => Published(t) \/ Held("sentry", t)

\* A sale that the service is working on has a job that will write its row next, and
\* cash that Fabric was not told of has a job that will tell it, unless one of the
\* sale's jobs died: no guard, overwrite or overlap leaves a sale to nobody
\* (start_checkout, poll_card_until_complete, _send_to_sentry).
WorkIsHeld == \A t \in Txns \ orphaned : SaleIsHeld(t)

\* A COMPLETE row is written over only by a job that tested the status before it
\* awaited Windcave or Sentry: never by a poller, which reloads the row
\* (poll_card_until_complete), a retry, or a request's own guard.
OnlyLateAnswersUndo ==
  [][\A t \in Txns : row[t].status = "COMPLETE" /\ row'[t].status # "COMPLETE" =>
       \E j \in Jobs :
         job[j].at \in {"charge", "cancel", "sentry"} /\ Txn(j) = t /\ job'[j] # job[j]]_vars

-----------------------------------------------------------------------------
(* What the repository says and the code does not do                         *)

\* A completed card sale cannot be cancelled: "test_cancel_after_complete_returns_400"
\* (tests/test_checkout.py).  cancel_checkout tests the status before it calls
\* Windcave and writes CANCELLED after, over a sale its poller completed meanwhile.
CompleteIsNotCancelled ==
  [][\A t \in Txns : row[t].status = "COMPLETE" /\ cash[t] = 0
       => row'[t].status # "CANCELLED"]_vars
=============================================================================
