------------------------------ MODULE Refund ------------------------------
(***************************************************************************)
(* The refund of a completed sale (pos_service/services/refund.py, the     *)
(* refund routes and the refund half of reconciliation.py).                *)
(*                                                                         *)
(* Jobs are requests, pollers and retries suspended at an await, as in     *)
(* Checkout.tla: what a job writes after its await overwrites the refund   *)
(* row without a look at it.  Looking a sale up, starting its refund and   *)
(* cancelling one have no await: each is a single step of the event loop.  *)
(***************************************************************************)
EXTENDS Naturals, FiniteSets

CONSTANTS
  CashSales, CardSales,  \* COMPLETE sales, by payment method
  Refunds,               \* POSTransaction rows of txn_type "refund"
  Nothing,               \* no sale, no refund
  Jobs,                  \* slots for concurrent requests and their background tasks
  MaxPolls               \* windcave_max_poll_duration_s over the poll interval

Sales == CashSales \cup CardSales

ASSUME SalesAssumption == CashSales \cap CardSales = {} /\ Nothing \notin Sales
ASSUME RefundsAssumption == Nothing \notin Refunds
ASSUME PollsAssumption == MaxPolls \in Nat \ {0}

VARIABLES
  refund,    \* the database row of each refund
  link,      \* link[s]: refund_transaction_id of the sale's row
  job,       \* what each job slot is suspended at
  cli,       \* the retry-failed-refunds command, a process of its own
  stamped,   \* refunds that attribute_transaction was called for
  events,    \* events[r]: fabric_outbox rows of r
  terminal,  \* external: the card terminal's session for TxnRef r
  returned,  \* external: refunds Sentry holds a refund order for
  cashOut,   \* cashOut[r]: history: times the drawer paid r out
  orphaned   \* history: refunds whose poll or Sentry call died

db   == <<refund, link, stamped, events>>
vars == <<refund, link, job, cli, stamped, events, terminal, returned, cashOut, orphaned>>

REFUND_TERMINAL_STATUSES ==
  {"COMPLETE", "REFUND_PAYMENT_FAILED", "REFUND_INVENTORY_UPDATE_FAILED", "CANCELLED"}

REFUND_BLOCKING_STATES ==
  {"REFUND_PENDING", "REFUND_PAYMENT_IN_FLIGHT", "REFUND_PAYMENT_SUCCESS",
   "REFUND_INVENTORY_UPDATE_FAILED", "COMPLETE"}

Statuses == {"none"} \cup REFUND_TERMINAL_STATUSES \cup REFUND_BLOCKING_STATES

Idle == [at |-> "idle", refund |-> Nothing, polls |-> 0]

At(j, point) == job[j].at = point
Row(j) == job[j].refund
Suspend(j, point, r) == job' = [job EXCEPT ![j] = [at |-> point, refund |-> r, polls |-> 0]]
Return(j) == job' = [job EXCEPT ![j] = Idle]

SetStatus(r, s) == refund' = [refund EXCEPT ![r].status = s]
RefundsOf(s) == {r \in Refunds : refund[r].parent = s}
Decided(r) == terminal[r] \in {"approved", "declined", "signature"}

Init ==
  /\ refund = [r \in Refunds |-> [status |-> "none", parent |-> Nothing, so |-> FALSE]]
  /\ link = [s \in Sales |-> Nothing]
  /\ job = [j \in Jobs |-> Idle]
  /\ cli = [now |-> Nothing, todo |-> {}]
  /\ stamped = {}
  /\ events = [r \in Refunds |-> 0]
  /\ terminal = [r \in Refunds |-> "none"]
  /\ returned = {}
  /\ cashOut = [r \in Refunds |-> 0]
  /\ orphaned = {}

-----------------------------------------------------------------------------
\* Mutant of Refundable: a refund that Sentry does not know of does not block.
RefundableUntilBooked(s) == \A r \in RefundsOf(s) : ~ refund[r].so

\* lookup_refund's gate.  (The sales here are COMPLETE and in the refund window.)
Refundable(s) == \A r \in RefundsOf(s) : refund[r].status \notin REFUND_BLOCKING_STATES

\* start_refund: the gate again, and the row.
StartRefund(r, s) ==
  /\ refund[r].status = "none"
  /\ Refundable(s)
  /\ refund' = [refund EXCEPT ![r] = [status |-> "REFUND_PENDING", parent |-> s, so |-> FALSE]]
  /\ UNCHANGED <<link, job, cli, stamped, events, terminal, returned, cashOut, orphaned>>

(* charge_cash_refund: no await between the guard and the commit.            *)

ChargeCashRefund(j, r) ==
  /\ At(j, "idle")
  /\ refund[r].status = "REFUND_PENDING"
  /\ refund[r].parent \in CashSales
  /\ SetStatus(r, "REFUND_PAYMENT_SUCCESS")
  /\ cashOut' = [cashOut EXCEPT ![r] = @ + 1]
  /\ Suspend(j, "sentry", r)
  /\ UNCHANGED <<link, cli, stamped, events, terminal, returned, orphaned>>

(* charge_card_refund: guard, call to Windcave, write.                       *)

ChargeCardRefund(j, r) ==
  /\ At(j, "idle")
  /\ refund[r].status = "REFUND_PENDING"
  /\ refund[r].parent \in CardSales
  /\ Suspend(j, "charge", r)
  /\ UNCHANGED <<db, cli, terminal, returned, cashOut, orphaned>>

\* WindcaveClientError; the terminal may have the refund all the same.
ChargeRefundFailed(j) ==
  /\ At(j, "charge")
  /\ SetStatus(Row(j), "REFUND_PAYMENT_FAILED")
  /\ Return(j)
  /\ UNCHANGED <<link, cli, stamped, events, terminal, returned, cashOut, orphaned>>

\* An incomplete answer: the request's background task polls from here on.
ChargeRefundPending(j) ==
  /\ At(j, "charge")
  /\ terminal[Row(j)] # "none"
  /\ SetStatus(Row(j), "REFUND_PAYMENT_IN_FLIGHT")
  /\ Suspend(j, "poll", Row(j))
  /\ UNCHANGED <<link, cli, stamped, events, terminal, returned, cashOut, orphaned>>

\* Mutant of FinalizeRefundCharge: a complete answer counts as an approved one.
FinalizeAnyAnswer(j, r) ==
  /\ SetStatus(r, "REFUND_PAYMENT_SUCCESS")
  /\ Suspend(j, "sentry", r)

\* _finalize_refund_charge: a complete answer about r.
FinalizeRefundCharge(j, r) ==
  \/ /\ terminal[r] = "approved"
     /\ SetStatus(r, "REFUND_PAYMENT_SUCCESS")
     /\ Suspend(j, "sentry", r)
  \/ /\ terminal[r] \in {"declined", "signature"}
     /\ SetStatus(r, "REFUND_PAYMENT_FAILED")
     /\ Return(j)

ChargeRefundComplete(j) ==
  /\ At(j, "charge")
  /\ Decided(Row(j))
  /\ FinalizeRefundCharge(j, Row(j))
  /\ UNCHANGED <<link, cli, stamped, events, terminal, returned, cashOut, orphaned>>

-----------------------------------------------------------------------------
(* poll_refund_until_complete                                                *)

PollAgain(j) ==
  /\ At(j, "poll")
  /\ job[j].polls < MaxPolls
  /\ job' = [job EXCEPT ![j].polls = @ + 1]
  /\ UNCHANGED <<db, cli, terminal, returned, cashOut, orphaned>>

PollComplete(j) ==
  /\ At(j, "poll")
  /\ job[j].polls < MaxPolls
  /\ Decided(Row(j))
  /\ IF refund[Row(j)].status = "REFUND_PAYMENT_IN_FLIGHT"
       THEN FinalizeRefundCharge(j, Row(j))
       ELSE Return(j) /\ UNCHANGED refund
  /\ UNCHANGED <<link, cli, stamped, events, terminal, returned, cashOut, orphaned>>

\* Mutant of PollTimeout: the loop ends without a write.
PollGivesUp(j) ==
  /\ At(j, "poll")
  /\ job[j].polls = MaxPolls
  /\ Return(j)
  /\ UNCHANGED <<db, cli, terminal, returned, cashOut, orphaned>>

PollTimeout(j) ==
  /\ At(j, "poll")
  /\ job[j].polls = MaxPolls
  /\ IF refund[Row(j)].status = "REFUND_PAYMENT_IN_FLIGHT"
       THEN SetStatus(Row(j), "REFUND_PAYMENT_FAILED")
       ELSE UNCHANGED refund
  /\ Return(j)
  /\ UNCHANGED <<link, cli, stamped, events, terminal, returned, cashOut, orphaned>>

-----------------------------------------------------------------------------
(* _send_refund_to_sentry                                                    *)

\* What an accepted refund order writes, here and in a retry.
Booked(r) ==
  /\ refund' = [refund EXCEPT ![r].status = "COMPLETE", ![r].so = TRUE]
  /\ link' = [link EXCEPT ![refund[r].parent] = r]

\* Mutant of SentryAccepted: whatever Sentry answers, the refund is completed.
SentryPresumed(j) ==
  /\ At(j, "sentry")
  /\ Booked(Row(j))
  /\ stamped' = stamped \cup {Row(j)}
  /\ events' = [events EXCEPT ![Row(j)] = @ + 1]
  /\ Return(j)
  /\ UNCHANGED <<cli, terminal, returned, cashOut, orphaned>>

SentryAccepted(j) ==
  /\ At(j, "sentry")
  /\ Row(j) \in returned
  /\ Booked(Row(j))
  /\ stamped' = stamped \cup {Row(j)}
  /\ events' = [events EXCEPT ![Row(j)] = @ + 1]
  /\ Return(j)
  /\ UNCHANGED <<cli, terminal, returned, cashOut, orphaned>>

\* Mutant of SentryFailed: no outbox row.
SentryFailedUnpublished(j) ==
  /\ At(j, "sentry")
  /\ SetStatus(Row(j), "REFUND_INVENTORY_UPDATE_FAILED")
  /\ Return(j)
  /\ UNCHANGED <<link, cli, stamped, events, terminal, returned, cashOut, orphaned>>

\* SentryClientError; Sentry may hold the refund order all the same.
SentryFailed(j) ==
  /\ At(j, "sentry")
  /\ SetStatus(Row(j), "REFUND_INVENTORY_UPDATE_FAILED")
  /\ events' = [events EXCEPT ![Row(j)] = @ + 1]
  /\ Return(j)
  /\ UNCHANGED <<link, cli, stamped, terminal, returned, cashOut, orphaned>>

(* cancel_refund: Windcave is not told.                                      *)

CancelRefund(r) ==
  /\ refund[r].status \in {"REFUND_PENDING", "REFUND_PAYMENT_IN_FLIGHT"}
  /\ SetStatus(r, "CANCELLED")
  /\ UNCHANGED <<link, job, cli, stamped, events, terminal, returned, cashOut, orphaned>>

-----------------------------------------------------------------------------
(* reconciliation.retry_one_refund, from POST .../retry-sentry and from the  *)
(* retry-failed-refunds command.                                             *)

RetrySentry(j, r) ==
  /\ At(j, "idle")
  /\ refund[r].status = "REFUND_INVENTORY_UPDATE_FAILED"
  /\ Suspend(j, "resend", r)
  /\ UNCHANGED <<db, cli, terminal, returned, cashOut, orphaned>>

RetryOneRefund(j) ==
  /\ At(j, "resend")
  /\ \/ Row(j) \in returned /\ Booked(Row(j))
     \/ UNCHANGED <<refund, link>>
  /\ Return(j)
  /\ UNCHANGED <<cli, stamped, events, terminal, returned, cashOut, orphaned>>

CliNext(todo) ==
  \/ todo = {} /\ cli' = [now |-> Nothing, todo |-> {}]
  \/ \E r \in todo : cli' = [now |-> r, todo |-> todo \ {r}]

\* The command lists the failed refunds once and then works through its list.
RetryFailedRefunds ==
  /\ cli.now = Nothing
  /\ \E r \in Refunds : refund[r].status = "REFUND_INVENTORY_UPDATE_FAILED"
  /\ CliNext({r \in Refunds : refund[r].status = "REFUND_INVENTORY_UPDATE_FAILED"})
  /\ UNCHANGED <<db, job, terminal, returned, cashOut, orphaned>>

RetryNextRefund ==
  /\ cli.now # Nothing
  /\ \/ cli.now \in returned /\ Booked(cli.now)
     \/ UNCHANGED <<refund, link>>
  /\ CliNext(cli.todo)
  /\ UNCHANGED <<job, stamped, events, terminal, returned, cashOut, orphaned>>

RetryCommandStops ==
  /\ cli.now # Nothing
  /\ cli' = [now |-> Nothing, todo |-> {}]
  /\ UNCHANGED <<db, job, terminal, returned, cashOut, orphaned>>

-----------------------------------------------------------------------------
(* A job dies at an await; see Checkout.tla.                                 *)

JobDies(j) ==
  /\ ~ At(j, "idle")
  /\ orphaned' = IF job[j].at \in {"poll", "sentry"} THEN orphaned \cup {Row(j)} ELSE orphaned
  /\ Return(j)
  /\ UNCHANGED <<db, cli, terminal, returned, cashOut>>

(* The world outside                                                         *)

TerminalStarts(r) ==
  /\ terminal[r] = "none"
  /\ \E j \in Jobs : At(j, "charge") /\ Row(j) = r
  /\ terminal' = [terminal EXCEPT ![r] = "pending"]
  /\ UNCHANGED <<db, job, cli, returned, cashOut, orphaned>>

TerminalDecides(r) ==
  /\ terminal[r] = "pending"
  /\ \E d \in {"approved", "declined", "signature"} : terminal' = [terminal EXCEPT ![r] = d]
  /\ UNCHANGED <<db, job, cli, returned, cashOut, orphaned>>

SentryReturns(r) ==
  /\ r \notin returned
  /\ \/ \E j \in Jobs : job[j].at \in {"sentry", "resend"} /\ Row(j) = r
     \/ cli.now = r
  /\ returned' = returned \cup {r}
  /\ UNCHANGED <<db, job, cli, terminal, cashOut, orphaned>>

-----------------------------------------------------------------------------
Request(j, r) == ChargeCashRefund(j, r) \/ ChargeCardRefund(j, r) \/ RetrySentry(j, r)

\* The next step of a suspended job.
Resume(j) ==
  \/ ChargeRefundFailed(j) \/ ChargeRefundPending(j) \/ ChargeRefundComplete(j)
  \/ PollAgain(j) \/ PollComplete(j) \/ PollTimeout(j)
  \/ SentryAccepted(j) \/ SentryFailed(j) \/ RetryOneRefund(j)

World(r) == TerminalStarts(r) \/ TerminalDecides(r) \/ SentryReturns(r)

Next ==
  \/ \E j \in Jobs : Resume(j) \/ JobDies(j)
  \/ \E j \in Jobs, r \in Refunds : Request(j, r)
  \/ \E r \in Refunds : World(r) \/ CancelRefund(r) \/ \E s \in Sales : StartRefund(r, s)
  \/ RetryFailedRefunds \/ RetryNextRefund \/ RetryCommandStops

Spec == Init /\ [][Next]_vars

\* Every client call ends by its timeout and attempt limit, and the loop resumes
\* the job that awaited it.
Fairness == \A j \in Jobs : WF_vars(Resume(j))

FairSpec == Spec /\ Fairness

-----------------------------------------------------------------------------
(* Properties                                                                *)

RowOK ==
  refund \in [Refunds -> [status : Statuses, parent : Sales \cup {Nothing}, so : BOOLEAN]]

\* A slot is idle exactly when it works on no refund.
JobOK ==
  /\ job \in [Jobs -> [at : {"idle", "charge", "poll", "sentry", "resend"},
                       refund : Refunds \cup {Nothing}, polls : 0 .. MaxPolls]]
  /\ \A j \in Jobs : At(j, "idle") <=> Row(j) = Nothing

RecordsOK ==
  /\ link \in [Sales -> Refunds \cup {Nothing}]
  /\ cli \in [now : Refunds \cup {Nothing}, todo : SUBSET Refunds]
  /\ stamped \subseteq Refunds
  /\ events \in [Refunds -> Nat]
  /\ terminal \in [Refunds -> {"none", "pending", "approved", "declined", "signature"}]
  /\ returned \subseteq Refunds
  /\ cashOut \in [Refunds -> Nat]
  /\ orphaned \subseteq Refunds

TypeOK == RowOK /\ JobOK /\ RecordsOK

PaidBack(r) == cashOut[r] > 0 \/ terminal[r] = "approved"

\* Stock comes back only for money that went back: Sentry holds a refund order
\* only for a refund that was paid out.
OrderOnlyAfterPayout == \A r \in returned : PaidBack(r)

\* The sale's row and its refund agree: the refund a sale names is one of its own
\* and has the order id Sentry gave, and a COMPLETE refund's sale names a refund.
SaleNamesItsRefund ==
  /\ \A s \in Sales : link[s] # Nothing =>
       /\ refund[link[s]].parent = s
       /\ refund[link[s]].so
       /\ link[s] \in returned
  /\ \A r \in Refunds : refund[r].status = "COMPLETE" => link[refund[r].parent] # Nothing

\* However requests, retries and deaths overlap, the drawer pays a cash sale back
\* at most once, over all the refunds started for it.
CashRefundedOnce ==
  \A s \in CashSales, q, r \in Refunds :
    /\ cashOut[q] > 0 /\ refund[q].parent = s
    /\ cashOut[r] > 0 /\ refund[r].parent = s
    => q = r /\ cashOut[r] = 1

\* A COMPLETE refund has reached the outbox, even one that a retry completed.
CompleteIsPublished == \A r \in Refunds : refund[r].status = "COMPLETE" => events[r] > 0

\* A refund that is being paid comes to rest.
WorkEnds ==
  \A r \in Refunds :
    refund[r].status \in {"REFUND_PAYMENT_IN_FLIGHT", "REFUND_PAYMENT_SUCCESS"} ~>
      refund[r].status \in REFUND_TERMINAL_STATUSES \/ r \in orphaned

\* A refund's money, its order in Sentry, its event and stamp and the sale's
\* reference to it come about only as RefundLedger promises, whatever jobs, retries,
\* cancels and deaths overlap (services/refund.py, reconciliation.py).
Ledger ==
  INSTANCE RefundLedger WITH
    sale <- [r \in Refunds |-> refund[r].parent],
    approved <- {r \in Refunds : terminal[r] = "approved"}

KeepsLedger == Ledger!Spec

-----------------------------------------------------------------------------
(* What is sure without fairness                                             *)

Held(point, r) == \E j \in Jobs : At(j, point) /\ Row(j) = r

RefundIsHeld(r) ==
  /\ refund[r].status = "REFUND_PAYMENT_IN_FLIGHT" => Held("poll", r)
  /\ refund[r].status = "REFUND_PAYMENT_SUCCESS" => Held("sentry", r)
  /\ cashOut[r] > 0 => events[r] > 0 \/ Held("sentry", r)

\* A refund that is being paid has a job that will write its row next, and cash
\* paid back that Fabric was not told of has a job that will tell it, unless one of
\* the refund's jobs died (poll_refund_until_complete, _send_refund_to_sentry).
WorkIsHeld == \A r \in Refunds \ orphaned : RefundIsHeld(r)

\* A COMPLETE refund is written over only for a card sale, and by a job that tested
\* the status before it awaited Windcave or Sentry: never by a cancel, a poller
\* or a retry.  That of a cash sale stays COMPLETE: the only job that is at Sentry for
\* it is the one that paid it (charge_cash_refund, _send_refund_to_sentry).
OnlyLateAnswersUndo ==
  [][\A r \in Refunds : refund[r].status = "COMPLETE" /\ refund'[r].status # "COMPLETE" =>
       /\ refund[r].parent \in CardSales
       /\ \E j \in Jobs :
            job[j].at \in {"charge", "sentry"} /\ Row(j) = r /\ job'[j] # job[j]]_vars

-----------------------------------------------------------------------------
(* Why they hold, for an induction: what a retry or a job at Sentry holds in *)
(* hand has been paid out and stays so.                                      *)

Settled == {"REFUND_PAYMENT_SUCCESS", "REFUND_INVENTORY_UPDATE_FAILED", "COMPLETE"}

InHand ==
  {Row(j) : j \in {k \in Jobs : job[k].at \in {"sentry", "resend"}}}
    \cup cli.todo \cup ({cli.now} \ {Nothing})

\* A refund that nobody started is not worked on, and every other has a sale.
Known ==
  \A r \in Refunds :
    /\ refund[r].status = "none" <=> refund[r].parent = Nothing
    /\ refund[r].status = "none" =>
         /\ ~ refund[r].so
         /\ r \notin InHand \cup returned
         /\ \A j \in Jobs : Row(j) # r

Backed ==
  \A r \in Refunds :
    refund[r].status \in Settled \/ r \in InHand \cup returned => PaidBack(r)

\* Jobs that wait for Windcave serve card sales; a cash sale's refund that has
\* been paid stays settled, and no second one of that sale gets that far.
CashGuarded ==
  /\ \A j \in Jobs : job[j].at \in {"charge", "poll"} => refund[Row(j)].parent \in CardSales
  /\ \A r \in Refunds :
       /\ cashOut[r] <= 1
       /\ cashOut[r] > 0 => refund[r].parent \in CashSales /\ refund[r].status \in Settled
       /\ refund[r].parent \in CashSales /\ r \in InHand => refund[r].status \in Settled
  /\ \A q, r \in Refunds :
       /\ refund[q].parent \in CashSales /\ refund[q].parent = refund[r].parent
       /\ refund[q].status \in REFUND_BLOCKING_STATES
       /\ refund[r].status \in REFUND_BLOCKING_STATES
       => q = r

\* Only the refund of a card sale is presented to the terminal.
TerminalIsCard == \A r \in Refunds : terminal[r] # "none" => refund[r].parent \in CardSales

\* A refund that Sentry answered about, and one that a retry has in hand, is in
\* the outbox.
Retried ==
  {Row(j) : j \in {k \in Jobs : job[k].at = "resend"}} \cup cli.todo \cup ({cli.now} \ {Nothing})

Published ==
  \A r \in Refunds :
    refund[r].status \in {"REFUND_INVENTORY_UPDATE_FAILED", "COMPLETE"} \/ r \in Retried
      => events[r] > 0

\* A job at Sentry about cash paid back is the only one there, and the refund is
\* still as the charge left it; a retry takes it up only after that job.
CashBooking ==
  /\ \A j \in Jobs : At(j, "sentry") /\ refund[Row(j)].parent \in CashSales =>
       /\ refund[Row(j)].status = "REFUND_PAYMENT_SUCCESS"
       /\ \A k \in Jobs : At(k, "sentry") /\ Row(k) = Row(j) => k = j
  /\ \A r \in Retried : refund[r].parent \in CashSales =>
       refund[r].status \in {"REFUND_INVENTORY_UPDATE_FAILED", "COMPLETE"}

=============================================================================
