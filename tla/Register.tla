----------------------------- MODULE Register -----------------------------
(***************************************************************************)
(* The payment dialogs of the register: PayPanel, CashTenderModal,         *)
(* PaymentInFlight and PaymentResult over one global store                 *)
(* (desktop_client/src/store/checkout.ts).                                 *)
(*                                                                         *)
(* A click handler is an async function.  It captures the cart, awaits one *)
(* or two requests and then writes the store, whatever the store shows by  *)
(* then.  Closing a dialog or leaving the screen does not stop it.  Scans  *)
(* go on meanwhile.                                                        *)
(*                                                                         *)
(* The service is reduced to what Checkout.tla shows of it: a sale's       *)
(* status, whether it was paid, and requests that arrive late or never.    *)
(***************************************************************************)
EXTENDS Naturals

CONSTANTS
  Items,    \* what is scanned
  Sales,
  Presses,  \* presses of a pay button
  Tenders,  \* presses of the tender button
  NoSale

ASSUME NoSaleAssumption == NoSale \notin Sales

VARIABLES
  items,      \* the lines of useCart
  panel,      \* useCheckout: phase, transactionId, status, receipt; and whose result
  press,      \* handleCard and handleCash; here: the mounted screen sees it pending
  tender,     \* handleTender
  cancelling, \* the sale whose cancel resets the store when it is settled
  poll,       \* the sale whose status was asked for
  printedTxnRef,
  status,     \* service: status of each sale
  lines,      \* service: the lines of each sale
  asked,      \* service: requests that have not arrived, jobs that wait for Windcave
  paid,       \* service: sales whose money was taken
  prints,     \* history: receipts printed of each sale since the screen was mounted
  gaveUp      \* history: items of sales that left the screen and not the cart

client == <<panel, press, tender, cancelling, poll, printedTxnRef, gaveUp>>
service == <<status, lines, asked, paid>>
registervars == <<items, client, service, prints>>

TERMINAL_STATUSES == {"COMPLETE", "PAYMENT_FAILED", "INVENTORY_UPDATE_FAILED", "CANCELLED"}

Idle == [phase |-> "idle", txn |-> NoSale, status |-> "none", receipt |-> FALSE, of |-> NoSale]

NoPress == [at |-> "idle", kind |-> "cash", lines |-> {}, sale |-> NoSale, here |-> FALSE]
NoTender == [at |-> "idle", sale |-> NoSale, here |-> FALSE]

RegisterInit ==
  /\ items = {}
  /\ panel = Idle
  /\ press = [h \in Presses |-> NoPress]
  /\ tender = [d \in Tenders |-> NoTender]
  /\ cancelling = NoSale
  /\ poll = NoSale
  /\ printedTxnRef = NoSale
  /\ status = [s \in Sales |-> "none"]
  /\ lines = [s \in Sales |-> {}]
  /\ asked = {}
  /\ paid = {}
  /\ prints = [s \in Sales |-> 0]
  /\ gaveUp = {}

-----------------------------------------------------------------------------
(* The store                                                                 *)

Success == panel.phase = "result" /\ panel.status = "COMPLETE"

\* The sale whose dialog is open or whose success is shown.
OnScreen(s) ==
  \/ panel.phase \in {"in_flight", "tendering_cash"} /\ panel.txn = s
  \/ Success /\ panel.of = s

\* The lines of a sale that is on the screen when another one, or none, is shown.
Displaced(s) == UNION {lines[x] : x \in {y \in Sales \ {s} : OnScreen(y)}}

\* Mutant of Prints: every rendering of a success prints.
PrintsAgain(p) ==
  p.phase = "result" /\ p.status = "COMPLETE" /\ p.receipt /\ p.txn # NoSale

\* PaymentResult's effect prints, unless its ref says that it has.
Prints(p) ==
  /\ p.phase = "result" /\ p.status = "COMPLETE" /\ p.receipt /\ p.txn # NoSale
  /\ printedTxnRef # p.txn

Render(p) ==
  /\ prints' = IF Prints(p) THEN [prints EXCEPT ![p.of] = @ + 1] ELSE prints
  /\ printedTxnRef' = CASE p.phase # "result" -> NoSale
                        [] p.phase = "result" /\ Prints(p) -> p.txn
                        [] OTHER -> printedTxnRef

\* Every write of the store renders the dialogs.
Show(p, failedLines) ==
  /\ panel' = p
  /\ Render(p)
  /\ gaveUp' = gaveUp \cup failedLines

startedAt(s) ==
  Show([phase |-> "in_flight", txn |-> s, status |-> "PAYMENT_IN_FLIGHT",
        receipt |-> FALSE, of |-> NoSale], Displaced(s))

startedCash(s) ==
  Show([phase |-> "tendering_cash", txn |-> s, status |-> "AWAITING_PAYMENT",
        receipt |-> FALSE, of |-> NoSale], Displaced(s))

\* finished keeps the transactionId, of whatever sale the reply is.
finished(s, st, receipt) ==
  Show([panel EXCEPT !.phase = "result", !.status = st, !.receipt = receipt, !.of = s],
       Displaced(s) \cup IF st = "COMPLETE" THEN {} ELSE lines[s])

failed(ls) ==
  Show([Idle EXCEPT !.phase = "result", !.status = "PAYMENT_FAILED"],
       ls \cup Displaced(NoSale))

reset(ls) == Show(Idle, ls)

-----------------------------------------------------------------------------
(* The cart and the pay panel                                                *)

\* An item is one physical thing: it is scanned once.  The scan field has the
\* focus behind a dialog too.
Scan(i) ==
  /\ i \notin items
  /\ \A s \in Sales : i \notin lines[s]
  /\ \A h \in Presses : i \notin press[h].lines
  /\ items' = items \cup {i}
  /\ UNCHANGED <<client, service, prints>>

\* Mutant of CanPay: only the phase is looked at.
CanPayWhenIdle == items # {} /\ panel.phase = "idle"

CanPay ==
  /\ items # {}
  /\ panel.phase = "idle"
  /\ \A h \in Presses : ~ press[h].here

PressPay(h, kind) ==
  /\ CanPay
  /\ press[h].at = "idle"
  /\ press' = [press EXCEPT ![h] =
       [at |-> "starting", kind |-> kind, lines |-> items, sale |-> NoSale, here |-> TRUE]]
  /\ UNCHANGED <<items, panel, tender, cancelling, poll, printedTxnRef, service, prints, gaveUp>>

\* The settings or login screen and back: new components, which see nobody
\* pending, have printed nothing yet and await no cancel.
LeaveScreen ==
  /\ press' = [h \in Presses |-> [press[h] EXCEPT !.here = FALSE]]
  /\ tender' = [d \in Tenders |-> [tender[d] EXCEPT !.here = FALSE]]
  /\ cancelling' = NoSale
  /\ LET again == panel.phase = "result" /\ panel.status = "COMPLETE"
                  /\ panel.receipt /\ panel.txn # NoSale
     IN /\ prints' = [s \in Sales |-> IF again /\ panel.of = s THEN 1 ELSE 0]
        /\ printedTxnRef' = IF again THEN panel.txn ELSE NoSale
  /\ gaveUp' = gaveUp \cup UNION {press[h].lines : h \in Presses}
  /\ UNCHANGED <<items, panel, poll, service>>

StartAnswered(h) ==
  /\ press[h].at = "started"
  /\ LET s == press[h].sale IN
       \/ /\ press[h].kind = "card"
          /\ press' = [press EXCEPT ![h].at = "charging"]
          /\ asked' = asked \cup {<<"card", s>>}
          /\ UNCHANGED <<panel, printedTxnRef, prints, gaveUp>>
       \/ /\ press[h].kind = "cash"
          /\ startedCash(s)
          /\ press' = [press EXCEPT ![h] = NoPress]
          /\ UNCHANGED asked
  /\ UNCHANGED <<items, tender, cancelling, poll,
                 status, lines, paid>>

CardAnswered(h) ==
  /\ press[h].at = "charged"
  /\ startedAt(press[h].sale)
  /\ press' = [press EXCEPT ![h] = NoPress]
  /\ UNCHANGED <<items, tender, cancelling, poll, service>>

\* An error status, or a request or response that was lost.
PayFails(h) ==
  /\ press[h].at # "idle"
  /\ failed(press[h].lines)
  /\ press' = [press EXCEPT ![h] = NoPress]
  /\ UNCHANGED <<items, tender, cancelling, poll, service>>

-----------------------------------------------------------------------------
(* The cash dialog                                                           *)

DialogOpen == panel.phase = "tendering_cash"

Tender(d) ==
  /\ DialogOpen
  /\ \A e \in Tenders : ~ tender[e].here
  /\ tender[d].at = "idle"
  /\ tender' = [tender EXCEPT ![d] =
       [at |-> "charging", sale |-> panel.txn, here |-> TRUE]]
  /\ asked' = asked \cup {<<"cash", panel.txn>>}
  /\ UNCHANGED <<items, panel, press, cancelling, poll, printedTxnRef,
                 status, lines, paid, prints, gaveUp>>

TenderAnswered(d) ==
  /\ tender[d].at = "charged"
  /\ tender' = [tender EXCEPT ![d].at = "fetching", ![d].here = FALSE]
  /\ UNCHANGED <<items, panel, press, cancelling, poll, printedTxnRef,
                 service, prints, gaveUp>>

\* Mutant of TenderFails: no answer is taken for a recorded payment.
TenderPresumed(d) ==
  /\ tender[d].at \in {"charging", "charged"}
  /\ finished(tender[d].sale, "COMPLETE", FALSE)
  /\ tender' = [tender EXCEPT ![d] = NoTender]
  /\ UNCHANGED <<items, press, cancelling, poll, service>>

TenderFails(d) ==
  /\ tender[d].at \in {"charging", "charged"}
  /\ finished(tender[d].sale, "PAYMENT_FAILED", FALSE)
  /\ tender' = [tender EXCEPT ![d] = NoTender]
  /\ UNCHANGED <<items, press, cancelling, poll, service>>

\* The status of the charged sale is shown; if it cannot be had, COMPLETE is.
StatusFetched(d) ==
  /\ tender[d].at = "fetching"
  /\ LET s == tender[d].sale IN
       \/ finished(s, status[s], status[s] \in {"COMPLETE", "INVENTORY_UPDATE_FAILED"})
       \/ finished(s, "COMPLETE", FALSE)
  /\ tender' = [tender EXCEPT ![d] = NoTender]
  /\ UNCHANGED <<items, press, cancelling, poll, service>>

\* Cancel, or Escape, which works while the charge is awaited too.
CancelTender ==
  /\ DialogOpen
  /\ cancelling # panel.txn
  /\ cancelling' = panel.txn
  /\ asked' = asked \cup {<<"cancel", panel.txn>>}
  /\ UNCHANGED <<items, panel, press, tender, poll, printedTxnRef,
                 status, lines, paid, prints, gaveUp>>

\* onSettled resets the store, whatever it shows.
CancelSettled ==
  /\ cancelling # NoSale
  /\ reset(lines[cancelling] \cup Displaced(NoSale))
  /\ cancelling' = NoSale
  /\ UNCHANGED <<items, press, tender, poll, service>>

-----------------------------------------------------------------------------
(* The card dialog                                                           *)

\* A request whose answer is lost is sent again after POLL_INTERVAL_MS.
PollSent ==
  /\ panel.phase = "in_flight"
  /\ poll # panel.txn
  /\ poll' = panel.txn
  /\ UNCHANGED <<items, panel, press, tender, cancelling, printedTxnRef,
                 service, prints, gaveUp>>

\* Mutant of PollAnswered: only a success is taken up.
PollTakesSuccess ==
  /\ poll # NoSale
  /\ poll' = NoSale
  /\ IF panel.txn = poll /\ status[poll] = "COMPLETE"
       THEN finished(poll, status[poll], TRUE)
       ELSE UNCHANGED <<panel, printedTxnRef, prints, gaveUp>>
  /\ UNCHANGED <<items, press, tender, cancelling, service>>

\* The answer counts while the store is on that sale, in whatever phase.
PollAnswered ==
  /\ poll # NoSale
  /\ poll' = NoSale
  /\ IF panel.txn = poll /\ status[poll] \in TERMINAL_STATUSES
       THEN finished(poll, status[poll], status[poll] \in {"COMPLETE", "INVENTORY_UPDATE_FAILED"})
       ELSE UNCHANGED <<panel, printedTxnRef, prints, gaveUp>>
  /\ UNCHANGED <<items, press, tender, cancelling, service>>

CancelCard ==
  /\ panel.phase = "in_flight"
  /\ asked' = asked \cup {<<"cancel", panel.txn>>}
  /\ UNCHANGED <<items, client, status, lines, paid, prints>>

-----------------------------------------------------------------------------
(* The result                                                                *)

\* The print agent's answer, good or bad, renders the dialog once more.
PrintSettled ==
  /\ printedTxnRef # NoSale
  /\ Render(panel)
  /\ UNCHANGED <<items, panel, press, tender, cancelling, poll, service, gaveUp>>

Done ==
  /\ panel.phase = "result"
  /\ items' = IF Success THEN {} ELSE items
  /\ reset({})
  /\ UNCHANGED <<press, tender, cancelling, poll, service>>

-----------------------------------------------------------------------------
(* The service, as the register meets it                                     *)

\* The handlers when one that waits for the answer has got it, if any does.
Replied(handler, s) ==
  LET waiting == {x \in DOMAIN handler : handler[x].at = "charging" /\ handler[x].sale = s}
  IN IF waiting = {} THEN {handler}
     ELSE {[handler EXCEPT ![x].at = "charged"] : x \in waiting}

Arrives(op, s) == <<op, s>> \in asked /\ asked' = asked \ {<<op, s>>}

ServeStart(h, s) ==
  /\ press[h].at = "starting"
  /\ status[s] = "none"
  /\ status' = [status EXCEPT ![s] = "AWAITING_PAYMENT"]
  /\ lines' = [lines EXCEPT ![s] = press[h].lines]
  /\ press' = [press EXCEPT ![h].sale = s, ![h].at = "started"]
  /\ UNCHANGED <<items, panel, tender, cancelling, poll, printedTxnRef, prints, gaveUp,
                 asked, paid>>

\* Only its own press charges a sale by card, and before any dialog can cancel
\* it.  The terminal may take the money although the service could not reach it.
\* An error status is an answer that PayFails stands for.
ServeCard(s) ==
  /\ <<"card", s>> \in asked
  /\ status[s] = "AWAITING_PAYMENT"
  /\ \/ /\ status' = [status EXCEPT ![s] = "PAYMENT_IN_FLIGHT"]
        /\ asked' = (asked \ {<<"card", s>>}) \cup {<<"poll", s>>}
        /\ press' \in Replied(press, s)
        /\ UNCHANGED paid
     \/ /\ status' = [status EXCEPT ![s] = "PAYMENT_FAILED"]
        /\ asked' = asked \ {<<"card", s>>}
        /\ paid' \in {paid, paid \cup {s}}
        /\ UNCHANGED press
  /\ UNCHANGED <<items, panel, tender, cancelling, poll, printedTxnRef, prints, gaveUp, lines>>

\* charge_cash answers when Sentry has; until then it refuses what it refuses
\* afterwards.
ServeCash(s) ==
  /\ Arrives("cash", s)
  /\ \/ /\ status[s] = "AWAITING_PAYMENT"
        /\ \E st \in {"COMPLETE", "INVENTORY_UPDATE_FAILED"} :
             status' = [status EXCEPT ![s] = st]
        /\ paid' = paid \cup {s}
        /\ tender' \in Replied(tender, s)
     \/ /\ status[s] # "AWAITING_PAYMENT"
        /\ UNCHANGED <<status, paid, tender>>
  /\ UNCHANGED <<items, panel, press, cancelling, poll, printedTxnRef, prints, gaveUp,
                 lines>>

\* A sale on the terminal is cancelled after Windcave's answer, whatever it has
\* become by then.
ServeCancel(s) ==
  /\ <<"cancel", s>> \in asked
  /\ \/ /\ status[s] = "AWAITING_PAYMENT"
        /\ status' = [status EXCEPT ![s] = "CANCELLED"]
        /\ asked' = asked \ {<<"cancel", s>>}
     \/ /\ status[s] = "PAYMENT_IN_FLIGHT"
        /\ asked' = (asked \ {<<"cancel", s>>}) \cup {<<"cancelled", s>>}
        /\ UNCHANGED status
     \/ /\ status[s] \in TERMINAL_STATUSES
        /\ asked' = asked \ {<<"cancel", s>>}
        /\ UNCHANGED status
  /\ UNCHANGED <<items, client, lines, paid, prints>>

WindcaveCancelled(s) ==
  /\ Arrives("cancelled", s)
  /\ status' = [status EXCEPT ![s] = "CANCELLED"]
  /\ UNCHANGED <<items, client, lines, paid, prints>>

\* The service's poller ends: at its deadline, declined, or paid.  At the
\* deadline the terminal may pay all the same.
PollerEnds(s) ==
  /\ Arrives("poll", s)
  /\ \/ /\ status' = [status EXCEPT ![s] = "PAYMENT_FAILED"]
        /\ paid' \in {paid, paid \cup {s}}
     \/ /\ paid' = paid \cup {s}
        /\ \E st \in {"COMPLETE", "INVENTORY_UPDATE_FAILED"} :
             status' = [status EXCEPT ![s] = st]
  /\ UNCHANGED <<items, client, lines, prints>>

RetrySentry(s) ==
  /\ status[s] = "INVENTORY_UPDATE_FAILED"
  /\ status' = [status EXCEPT ![s] = "COMPLETE"]
  /\ UNCHANGED <<items, client, lines, asked, paid, prints>>

-----------------------------------------------------------------------------

RegisterNext ==
  \/ \E i \in Items : Scan(i)
  \/ \E h \in Presses :
       \/ \E kind \in {"card", "cash"} : PressPay(h, kind)
       \/ StartAnswered(h) \/ CardAnswered(h) \/ PayFails(h)
       \/ \E s \in Sales : ServeStart(h, s)
  \/ \E d \in Tenders : Tender(d) \/ TenderAnswered(d) \/ TenderFails(d) \/ StatusFetched(d)
  \/ LeaveScreen \/ CancelTender \/ CancelSettled
  \/ PollSent \/ PollAnswered \/ CancelCard
  \/ PrintSettled \/ Done
  \/ \E s \in Sales :
       \/ ServeCard(s) \/ ServeCash(s) \/ ServeCancel(s)
       \/ WindcaveCancelled(s) \/ PollerEnds(s) \/ RetrySentry(s)

RegisterSpec == RegisterInit /\ [][RegisterNext]_registervars

\* The query asks at its interval, and one of its requests is answered.
RegisterFairSpec == RegisterSpec /\ WF_registervars(PollSent) /\ WF_registervars(PollAnswered)

-----------------------------------------------------------------------------

Statuses == {"none", "AWAITING_PAYMENT", "PAYMENT_IN_FLIGHT"} \cup TERMINAL_STATUSES

Panels == [phase : {"idle", "in_flight", "tendering_cash", "result"},
           txn : Sales \cup {NoSale}, status : Statuses, receipt : BOOLEAN,
           of : Sales \cup {NoSale}]
PressStates == [at : {"idle", "starting", "started", "charging", "charged"},
                kind : {"card", "cash"}, lines : SUBSET Items,
                sale : Sales \cup {NoSale}, here : BOOLEAN]
TenderStates == [at : {"idle", "charging", "charged", "fetching"},
                 sale : Sales \cup {NoSale}, here : BOOLEAN]

\* The store is idle without a sale, the dialogs have one (store/checkout.ts).
PanelOK(p) ==
  /\ p \in Panels
  /\ p.phase = "idle" => p = Idle
  /\ p.phase \in {"in_flight", "tendering_cash"} => p.txn # NoSale

RegisterTypeOK ==
  /\ items \subseteq Items
  /\ PanelOK(panel)
  /\ press \in [Presses -> PressStates]
  /\ \A h \in Presses :
       press[h].at \in {"started", "charging", "charged"} => press[h].sale # NoSale
  /\ tender \in [Tenders -> TenderStates]
  /\ \A d \in Tenders : tender[d].at # "idle" => tender[d].sale # NoSale
  /\ cancelling \in Sales \cup {NoSale}
  /\ poll \in Sales \cup {NoSale}
  /\ printedTxnRef \in Sales \cup {NoSale}
  /\ status \in [Sales -> Statuses]
  /\ lines \in [Sales -> SUBSET Items]
  /\ asked \subseteq {"card", "cash", "cancel", "cancelled", "poll"} \X Sales
  /\ paid \subseteq Sales
  /\ prints \in [Sales -> Nat]
  /\ gaveUp \subseteq Items

\* "Sale complete" is shown only of a sale whose money was taken, also when
\* the status could not be fetched and the dialog assumes it
\* (CashTenderModal.tsx handleTender).
SuccessIsPaid == Success => panel.of \in paid

\* One visit of the screen prints a sale's receipt, and opens the drawer for
\* it, at most once, however often the store is written or the dialog is
\* rendered, and whichever handler comes back late (PaymentResult.tsx).
PrintedOnce == \A s \in Sales : prints[s] <= 1

\* The register takes money twice for one item only after it gave a sale of the
\* item up: it showed a failure, cancelled it, the screen was left while the
\* payment was being started, or a handler that came back late took the sale from
\* the screen and left its items in the cart (PayPanel.tsx canPay).
OnePaymentPerItem ==
  \A s1, s2 \in paid : s1 # s2 => lines[s1] \cap lines[s2] \subseteq gaveUp

Overdue ==
  panel.phase = "in_flight" /\ status[panel.txn] \in TERMINAL_STATUSES

\* A card dialog does not stay up over a sale that has ended, in whatever way
\* (PaymentInFlight.tsx).
InFlightFollows == Overdue ~> ~ Overdue

-----------------------------------------------------------------------------
(* Why the safety properties hold: an induction over the steps.              *)

\* A sale that has come to a success, and a charge that was answered, are paid.
PaidFor ==
  /\ \A s \in Sales : status[s] \in {"COMPLETE", "INVENTORY_UPDATE_FAILED"} => s \in paid
  /\ \A d \in Tenders : tender[d].at \in {"charged", "fetching"} => tender[d].sale \in paid
  /\ SuccessIsPaid

\* Where a sale is in the register: with the press that started it, with the
\* dialog or the poll of a card payment, or with the dialog or a press of a cash
\* payment.
Holds(h, s) == press[h].at \in {"started", "charging", "charged"} /\ press[h].sale = s
Held(s) == \E h \in Presses : Holds(h, s)
ByCard(s) == poll = s \/ (panel.phase = "in_flight" /\ panel.txn = s)
ByCash(s) ==
  \/ panel.phase = "tendering_cash" /\ panel.txn = s
  \/ \E d \in Tenders : tender[d].at # "idle" /\ tender[d].sale = s
Answered(d, s) == tender[d].at \in {"charged", "fetching"} /\ tender[d].sale = s
Settled(s) == status[s] \notin {"none", "AWAITING_PAYMENT"}

\* Its receipt is printed, or will be when the screen is left and entered again.
Printed(s) == prints[s] > 0 \/ (Success /\ panel.receipt /\ panel.of = s)

\* A sale is in one of the three places at a time, and in none before it exists.
OnePlace ==
  /\ \A h1, h2 \in Presses, s \in Sales : Holds(h1, s) /\ Holds(h2, s) => h1 = h2
  /\ \A s \in Sales :
       /\ Held(s) => ~ ByCard(s) /\ ~ ByCash(s)
       /\ ~ (ByCard(s) /\ ByCash(s))
       /\ status[s] = "none" => ~ Held(s) /\ ~ ByCard(s) /\ ~ ByCash(s)

\* One press of the tender button is answered for a sale, and settles it.
AnsweredOnce ==
  /\ \A d \in Tenders, s \in Sales : Answered(d, s) => Settled(s)
  /\ \A d, e \in Tenders, s \in Sales : Answered(d, s) /\ Answered(e, s) => d = e

\* A sale whose receipt is printed has nobody left who could show it again.
PrintedForGood ==
  \A s \in Sales : Printed(s) =>
    /\ Settled(s) /\ ~ Held(s) /\ ~ ByCard(s)
    /\ \A d \in Tenders : ~ Answered(d, s)

\* The ref of PaymentResult names the receipt on the screen.
RefNamesReceipt ==
  Success /\ panel.receipt /\ panel.txn # NoSale => printedTxnRef = panel.txn

\* An item that was not given up is in one sale, or on its way to one, and its
\* press is pending or its sale on the screen as long as it is in the cart.
LinesAlone(i) ==
  /\ \A s1, s2 \in Sales : i \in lines[s1] /\ i \in lines[s2] => s1 = s2
  /\ \A h1, h2 \in Presses :
       press[h1].at # "idle" /\ press[h2].at # "idle"
         /\ i \in press[h1].lines /\ i \in press[h2].lines => h1 = h2
  /\ \A h \in Presses, s \in Sales :
       press[h].at = "starting" /\ i \in press[h].lines => i \notin lines[s]

Blocked(i) ==
  /\ \A h \in Presses : press[h].at # "idle" /\ i \in press[h].lines => press[h].here
  /\ \A s \in Sales : i \in items /\ i \in lines[s] => Held(s) \/ OnScreen(s)

NotTwice ==
  /\ \A h \in Presses, s \in Sales : Holds(h, s) => lines[s] = press[h].lines
  /\ \A i \in Items \ gaveUp : LinesAlone(i) /\ Blocked(i)

RegisterInv ==
  /\ RegisterTypeOK /\ PaidFor
  /\ OnePlace /\ AnsweredOnce /\ PrintedForGood /\ RefNamesReceipt /\ PrintedOnce
  /\ NotTwice

=============================================================================
