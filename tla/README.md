# Formal model of the Hightower POS

TLA+ modules for the parts of this repository where money, stock and records
can come apart: the payment of a sale, its refund, the till, the outbox to
Fabric, the calls to Windcave and Sentry, the users, the price cache, the print
agent, and of the register its cart and its payment dialogs. TLC checks them on
small instances; TLAPS proves every safety property of the runs, and every refinement,
for every value of the constants.

## The system

The POS service (`pos_service/`) is one FastAPI process with one SQLite
database. `async def` routes, their background tasks and two loops share one
event loop: code between two awaits is atomic, and anything may happen at an
await. Plain `def` routes run in a thread pool: their query and their commit
are separate steps. Every request has its own database session, no row carries
a version, and a commit writes the columns the request assigned. That is the
source of most hazards below: **what a handler read before an await is used
after it, and the write goes over whatever the row has become.**

| Component | State | Operations | Talks to |
|---|---|---|---|
| Sale checkout (`services/checkout.py`, `routes/checkout.py`) | `pos_transactions` rows of type sale | start, charge cash, charge card, poll, cancel, status | Sentry (validate, create order), Windcave, till, outbox |
| Refunds (`services/refund.py`, `routes/refunds.py`) | rows of type refund, the sale's `refund_transaction_id` | lookup, start, charge, poll, cancel, status | the same |
| Reconciliation (`services/reconciliation.py`, `routes/admin.py`, `cli.py`) | the same rows | retry one, retry all failed | Sentry |
| Till (`services/till.py`, `routes/till.py`) | `till_sessions` rows, `till_session_id` of transactions | open, close, current, attribute, history | close report PDF |
| Fabric outbox (`services/fabric_outbox.py`, `routes/admin.py`) | `fabric_outbox` rows | enqueue, drain loop, admin retry | Fabric |
| Prices (`services/pricing.py`, `services/fabric_price_sync.py`) | `pos_prices`, import audit | CSV import, sync loop, lookup | Fabric |
| Users (`auth.py`, `routes/auth.py`, `routes/admin_users.py`) | users, sessions | login, logout, create, deactivate, reset, change password | till |
| Clients (`clients/*.py`) | none | HTTP calls with attempts and timeouts | Windcave, Sentry, Fabric |
| Print agent (`print_agent/`) | one printer handle, last print time | print, drawer, status, tray reconnect | USB printer |
| Register (`desktop_client/src`) | cart, checkout, refund, customer and bookmark stores | scan, split, pay, poll, refund, open and close till | POS service, print agent |
| Close reports (`services/till_pdf.py`, `routes/till.py`) | one PDF file per till, its path in the row | render after a close, render again, stream | till |
| Receipts, item, customer and health routes | none | formatting, proxying | Sentry, Fabric |

What makes each correct:

- *Checkout*: stock moves only for money; a COMPLETE sale has an order and an
  outbox row; cash is accepted once; a sale being worked on comes to rest.
- *Refunds*: the same for money that goes back, and one cash refund per sale.
- *Reconciliation*: completes only what Sentry has, from a list that goes stale.
- *Till*: one open till per cashier, no attribution lost, reports that add up and
  say what the row says.
- *Outbox*: delivered means delivered, nothing is given up early, every entry
  settles.
- *Prices*: what was priced stays priced, and Fabric's catalogue arrives.
- *Cart*: the sale charges what the cart showed, or a price has changed.
- *Users*: somebody can always log in; a deactivated user's session is dead.
- *Print agent*: a receipt comes out whole, its answer is true, and the drawer opens
  after it.
- *Register*: the screen shows the sale it started, and a retry does not charge
  twice.

The hard behaviours are overlapping requests on one row, a background poller
that races a cancel or a retry, calls whose answer is lost after the work was
done, jobs that die with the process, a thread that races the event loop, and
the worker's batches. `PROJECT.json` lists each hazard with its line.

## Modules

| Module | What it is |
|---|---|
| `SaleLedger` | the abstract promise of the sale path: money, then the order, then event and stamp in one step |
| `Checkout` | the sale path and the sale half of reconciliation; `Ledger` maps it onto `SaleLedger` |
| `RefundLedger` | the abstract promise of the refund path: money, then the stock, then event, stamp and the sale's reference |
| `Refund` | the refund path and the refund half of reconciliation; `Ledger` maps it onto `RefundLedger` |
| `Till` | till sessions and attribution |
| `TillReport` | extends `Till` by the file of the close report |
| `FabricOutbox` | outbox rows, the worker and the admin retry |
| `RemoteCall` | what a handler may count on when it awaits Windcave or Sentry |
| `ServiceClient` | the attempt loops of the two clients; `Promise` maps it onto `RemoteCall` |
| `Users` | users, their sessions and passwords |
| `PriceTable` | what the rest of the service may count on of the table of prices |
| `Prices` | the sync loop and the CSV import; a refinement of `PriceTable` |
| `Cart` | the register's cart and the start of its sale, over any `PriceTable` |
| `PricedCart` | `Cart` and `Prices` over one table: the composition that the proofs relate to both |
| `PrintAgent` | the print agent with its printer, lock and drawer |
| `Register` | the register's payment dialogs and store, over the sales of the service |
| `MC...` | an instance of each for TLC; the `.cfg` files give the constants |
| `CheckoutProofs`, `RefundProofs`, `TillProofs`, `FabricOutboxProofs`, `ServiceClientProofs`, `UsersProofs`, `PrintAgentProofs`, `RegisterProofs` | theorems and their proofs |

Definitions named *Mutant of X* are wrong variants of X that no specification
uses: each property is known to fail when one of them takes X's place.

### Checkout

`row[t]` is the sale's database row (status, payment method, whether it has an
order id). A *job* is a request, background poller or retry suspended at an
await; `job[j].at` names the await: `validate` and `sentry` (calls to Sentry),
`charge`, `poll`, `cancel` (calls to Windcave or the sleep of the poller),
`resend` (a retry). Each handler is cut at its awaits: `ChargeCard` reads the
guard and suspends; `ChargeCardFailed`, `ChargeCardPending` and
`ChargeCardComplete` are the three ways it goes on, and none of them looks at
the status again, as in the code. `charge_cash` has no await before its commit
and is one action. `_finalize_card_charge` is the operator `FinalizeCardCharge`,
used by the charge and by the poll; it hands over to the `sentry` await, where
`SentryAccepted` writes status, order id, stamp and outbox row in one commit.
`cli` is the `retry-failed-sales` command, a process of its own with a list it
read once. A route's background task runs in the slot of its request.

Outside the code: `terminal[t]` is Windcave's session for the `TxnRef` of a
sale, `orders[t]` Sentry's order under its idempotency key. Both may do the
work although the client saw an error. `cash` and `orphaned` are history
variables that no action reads. `JobDies` is the end of the process or an
exception no handler catches (the clients catch timeouts and connection
errors; other transport errors and rejected payloads escape).

### Refund

The same vocabulary. `refund[r].parent` is the sale, `link[s]` the sale row's
`refund_transaction_id`. `Refundable` is the gate of lookup and start; it looks
at `REFUND_BLOCKING_STATES` only. The sales are COMPLETE and in the refund
window. `cancel_refund` does not call Windcave and is one action. `RefundLedger` leaves
out statuses, jobs and the command; it says when money may go back, when Sentry may hold
an order, and what is written together. That a cancelled refund's money may still go back at
the terminal is in it (`PayCard` has no guard but the sale's kind), as it is in the code.

### Till

`OpenTill`/`InsertSession` and `CloseTill`/`CloseSession` are the query and the
commit of the two thread-pool routes; `AttributeTransaction`/`CommitAttribution`
those of the attribution, of which the event loop runs one at a time. The
partial unique index of migration 0004 is the guard in `InsertSession`: it lets
the second insert fail. Amounts are integers in cents and a refund's are
negative, as `start_refund` stores them. `raced` remembers the tills that got an
attribution while a close of them was under way or done.

### TillReport

`till` and `thread` are those of `Till`. `pen[w]` is the rendering a pool thread is
at: the refresh of the row, the document (with the row as it was read), the open
file, the path to store. `CloseAndRender` is `CloseSession` and the hand-over to
`_try_render_pdf`; `Download` is `session_pdf` where no file is found (one that is
there is streamed as it is, which changes nothing). `OpenFile` and `WriteFile` are
the canvas's `save`, which empties the file before it writes it. `FileLost` is
somebody deleting a file, which the route expects. `reclosed` and `spoiled` are
history variables that no action reads. Every step leaves `Till`'s variables alone
or is a step of `Till` (`ReportsLeaveTillsAlone`), so one run answers for both.

### FabricOutbox

`worker` is the drain pass: the entry being sent and those still to send.
`ClaimDue` puts a batch IN_FLIGHT in one commit. `StartWrite` posts the next entry;
Fabric may take a payload without its answer arriving, so both `MarkDelivered`
and `MarkFailed` may follow any post, and what bounds the orders Fabric may book
twice is the number of posts (`sends`, a history variable, as is `renewed`, the admin
retries written to the entry). The dates of the schedule are reduced to
"due or not" (`BackoffEnds`). `PassEnds` is an exception that only `run_loop`
catches; `Restart` is the process stopping. The admin retry is a read and a
write by a pool thread, and its commit leaves `attempt_count` alone if it read 0: a
row that was given up meanwhile then has one more attempt, not a schedule. A retry
written while the worker posts the entry is settled by that post if it is confirmed.

### ServiceClient

`call[c]` is one `await` of `charge`, `refund`, `create_pos_so` or
`create_pos_refund`: waiting for the response to its current attempt, sleeping
before the next, or ended. `wire` holds posted requests that have not arrived;
a request may arrive after its attempt timed out, and one call may be served
several times. A 4xx ends the call, a 5xx or a network error backs off (also
after the last attempt), any other transport error escapes. `Serve` is external:
the other side is taken to do the work of a key once and to refuse only keys it
has not done. This is what `TxnRef` and `idempotency_key` are sent for; if it were
otherwise, no loop of this shape could be right.

`Promise` shows that the loops implement `RemoteCall`: an answer means that the
work is done, and a failure means nothing. `Checkout` and `Refund` use the clients
so: `SentryAccepted` needs an order, a failure allows one. They let the terminal
start or Sentry book only while a caller waits. A request that arrives later
loses no behaviour by this: it moves before the give-up, which reads nothing it
changes.

### Users

The routes are plain functions on the thread pool. Each is cut between the load
of its row (for a deactivation, also the count of active users) and its commit, since a bcrypt hash
takes long enough for another request to pass; `thread[k]` holds what was read.
The commit updates only columns whose value differs from the loaded one
(SQLAlchemy's unit of work), which `WritesMust` says of `must_change_password`.
Expiry deletes a session like a logout, as far as `get_auth` can tell. `outdated`
and `crossed` are history variables that no action reads.

### PriceTable and Prices

`unit_price_cents` is the table; `Upsert` sets the prices of some items in one
commit and leaves the rest. `Prices` has its two writers: the sync loop, whose
catalogue is on its way (`FabricAnswers`) while imports commit, and `ImportCsv`. Both
run on the event loop and have no await between the parsing and the commit. What a file
or a catalogue contains is any set of prices; a pass that fails changes nothing.
`stamped` is what `updated_at` says, `overridden` a history variable.

### Cart

`answer[p]` is the lookup of the scan input or of the bookmarks that is on its way,
`cart` the store's lines, `sale` what `start_checkout` computed of each line. The
service prices every line again. `HalfEven` and `HalfUp` are the two roundings of
a line's tax, in thousandths of a cent; the rate is the default 0.081, at which the
product of a tie (an amount of 500 more than a multiple of 1000) is exact in floating point,
so `Math.round` decides it as the decimal number would. `repriced` is a history variable.
`Cart` knows of the prices only that they are a `PriceTable`, which `Prices` implements.
`PricedCart` puts the two together, as they share an event loop: a step of it is one of the
price cache, which the cart only notes in `repriced`, or one of the register, which leaves the
price cache alone. The theorem `CartOverPrices` says that it is both.

### PrintAgent

`printer` is the global handle, `lock[p]` the lock of handle `p`. A request takes the
handle when it arrives and keeps it, so after the tray's "Reconnect printer" two locks
guard one device. `at[r]` is the driver call a request is in, the lock it waits for, or
its reconnect; any driver call works, raises or never returns, and one that fails may have done
its work. `open_usb` passes no timeout to python-escpos, whose default waits for ever, so
a printer that takes no more data can hold a thread inside `with self._lock` (`Hangs`). A
request in "hung" keeps its lock until the process ends; the tray's reconnect gives later
requests another lock, and does not free those that wait. A call that returned counts as paper
printed or drawer opened: the agent knows no more, and neither do the properties.
`strip` is the text on the paper since the last cut, `slips` the pieces cut off, `copies`
and `kicks` what each request has done to paper and drawer, `replaced` a history
variable. `Restart` is the tray's quit or the end of the process. A test print, at start or
from the tray, is a request nobody waits for. `is_online` sends its query without
the lock, which can fall between the bytes of a text; `SlipsAreWhole` is about whose text is on
a slip and does not see it; `_last_print_at` and the check of the origin
are left out, and `cut` is true, as every caller has it. The answer 503 of an agent without a
printer is not reached once `main` has started.

### Register

`items` is the cart, reduced to what is in it. `panel` is the store `useCheckout` (and, as `of`, the sale whose result it shows:
`finished` keeps the `transactionId` whatever sale the answer is of). `press[h]`
and `tender[d]` are the async functions `handleCard`/`handleCash` and
`handleTender`, suspended at a request; `at` names it, and "started" and
"charged" mean that the answer has reached the browser. They write the store when
they come back, whatever it shows by then. `here` is `isPending`, which a newly
mounted component does not inherit: `LeaveScreen` is the settings or login screen
and back. The flag takes effect with the press; in the browser the buttons follow with the
next rendering, and two presses before it are not modelled. `Show` is a write of the store with the rendering it causes, in which
`PaymentResult` prints. A poll stays outstanding until one is answered, since the
query repeats it; an answer reports the status at the time it is handled.
`prints` and `gaveUp` are history variables that no action reads. `gaveUp` collects the
items of a sale that leaves the screen while they stay in the cart: a failure is shown, it is
cancelled, the screen is left during a payment, or a handler that comes back late shows another sale
or none in its place (`Displaced`, of the sale that is `OnScreen`).

The service is `status`, `lines`, `paid` and `asked`, the requests that have not
arrived: one may arrive after the register gave it up. `ServeCash` merges the
charge and the Sentry write, between which the service only refuses. A card sale
is paid, if at all, when its poller ends or its charge fails; the register cannot
see the moment. The attached customer, amounts and the refund dialogs are left
out, and so is a reload of the page, which forgets the stores.

## Runs

| Run | Instance | What it shows |
|---|---|---|
| `checkout` | 1 sale, 3 jobs, 2 polls | `CompleteIsOrdered`, `CompleteIsPublished`, `CashOnce`; `WorkEnds` and `CashReachesFabric` under fairness; `KeepsLedger`: it implements `SaleLedger` |
| `refund` | a cash and a card sale, 2 refund rows, 2 jobs, 1 poll | `OrderOnlyAfterPayout`, `CashRefundedOnce`, `CompleteIsPublished`; `WorkEnds` under fairness; `KeepsLedger`: it implements `RefundLedger` |
| `till` | 1 cashier, 2 tills, 1 cash refund, 2 threads, 1 lost file | `OneOpenTill`, `TalliesAreComplete`, `CloseReportAddsUp` of `Till`; `ReportIsCurrent`, `ReportIsWhole` of `TillReport` |
| `fabric_outbox` | 3 entries, batches of 2, 2 attempts, 2 threads, 2 admin retries | `ResendsAreBounded`, `GivenUpAfterSchedule`, `InFlightIsOwned`, and `EntrySettles` under fairness |
| `service_client` | a charge, and two Sentry calls with one key; 2 attempts | `FailsEarlyOnlyOnReply`; `CallEnds` under fairness; `KeepsPromise`: it implements `RemoteCall` |
| `users` | 3 users, 1 session, 2 threads | `SomeoneCanLogIn`, `DeactivatedForGood`, `TempPasswordIsForced` |
| `register` | 1 item, 2 sales, 2 presses of a pay button and 1 of the tender button under way | `SuccessIsPaid`, `PrintedOnce`, `OnePaymentPerItem`, and `InFlightFollows` under fairness |
| `cart` | a taxable item and another, 2 prices (one with a tie), 2 bins, 2 lines of up to 2 pieces | `ScannedIsPayable`, `ChargedAsShown` |
| `prices` | 2 items, 2 prices, 3 changes of the catalogue or imports | `StampNamesLastWrite`; `KeepsRows`: it implements `PriceTable`; `PricesCatchUp` under fairness |
| `print_agent` | 2 requests, 2 replacements of the printer or restarts | `SlipsAreWhole`, `OkMeansDone`, `DrawerAfterReceipt`, `AtMostTwice`, and `RequestEnds` under fairness |

The type invariants are proved and need no run.

Bounds. All the races are between jobs on *one* row, so one sale suffices; three
jobs let two charges overlap with a cancel or a retry, and the poll limit 2
gives a poll that waits, one that answers and the deadline. Two refund rows are
needed for a second refund of one sale. Two threads give overlapping opens,
closes and renderings, and a lost file lets a report be rendered again; one
cashier suffices, since tills of two cashiers share nothing but the loop. Three entries in batches of two leave one due entry outside the claim;
`MaxAttempts` 2 gives a retry and a dead letter (the code's 8 only makes the
run longer). Two Sentry calls with one key are a first write and its retry, and
2 attempts have a first, a last and a late arrival (the code's `MAX_RETRIES` is 3).
Three users allow two deactivations of different users by different users; one
session slot is enough, since threads keep what they have read. One item is enough
to be paid twice, by two sales of it; two presses overlap across a remount. Two requests to the print agent share a slip or do
not, and three handles give each a replacement of its own. Two lines of two pieces
merge, split and are edited; a price of $5.00 has 40.5 cents of tax, the tie above an even
number. One change can come before, during and after a fetch of the catalogue, and three do.
`MaxTimes`, `MaxLosses`, `MaxChanges`, `MaxHandles`, `MaxRetries` and the number of `Sessions` bound what
users do, never what the code does; `MaxQty` bounds a line. Deadlock is checked for `cart`
and `prices`, which never stop; in the others everything may have come to rest (all
sales settled, all tills used up, all requests answered, every user locked out).

Fairness. `WF_vars(Resume(j))`: every client call ends by its timeout and attempt
limit (`CallEnds` of `ServiceClient`, whose `WF_vars(Step(c))` is the timeout of one
attempt and of one sleep) and asyncio resumes the job. `WF_vars(WorkerStep)`: the drain loop sleeps a
fixed interval and starts again. `WF_vars(BackoffEnds(e))`: time passes. `WF_vars(PollSent)`
and `WF_vars(PollAnswered)` of `Register`: the status query has a fixed interval and
not all its answers are lost. `WF_vars(Step(r))` of `PrintAgent`: threads run, and a driver
call comes to one of its outcomes, of which never returning is one, so nothing is
assumed of the device; `RequestEnds` names the requests that such a call holds up (`Stuck`). `WF_vars(SyncWakes)` of `Prices`: the loop sleeps a fixed interval;
`SF_vars(FabricAnswers)` and `SF_vars(SyncUpserts)`: not every pass fails. `PricesCatchUp` is
the only property that assumes something of Fabric. Nothing
is assumed of customers, cashiers, admins, Windcave or Sentry, nor elsewhere of Fabric. What is
lost when a job or pass dies is not hidden: the liveness properties name
`orphaned` and `stranded` as the only exceptions.

### Where code and text disagree

Each of these runs checks one sentence of the repository and TLC finds a
counterexample.

| Run | Sentence | What happens |
|---|---|---|
| `complete_is_not_cancelled` | a complete sale cannot be cancelled (`tests/test_checkout.py`) | a cancel awaits Windcave, the poller completes the sale, the cancel writes CANCELLED over it |
| `till_refund_lowers_expected` | a cash refund lowers the expected closing (runbook) | it raises it: refund rows hold negative totals |

Others, seen in the models and without a run: failed and cancelled refunds are those
"where money never left the merchant" (`refund.py:41-43`), but the terminal may pay after
the cancel or the deadline, and the sale may be refunded again; entries "replay
automatically" (`fabric_outbox.py:9-11`), but one in flight when a pass ends early, or
the process stops, stays so, and the admin retry refuses it (`stranded`, the exception
`EntrySettles` names); the last active user's deactivation is refused
(`admin_users.py:111-112`), but two deactivations of different users both count two
(`outdated`, the exception `SomeoneCanLogIn` names); a retry completes a sale without
the outbox row that the README says every COMPLETE flip inserts, so Fabric never
gets that order id; with overlapping card jobs a paid sale whose Sentry write
failed can leave INVENTORY_UPDATE_FAILED, where the retry command looks; a
sale attributed while its till closes is in the tallies but not in the expected
amount (`raced`); the README's dead letter "at
attempt 9" is the eighth (`MAX_ATTEMPTS`); the later of two overlapping closes
replaces the count of a closed till; a sale that a retry completes is stamped
with no till; a reset of a password that loaded `must_change_password` as true
leaves the column to the user's own change, so the temporary password need not be
changed (`crossed`, the exception `TempPasswordIsForced` names).

Of prices and reports: a CSV import over a row that exists leaves its `updated_at`, which
the README says records the last write (`overridden`); a row whose price is NaN or
Infinity ends the import with an uncaught exception and the whole file is refused with 500; the
cart shows a tax one cent higher than the sale charges when it is half a cent over
an even number (`EvenTie`); a close report that is empty or cut short is streamed for good
when a rendering failed over the file of another, and while another has it
open (`spoiled`, the exceptions `ReportIsWhole` names).

In the register: a paid sale whose Sentry write failed is shown with "The cart is
preserved so you can retry", and so is a cash sale whose answer was lost; the retry
is a second sale of the same items (`gaveUp`). Escape closes the cash dialog while
the charge is awaited, and the cancel's `onSettled` (`CashTenderModal.tsx:83`) then resets
whatever is shown: the dialog or the success of the next sale too, whose items stay in the
cart and may be paid a second time (`gaveUp`).
After a remount over a shown success the receipt prints, and the drawer opens,
again. `Done` clears lines that were scanned while the payment was awaited.

## Proofs

The proof modules extend a component's module and TLAPS. Each first proves
`TypeOK`, one lemma per named part, one step per action.

- *CheckoutProofs.* The properties are not inductive: that an accepted order is
  paid for rests on what suspended jobs know. `Backed` adds it: every job at
  `sentry` or `resend`, and every sale on the command's list, is paid (and for a
  retry, published). This was true when it was read and stays true, because money,
  orders and events are never taken back; so writes from stale reads cannot break
  it. `OrderOnlyAfterPayment`, `CompleteIsOrdered`, `CompleteIsPublished` and
  `StampComesWithEvent` follow. `CashGuarded` carries `CashOnce`: a row leaves
  the unpaid statuses for good, and a sale under validation has one job.
  `CheckoutKeepsLedger` maps every step to a step of `SaleLedger` or a stutter.
  `WorkHeldAlways`: a sale in validation, in flight or paid, and cash not yet told to Fabric,
  has a job at the await that fits, unless one of the sale's jobs died. This is what `WorkEnds`
  and `CashReachesFabric` need of the state; the rest is fairness, that the job is resumed.
  `CompleteUndoneLate` says which writes can be the ones of the run
  `complete_is_not_cancelled`: those of a job that tested the status before it awaited
  Windcave or Sentry, never a poller, a retry, a validation or a cash charge.
- *TillProofs.* `ReadsAreCurrent` is the strengthening: what the loop has read of
  a till's tallies is still so when it commits, because only the loop writes
  tallies, and a thread's expected amount is current unless the till was raced.
  `ReportSpec` implies `Spec`, so all this holds with reports as well. For the reports,
  `PensCurrent` (what is being rendered is what the row says) and `RenderedWhole`
  (`ReportIsWhole` from the moment before the path is stored) are inductive with the
  facts that only closed tills are rendered and that a thread does one thing at a time.
- *FabricOutboxProofs.* `GivenUpAfterSchedule` and `InFlightIsOwned` are inductive with
  `TypeOK`. `ResendsAreBounded` is not: `SendsCovered` adds to the posts made those still
  to come (`ToCome`), which a post or a failure uses up, a delivery, the end of a pass or a
  restart forfeits, and a retry renews by at most a schedule; the allowance grows by one
  with each. `SendingOpen` (nobody but the worker settles the row it posts) is what the
  step of a failure needs, since a retry may have put that row back.
- *RefundProofs.* Step-shape lemmas first say once what any step can do to the rows,
  the jobs, the money and the records; the invariant proofs cite them. `Known` (an
  unused row is untouched everywhere) and `Backed` (a settled row, a write in hand
  and an accepted return have money behind them) are inductive together and give
  `OrderOnlyAfterPayout`, and `Published` (a settled refund and one that a retry has in
  hand are published) gives `CompleteIsPublished`. `CashGuarded` (a cash sale has one refund in a blocking
  status, a refund paid in cash stays settled, and no job of one waits on Windcave)
  gives `CashRefundedOnce`. `SaleNamesItsRefund` holds after each step from a
  state with the invariant. `RefundKeepsLedger` maps every step to a step of `RefundLedger`
  or a stutter, and shows what each part of the invariant is for: `CashGuarded` is the
  ledger's guard on the drawer, `TerminalIsCard` that on the terminal, `Backed` and
  `Published` those on Sentry's order and on the completions by a retry, and `Known` that a
  started refund never changes its sale. `WorkHeldAlways` is as in `CheckoutProofs`, for
  refunds in flight or paid and for cash paid back. `CompleteUndoneLate` is stronger than there:
  a COMPLETE refund of a cash sale is for good. `CashBooking` is what that needs: the job that
  paid the cash is the only one at Sentry about it and finds the row as it left it, and a retry
  takes it up only after that job.
- *ServiceClientProofs.* `Grounded` (a good reply and a request on its way have
  their ground) is what an answer rests on; with it every step of the loops is a
  step of `RemoteCall` or a stutter.
- *UsersProofs.* `Counted` (a deactivation under way has counted two) gives
  `SomeoneCanLogIn` by cardinality: if the count has not gone down, another active
  user remains. The other two properties follow step by step from `TypeOK`.
- *PrintAgentProofs.* The inductive invariant relates who holds a lock, whose text is on
  the paper and how far each request has come; the four safety properties are parts of it.
- *RegisterProofs.* Of `Prices`, `StampNamesLastWrite` is inductive with its types, and
  `KeepsRows` needs only that no write removes a row. Of `Cart`, what was
  looked up has a price, the same one unless `repriced`, and `TaxAsShown` is the arithmetic
  of the two roundings for every amount; together they give `ScannedIsPayable` and
  `ChargedAsShown`. `CartOverPrices`: `PricedSpec` implies both specifications, because every
  commit of the sync and of an import is a write that `Cart` is made for; `CartOfSyncedPrices`
  draws the conclusion for the properties of both. Of `Register`, `RegisterInv` says who may still write the store about a
  sale. `OnePlace`: a sale is with the press that started it, with the dialog and poll of a card
  payment, or with the dialog and presses of a cash payment, and in one of these at a
  time. `AnsweredOnce`: of several presses of the tender button one is answered.
  `PrintedForGood` rests on both: a printed sale is settled, and nobody who could
  show it again is left; with `RefNamesReceipt` (the ref of `PaymentResult` names the receipt
  on the screen) it gives `PrintedOnce`. `PaidFor` gives `SuccessIsPaid`, also for the
  success that is assumed when no status is to be had. `NotTwice` gives `OnePaymentPerItem`: an
  item that was not given up is in one sale (`LinesAlone`), because as long as it is in the
  cart its press is pending or its sale on the screen, so that no pay button works (`Blocked`).

Assumptions: the named ASSUMEs of the modules (a null value outside each set,
positive limits, prices in whole cents, finite entries with ordered creation times), which TLC evaluates.
Stated by a theorem and no run's property are `WorkIsHeld`, `OnlyLateAnswersUndo` (of
`Checkout` and of `Refund`) and what the proofs call an inductive invariant; TLC found
the first two, and `CashBooking`, true of the instances of the runs before they were
proved, and `PricedSpec` true to the properties of `Cart` and `Prices` for one line and two changes.
Only model-checked are the liveness properties (fairness and ENABLED are outside the
prover's reach): `WorkEnds`, `CashReachesFabric`, `EntrySettles`, `CallEnds`, `InFlightFollows`,
`PricesCatchUp`, `RequestEnds`.
Induction over data and RECURSIVE operators are outside it too; these modules
need neither.

## Not modelled

Of the register, the refund dialogs and the till modals, whose service side is
`Refund` and `Till`; of the routes, what only reads (till history, status, item search);
of the clients, reads and message fields. `Checkout` has one row per sale and
no lines, which are in `Cart`. The audit row of an import, the parsing of a file or
of a denomination sheet, the text of receipts and the layout of reports are computed
from one input and keep nothing that a later step reads. The customer and health
proxies have no state. Migrations and settings are left out but for the partial
unique index.

## Plan

Done: the modules above, their runs, and the proofs of every safety property and
refinement. Left:

1. The refund dialogs of the register (the text "No money moved" against a refund whose
   Sentry write failed) and its till modals, over `Refund` and `Till` as `Register` is
   over a sale.
2. `SaleToTill`, a composition of checkout, till and outbox, so that the stamp and the
   event of a sale are those modules' own steps.
