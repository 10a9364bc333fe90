-------------------------- MODULE CheckoutProofs --------------------------
(***************************************************************************)
(* Proofs about Checkout.tla, for any number of sales and of concurrent    *)
(* jobs.  Type correctness first; the other invariants assume it.          *)
(***************************************************************************)
EXTENDS Checkout, TLAPS

-----------------------------------------------------------------------------
(* Type correctness, one part of the state at a time                         *)

\* A status write keeps the rows well formed.
LEMMA StatusWrite ==
  ASSUME RowOK, NEW t \in Txns, NEW s \in Statuses, SetStatus(t, s)
  PROVE  RowOK'
  BY DEF RowOK, SetStatus

\* So does a write of status and payment method.
LEMMA MethodWrite ==
  ASSUME RowOK, NEW t \in Txns, NEW s \in Statuses, NEW m \in {"none", "cash", "card"},
         row' = [row EXCEPT ![t].status = s, ![t].method = m]
  PROVE  RowOK'
  BY DEF RowOK

\* So does a write of status and sales order id.
LEMMA OrderWrite ==
  ASSUME RowOK, NEW t \in Txns, NEW s \in Statuses,
         row' = [row EXCEPT ![t].status = s, ![t].so = TRUE]
  PROVE  RowOK'
  BY DEF RowOK

\* Suspending a job at an await on a sale, and returning, keep the slots well formed.
LEMMA SuspendJob ==
  ASSUME JobOK, NEW j \in Jobs, NEW p \in Points \ {"idle"}, NEW t \in Txns, Suspend(j, p, t)
  PROVE  JobOK'
  BY TxnsAssumption, PollsAssumption DEF JobOK, Suspend, At, Txn, Points

LEMMA ReturnJob ==
  ASSUME JobOK, NEW j \in Jobs, Return(j)
  PROVE  JobOK'
  BY PollsAssumption DEF JobOK, Return, Idle, At, Txn, Points

\* A suspended job works on a sale.
LEMMA SuspendedOnTxn ==
  ASSUME JobOK, NEW j \in Jobs, ~ At(j, "idle")
  PROVE  Txn(j) \in Txns
  BY DEF JobOK, At, Txn

\* The outcome of a card charge is one row write and one job change.
LEMMA FinalizeType ==
  ASSUME RowOK, JobOK, NEW j \in Jobs, NEW t \in Txns, FinalizeCardCharge(j, t)
  PROVE  RowOK' /\ JobOK'
  <1>1. CASE terminal[t] = "approved"
    <2>1. row' = [row EXCEPT ![t].status = "PAYMENT_SUCCESS", ![t].method = "card"]
          /\ Suspend(j, "sentry", t)
      BY <1>1 DEF FinalizeCardCharge
    <2>2. RowOK'
      BY <2>1, MethodWrite DEF Statuses
    <2>3. JobOK'
      BY <2>1, SuspendJob DEF Points
    <2> QED BY <2>2, <2>3
  <1>2. CASE terminal[t] # "approved"
    <2>1. row' = [row EXCEPT ![t].status = "PAYMENT_FAILED", ![t].method = "card"]
          /\ Return(j)
      BY <1>2 DEF FinalizeCardCharge
    <2>2. RowOK'
      BY <2>1, MethodWrite DEF Statuses, TERMINAL_STATUSES
    <2>3. JobOK'
      BY <2>1, ReturnJob
    <2> QED BY <2>2, <2>3
  <1> QED
    BY <1>1, <1>2

LEMMA TypeInit == Init => TypeOK
  <1> SUFFICES ASSUME Init PROVE TypeOK
    OBVIOUS
  <1>1. RowOK
    BY DEF Init, RowOK, Statuses
  <1>2. JobOK
    BY PollsAssumption DEF Init, JobOK, Points, Idle, At, Txn
  <1>3. CliOK /\ RecordsOK
    BY DEF Init, CliOK, RecordsOK
  <1> QED
    BY <1>1, <1>2, <1>3 DEF TypeOK

\* Every step keeps the rows well formed.
LEMMA TypeRow ==
  ASSUME TypeOK, [Next]_vars
  PROVE  RowOK'
  <1> USE DEF TypeOK
  <1>1. ASSUME NEW j \in Jobs, NEW t \in Txns, Request(j, t) PROVE RowOK'
    <2>1. CASE StartCheckout(j, t)
      BY <2>1, StatusWrite DEF StartCheckout, Statuses
    <2>2. CASE ChargeCash(j, t)
      BY <2>2, MethodWrite DEF ChargeCash, Statuses
    <2>3. CASE ChargeCard(j, t) \/ RetrySentry(j, t)
      BY <2>3 DEF ChargeCard, RetrySentry, db, RowOK
    <2>4. CASE CancelCheckout(j, t)
      <3>1. UNCHANGED row \/ SetStatus(t, "CANCELLED")
        BY <2>4 DEF CancelCheckout
      <3> QED BY <3>1, StatusWrite DEF Statuses, TERMINAL_STATUSES, RowOK
    <2> QED BY <1>1, <2>1, <2>2, <2>3, <2>4 DEF Request
  <1>2. ASSUME NEW j \in Jobs, Resume(j) PROVE RowOK'
    <2>0. Txn(j) \in Txns
      BY <1>2, SuspendedOnTxn
         DEF Resume, CartValidated, ChargeCardFailed, ChargeCardPending,
             ChargeCardComplete, PollAgain, PollComplete, PollTimeout, SentryAccepted,
             SentryFailed, CancelAnswered, RetryOneSale, At
    <2> DEFINE t == Txn(j)
    <2>1. CASE CartValidated(j)
      <3>1. PICK s \in {"AWAITING_PAYMENT", "VALIDATION_FAILED"} : SetStatus(t, s)
        BY <2>1 DEF CartValidated
      <3> QED BY <2>0, <3>1, StatusWrite DEF Statuses, TERMINAL_STATUSES
    <2>2. CASE ChargeCardFailed(j)
      BY <2>0, <2>2, StatusWrite DEF ChargeCardFailed, Statuses, TERMINAL_STATUSES
    <2>3. CASE ChargeCardPending(j)
      BY <2>0, <2>3, MethodWrite DEF ChargeCardPending, Statuses
    <2>4. CASE ChargeCardComplete(j)
      BY <2>0, <2>4, FinalizeType DEF ChargeCardComplete
    <2>5. CASE PollAgain(j)
      BY <2>5 DEF PollAgain, db, RowOK
    <2>6. CASE PollComplete(j)
      <3>1. FinalizeCardCharge(j, t) \/ UNCHANGED row
        BY <2>6 DEF PollComplete
      <3> QED BY <2>0, <3>1, FinalizeType DEF RowOK
    <2>7. CASE PollTimeout(j)
      <3>1. SetStatus(t, "PAYMENT_FAILED") \/ UNCHANGED row
        BY <2>7 DEF PollTimeout
      <3> QED BY <2>0, <3>1, StatusWrite DEF Statuses, TERMINAL_STATUSES, RowOK
    <2>8. CASE SentryAccepted(j)
      BY <2>0, <2>8, OrderWrite DEF SentryAccepted, Statuses, TERMINAL_STATUSES
    <2>9. CASE SentryFailed(j)
      BY <2>0, <2>9, StatusWrite DEF SentryFailed, Statuses, TERMINAL_STATUSES
    <2>10. CASE CancelAnswered(j)
      BY <2>0, <2>10, StatusWrite DEF CancelAnswered, Statuses, TERMINAL_STATUSES
    <2>11. CASE RetryOneSale(j)
      <3>1. Completed(t) \/ UNCHANGED row
        BY <2>11 DEF RetryOneSale
      <3> QED BY <2>0, <3>1, OrderWrite DEF Completed, Statuses, TERMINAL_STATUSES, RowOK
    <2> QED
      BY <1>2, <2>1, <2>2, <2>3, <2>4, <2>5, <2>6, <2>7, <2>8, <2>9, <2>10, <2>11
         DEF Resume
  <1>3. CASE RetryNextSale
    <2>1. cli.now \in Txns
      BY <1>3 DEF RetryNextSale, CliOK
    <2>2. Completed(cli.now) \/ UNCHANGED row
      BY <1>3 DEF RetryNextSale
    <2> QED BY <2>1, <2>2, OrderWrite DEF Completed, Statuses, TERMINAL_STATUSES, RowOK
  <1>4. ASSUME NEW j \in Jobs, JobDies(j) PROVE RowOK'
    BY <1>4 DEF JobDies, db, RowOK
  <1>5. ASSUME NEW t \in Txns, World(t) PROVE RowOK'
    BY <1>5 DEF World, TerminalStarts, TerminalDecides, SentryOrders, db, RowOK
  <1>6. CASE RetryFailedSales \/ RetryCommandStops \/ ToggleTill \/ UNCHANGED vars
    BY <1>6 DEF RetryFailedSales, RetryCommandStops, ToggleTill, vars, db, RowOK
  <1> QED
    BY <1>1, <1>2, <1>3, <1>4, <1>5, <1>6 DEF Next

\* A job that can be resumed is suspended, on a sale.
LEMMA ResumedOnTxn ==
  ASSUME JobOK, NEW j \in Jobs, Resume(j)
  PROVE  Txn(j) \in Txns
  BY SuspendedOnTxn
     DEF Resume, CartValidated, ChargeCardFailed, ChargeCardPending, ChargeCardComplete,
         PollAgain, PollComplete, PollTimeout, SentryAccepted, SentryFailed,
         CancelAnswered, RetryOneSale, At

\* Every step keeps the job slots well formed.
LEMMA TypeJob ==
  ASSUME TypeOK, [Next]_vars
  PROVE  JobOK'
  <1> USE DEF TypeOK
  <1>1. ASSUME NEW j \in Jobs, NEW t \in Txns, Request(j, t) PROVE JobOK'
    <2>1. \/ \E p \in Points \ {"idle"} : Suspend(j, p, t)
          \/ UNCHANGED job
      BY <1>1 DEF Request, StartCheckout, ChargeCash, ChargeCard, CancelCheckout,
                  RetrySentry, Points
    <2> QED BY <2>1, SuspendJob DEF JobOK, At, Txn
  <1>2. ASSUME NEW j \in Jobs, Resume(j) PROVE JobOK'
    <2>0. Txn(j) \in Txns
      BY <1>2, ResumedOnTxn
    <2>1. CASE ChargeCardPending(j)
      BY <2>0, <2>1, SuspendJob DEF ChargeCardPending, Points
    <2>2. CASE ChargeCardComplete(j)
      BY <2>0, <2>2, FinalizeType DEF ChargeCardComplete
    <2>3. CASE PollAgain(j)
      BY <2>3, PollsAssumption DEF PollAgain, JobOK, At, Txn
    <2>4. CASE PollComplete(j)
      <3>1. FinalizeCardCharge(j, Txn(j)) \/ Return(j)
        BY <2>4 DEF PollComplete
      <3> QED BY <2>0, <3>1, FinalizeType, ReturnJob
    <2>5. CASE \/ CartValidated(j) \/ ChargeCardFailed(j) \/ PollTimeout(j)
               \/ SentryAccepted(j) \/ SentryFailed(j) \/ CancelAnswered(j)
               \/ RetryOneSale(j)
      <3>1. Return(j)
        BY <2>5 DEF CartValidated, ChargeCardFailed, PollTimeout, SentryAccepted,
                    SentryFailed, CancelAnswered, RetryOneSale
      <3> QED BY <3>1, ReturnJob
    <2> QED BY <1>2, <2>1, <2>2, <2>3, <2>4, <2>5 DEF Resume
  <1>3. ASSUME NEW j \in Jobs, JobDies(j) PROVE JobOK'
    BY <1>3, ReturnJob DEF JobDies
  <1>4. ASSUME NEW t \in Txns, World(t) PROVE JobOK'
    BY <1>4 DEF World, TerminalStarts, TerminalDecides, SentryOrders, JobOK, At, Txn
  <1>5. CASE RetryFailedSales \/ RetryNextSale \/ RetryCommandStops
    BY <1>5 DEF RetryFailedSales, RetryNextSale, RetryCommandStops, JobOK, At, Txn
  <1>6. CASE ToggleTill \/ UNCHANGED vars
    BY <1>6 DEF ToggleTill, vars, JobOK, At, Txn
  <1> QED
    BY <1>1, <1>2, <1>3, <1>4, <1>5, <1>6 DEF Next

\* Every step keeps the retry command's list well formed.
LEMMA TypeCli ==
  ASSUME TypeOK, [Next]_vars
  PROVE  CliOK'
  <1> USE DEF TypeOK
  <1>1. ASSUME NEW todo \in SUBSET Txns, CliNext(todo) PROVE CliOK'
    BY <1>1 DEF CliNext, CliOK
  <1>2. CASE RetryFailedSales
    BY <1>1, <1>2 DEF RetryFailedSales
  <1>3. CASE RetryNextSale
    <2>1. cli.todo \in SUBSET Txns
      BY DEF CliOK
    <2> QED BY <1>1, <1>3, <2>1 DEF RetryNextSale
  <1>4. CASE RetryCommandStops
    BY <1>4 DEF RetryCommandStops, CliOK
  <1>5. CASE UNCHANGED cli
    BY <1>5 DEF CliOK
  <1>6. \/ RetryFailedSales \/ RetryNextSale \/ RetryCommandStops
        \/ UNCHANGED cli
    BY DEF Next, Request, Resume, World, vars, StartCheckout, ChargeCash, ChargeCard,
           CancelCheckout, RetrySentry, CartValidated, ChargeCardFailed,
           ChargeCardPending, ChargeCardComplete, PollAgain, PollComplete, PollTimeout,
           SentryAccepted, SentryFailed, CancelAnswered, RetryOneSale, JobDies,
           TerminalStarts, TerminalDecides, SentryOrders, ToggleTill
  <1> QED
    BY <1>2, <1>3, <1>4, <1>5, <1>6

\* The jobs' steps other than those that write these records leave them alone.
LEMMA TypeRecords ==
  ASSUME TypeOK, [Next]_vars
  PROVE  RecordsOK'
  <1> USE DEF TypeOK
  <1>1. ASSUME NEW j \in Jobs, NEW t \in Txns, Request(j, t) PROVE RecordsOK'
    <2>1. CASE ChargeCash(j, t)
      BY <2>1 DEF ChargeCash, RecordsOK
    <2>2. CASE ~ ChargeCash(j, t)
      BY <1>1, <2>2 DEF Request, StartCheckout, ChargeCard, CancelCheckout, RetrySentry,
                        db, RecordsOK
    <2> QED BY <2>1, <2>2
  <1>2. ASSUME NEW j \in Jobs, Resume(j) PROVE RecordsOK'
    <2>0. Txn(j) \in Txns
      BY <1>2, ResumedOnTxn
    <2>1. CASE SentryAccepted(j)
      BY <2>0, <2>1 DEF SentryAccepted, AttributeTransaction, RecordsOK
    <2>2. CASE SentryFailed(j)
      BY <2>0, <2>2 DEF SentryFailed, RecordsOK
    <2>3. CASE ~ SentryAccepted(j) /\ ~ SentryFailed(j)
      BY <1>2, <2>3
         DEF Resume, CartValidated, ChargeCardFailed, ChargeCardPending,
             ChargeCardComplete, PollAgain, PollComplete, PollTimeout, CancelAnswered,
             RetryOneSale, db, RecordsOK
    <2> QED BY <2>1, <2>2, <2>3
  <1>3. ASSUME NEW j \in Jobs, JobDies(j) PROVE RecordsOK'
    <2>1. Txn(j) \in Txns
      BY <1>3, SuspendedOnTxn DEF JobDies
    <2> QED BY <1>3, <2>1 DEF JobDies, db, RecordsOK
  <1>4. ASSUME NEW t \in Txns, World(t) PROVE RecordsOK'
    BY <1>4 DEF World, TerminalStarts, TerminalDecides, SentryOrders, db, RecordsOK
  <1>5. CASE RetryFailedSales \/ RetryNextSale \/ RetryCommandStops
    BY <1>5 DEF RetryFailedSales, RetryNextSale, RetryCommandStops, db, RecordsOK
  <1>6. CASE ToggleTill \/ UNCHANGED vars
    BY <1>6 DEF ToggleTill, vars, db, RecordsOK
  <1> QED
    BY <1>1, <1>2, <1>3, <1>4, <1>5, <1>6 DEF Next

\* Type correctness of every reachable state: the rows hold only statuses of the
\* state machine, the job slots only sales, the retry list only sales.
THEOREM TypeCorrect == Spec => []TypeOK
  <1>1. TypeOK /\ [Next]_vars => TypeOK'
    BY TypeRow, TypeJob, TypeCli, TypeRecords DEF TypeOK
  <1> QED
    BY <1>1, TypeInit, PTL DEF Spec

-----------------------------------------------------------------------------
(* Money, orders and events                                                  *)

\* What a job learnt stays true: no step takes back money, an order or an event.
LEMMA Monotone ==
  ASSUME TypeOK, [Next]_vars, NEW t \in Txns
  PROVE  /\ Paid(t) => Paid(t)'
         /\ Published(t) => Published(t)'
         /\ orders[t] => orders'[t]
  <1> USE DEF TypeOK, RecordsOK, Paid, Published
  <1>1. ASSUME NEW j \in Jobs, NEW u \in Txns, ChargeCash(j, u)
        PROVE  Paid(t) => Paid(t)'
    BY <1>1 DEF ChargeCash
  <1>2. ASSUME NEW j \in Jobs, SentryAccepted(j) \/ SentryFailed(j)
        PROVE  Published(t) => Published(t)'
    <2>1. Txn(j) \in Txns
      BY <1>2, SuspendedOnTxn DEF SentryAccepted, SentryFailed, At
    <2> QED BY <1>2, <2>1 DEF SentryAccepted, SentryFailed
  <1>3. ASSUME NEW u \in Txns, World(u)
        PROVE  (Paid(t) => Paid(t)') /\ (orders[t] => orders'[t])
    BY <1>3 DEF World, TerminalStarts, TerminalDecides, SentryOrders
  <1>4. \/ \E j \in Jobs, u \in Txns : ChargeCash(j, u)
        \/ UNCHANGED cash
    BY DEF Next, Request, Resume, World, vars, StartCheckout, ChargeCard,
           CancelCheckout, RetrySentry, CartValidated, ChargeCardFailed,
           ChargeCardPending, ChargeCardComplete, PollAgain, PollComplete, PollTimeout,
           SentryAccepted, SentryFailed, CancelAnswered, RetryOneSale, JobDies,
           TerminalStarts, TerminalDecides, SentryOrders, ToggleTill, RetryFailedSales,
           RetryNextSale, RetryCommandStops
  <1>5. \/ \E j \in Jobs : SentryAccepted(j) \/ SentryFailed(j)
        \/ UNCHANGED events
    BY DEF Next, Request, Resume, World, vars, StartCheckout, ChargeCash, ChargeCard,
           CancelCheckout, RetrySentry, CartValidated, ChargeCardFailed,
           ChargeCardPending, ChargeCardComplete, PollAgain, PollComplete, PollTimeout,
           CancelAnswered, RetryOneSale, JobDies, TerminalStarts, TerminalDecides,
           SentryOrders, ToggleTill, RetryFailedSales, RetryNextSale, RetryCommandStops,
           db
  <1>6. \/ \E u \in Txns : World(u)
        \/ UNCHANGED <<terminal, orders>>
    BY DEF Next, Request, Resume, vars, StartCheckout, ChargeCash, ChargeCard,
           CancelCheckout, RetrySentry, CartValidated, ChargeCardFailed,
           ChargeCardPending, ChargeCardComplete, PollAgain, PollComplete, PollTimeout,
           SentryAccepted, SentryFailed, CancelAnswered, RetryOneSale, JobDies,
           ToggleTill, RetryFailedSales, RetryNextSale, RetryCommandStops
  <1>7. Published(t) => Published(t)'
    BY <1>2, <1>5
  <1>8. orders[t] => orders'[t]
    BY <1>3, <1>6
  <1>9. Paid(t) => Paid(t)'
    BY <1>1, <1>3, <1>4, <1>6 DEF ChargeCash, World, TerminalStarts, TerminalDecides, SentryOrders
  <1> QED BY <1>7, <1>8, <1>9

LEMMA BackedInit == Init => Backed
  BY DEF Init, Backed, SafeRow, SafeJob, CliSales, Idle, At

\* A step that neither writes a row nor stamps a till keeps every row backed.
LEMMA RowsKept ==
  ASSUME TypeOK, Backed, [Next]_vars, UNCHANGED row, UNCHANGED stamps, UNCHANGED events,
         \A t \in Txns : orders'[t] => Paid(t)'
  PROVE  \A t \in Txns : SafeRow(t)'
  BY Monotone DEF Backed, SafeRow

\* A step that writes one row keeps the others backed.
LEMMA OtherRows ==
  ASSUME TypeOK, Backed, [Next]_vars, NEW t \in Txns,
         UNCHANGED orders,
         \A u \in Txns \ {t} : row'[u] = row[u] /\ stamps'[u] = stamps[u] /\ events'[u] = events[u],
         SafeRow(t)'
  PROVE  \A u \in Txns : SafeRow(u)'
  BY Monotone DEF Backed, SafeRow

\* A job that is not resumed, or that returns, still knows what it knew.
LEMMA JobsKept ==
  ASSUME TypeOK, Backed, [Next]_vars,
         \A j \in Jobs : job'[j] = job[j] \/ job'[j].at \notin {"sentry", "resend"}
  PROVE  \A j \in Jobs : SafeJob(j)'
  <1> SUFFICES ASSUME NEW j \in Jobs, job'[j].at \in {"sentry", "resend"} PROVE SafeJob(j)'
    BY DEF SafeJob, At
  <1>1. job'[j] = job[j]
    OBVIOUS
  <1>2. Txn(j) \in Txns
    BY <1>1, SuspendedOnTxn DEF TypeOK, At
  <1> QED
    BY <1>1, <1>2, Monotone DEF Backed, SafeJob, At, Txn

\* A job that suspends on a backed sale is backed.
LEMMA JobSuspended ==
  ASSUME TypeOK, Backed, [Next]_vars, NEW j \in Jobs, NEW p \in Points, NEW t \in Txns,
         Suspend(j, p, t),
         p \in {"sentry", "resend"} => Paid(t)',
         p = "resend" => Published(t)'
  PROVE  \A k \in Jobs : SafeJob(k)'
  <1>1. \A k \in Jobs \ {j} : job'[k] = job[k]
    BY DEF Suspend, TypeOK, JobOK
  <1>2. job'[j] = [at |-> p, txn |-> t, polls |-> 0]
    BY DEF Suspend, TypeOK, JobOK
  <1>3. SafeJob(j)'
    BY <1>2 DEF SafeJob, At, Txn
  <1>4. ASSUME NEW k \in Jobs \ {j}, job'[k].at \in {"sentry", "resend"} PROVE SafeJob(k)'
    <2>1. job'[k] = job[k]
      BY <1>1
    <2>2. Txn(k) \in Txns
      BY <1>4, <2>1, SuspendedOnTxn DEF TypeOK, At
    <2> QED BY <2>1, <2>2, Monotone DEF Backed, SafeJob, At, Txn
  <1> QED
    BY <1>3, <1>4 DEF SafeJob, At

\* The list of the retry command keeps its backing while it shrinks.
LEMMA CliKept ==
  ASSUME TypeOK, Backed, [Next]_vars, CliSales' \subseteq CliSales
  PROVE  \A t \in CliSales' : (Paid(t) /\ Published(t))'
  <1>1. CliSales \subseteq Txns
    BY DEF TypeOK, CliOK, CliSales
  <1> QED
    BY <1>1, Monotone DEF Backed

\* The common case: one row written, nothing else but the job that writes it.
LEMMA RowWritten ==
  ASSUME TypeOK, Backed, [Next]_vars, NEW j \in Jobs, NEW t \in Txns,
         \A u \in Txns \ {t} : row'[u] = row[u],
         UNCHANGED <<cli, stamps, events, orders>>,
         SafeRow(t)',
         \/ Return(j)
         \/ \E p \in Points : /\ Suspend(j, p, t)
                              /\ p \in {"sentry", "resend"} => Paid(t)'
                              /\ p = "resend" => Published(t)'
  PROVE  Backed'
  <1>1. \A u \in Txns : SafeRow(u)'
    BY OtherRows
  <1>2. \A k \in Jobs : SafeJob(k)'
    <2>1. CASE Return(j)
      <3>1. \A k \in Jobs : job'[k] = job[k] \/ job'[k].at \notin {"sentry", "resend"}
        BY <2>1 DEF Return, Idle, TypeOK, JobOK
      <3> QED BY <3>1, JobsKept
    <2>2. CASE \E p \in Points : /\ Suspend(j, p, t)
                                 /\ p \in {"sentry", "resend"} => Paid(t)'
                                 /\ p = "resend" => Published(t)'
      BY <2>2, JobSuspended
    <2> QED BY <2>1, <2>2
  <1>3. \A u \in CliSales' : (Paid(u) /\ Published(u))'
    BY CliKept DEF CliSales
  <1> QED
    BY <1>1, <1>2, <1>3 DEF Backed

\* A row that goes to a status of no claim stays backed.
LEMMA PlainStatus ==
  ASSUME TypeOK, Backed, [Next]_vars, NEW t \in Txns, UNCHANGED <<stamps, events, orders>>,
         row'[t].so = row[t].so,
         row'[t].status \notin {"PAYMENT_SUCCESS", "INVENTORY_UPDATE_FAILED", "COMPLETE"}
  PROVE  SafeRow(t)'
  BY Monotone DEF Backed, SafeRow

\* What a write of one row leaves in the table.
LEMMA WroteStatus ==
  ASSUME RowOK, NEW t \in Txns, NEW s \in Statuses, SetStatus(t, s)
  PROVE  /\ row'[t].status = s /\ row'[t].so = row[t].so
         /\ \A u \in Txns \ {t} : row'[u] = row[u]
  BY DEF RowOK, SetStatus

LEMMA WroteMethod ==
  ASSUME RowOK, NEW t \in Txns, NEW s \in Statuses, NEW m \in {"none", "cash", "card"},
         row' = [row EXCEPT ![t].status = s, ![t].method = m]
  PROVE  /\ row'[t].status = s /\ row'[t].so = row[t].so
         /\ \A u \in Txns \ {t} : row'[u] = row[u]
  BY DEF RowOK

LEMMA WroteOrder ==
  ASSUME RowOK, NEW t \in Txns, NEW s \in Statuses,
         row' = [row EXCEPT ![t].status = s, ![t].so = TRUE]
  PROVE  /\ row'[t].status = s /\ row'[t].so
         /\ \A u \in Txns \ {t} : row'[u] = row[u]
  BY DEF RowOK

\* A write of a status of no claim by a job that returns.
LEMMA PlainReturn ==
  ASSUME TypeOK, Backed, [Next]_vars, NEW j \in Jobs, NEW t \in Txns, NEW s \in Statuses,
         SetStatus(t, s) \/ UNCHANGED row,
         s \notin {"PAYMENT_SUCCESS", "INVENTORY_UPDATE_FAILED", "COMPLETE"},
         Return(j), UNCHANGED <<cli, stamps, events, orders>>
  PROVE  Backed'
  <1>1. CASE SetStatus(t, s)
    BY <1>1, WroteStatus, PlainStatus, RowWritten DEF TypeOK
  <1>2. CASE UNCHANGED row
    <2>1. SafeRow(t)'
      BY <1>2, Monotone DEF Backed, SafeRow
    <2> QED BY <1>2, <2>1, RowWritten
  <1> QED BY <1>1, <1>2

\* The outcome of a card charge: approval backs both the row and the job.
LEMMA FinalizeBacked ==
  ASSUME TypeOK, Backed, [Next]_vars, NEW j \in Jobs, NEW t \in Txns,
         FinalizeCardCharge(j, t), UNCHANGED <<cli, stamps, events, terminal, orders>>
  PROVE  Backed'
  <1>1. CASE terminal[t] = "approved"
    <2>1. row' = [row EXCEPT ![t].status = "PAYMENT_SUCCESS", ![t].method = "card"]
          /\ Suspend(j, "sentry", t)
      BY <1>1 DEF FinalizeCardCharge
    <2>2. Paid(t)'
      BY <1>1 DEF Paid
    <2>3. /\ row'[t].status = "PAYMENT_SUCCESS" /\ row'[t].so = row[t].so
          /\ \A u \in Txns \ {t} : row'[u] = row[u]
      BY <2>1, WroteMethod DEF TypeOK, Statuses
    <2>4. SafeRow(t)'
      BY <2>2, <2>3, Monotone DEF Backed, SafeRow
    <2> QED
      BY <2>1, <2>2, <2>3, <2>4, RowWritten DEF Points
  <1>2. CASE terminal[t] # "approved"
    <2>1. row' = [row EXCEPT ![t].status = "PAYMENT_FAILED", ![t].method = "card"]
          /\ Return(j)
      BY <1>2 DEF FinalizeCardCharge
    <2>2. /\ row'[t].status = "PAYMENT_FAILED" /\ row'[t].so = row[t].so
          /\ \A u \in Txns \ {t} : row'[u] = row[u]
      BY <2>1, WroteMethod DEF TypeOK, Statuses, TERMINAL_STATUSES
    <2> QED
      BY <2>1, <2>2, PlainStatus, RowWritten
  <1> QED BY <1>1, <1>2

\* A retry completes a sale only when Sentry has its order.
LEMMA CompletedBacked ==
  ASSUME TypeOK, Backed, [Next]_vars, NEW t \in Txns, Completed(t), orders[t], Published(t),
         UNCHANGED <<stamps, events, orders>>
  PROVE  /\ SafeRow(t)'
         /\ \A u \in Txns \ {t} : row'[u] = row[u]
  <1>1. /\ row'[t].status = "COMPLETE" /\ row'[t].so
        /\ \A u \in Txns \ {t} : row'[u] = row[u]
    BY WroteOrder DEF Completed, TypeOK, Statuses, TERMINAL_STATUSES
  <1> QED
    BY <1>1, Monotone DEF Backed, SafeRow

LEMMA BackedRequest ==
  ASSUME TypeOK, Backed, [Next]_vars, NEW j \in Jobs, NEW t \in Txns, Request(j, t)
  PROVE  Backed'
  <1> USE DEF TypeOK
  <1>1. CASE StartCheckout(j, t)
    <2>1. SetStatus(t, "PENDING_VALIDATION") /\ Suspend(j, "validate", t)
          /\ UNCHANGED <<cli, stamps, events, orders>>
      BY <1>1 DEF StartCheckout
    <2>2. /\ row'[t].status = "PENDING_VALIDATION" /\ row'[t].so = row[t].so
          /\ \A u \in Txns \ {t} : row'[u] = row[u]
      BY <2>1, WroteStatus DEF Statuses
    <2> QED BY <2>1, <2>2, PlainStatus, RowWritten DEF Points
  <1>2. CASE ChargeCash(j, t)
    <2>1. row' = [row EXCEPT ![t].status = "PAYMENT_SUCCESS", ![t].method = "cash"]
          /\ Suspend(j, "sentry", t) /\ UNCHANGED <<cli, stamps, events, orders>>
      BY <1>2 DEF ChargeCash
    <2>2. Paid(t)'
      BY <1>2 DEF ChargeCash, Paid, RecordsOK
    <2>3. /\ row'[t].status = "PAYMENT_SUCCESS" /\ row'[t].so = row[t].so
          /\ \A u \in Txns \ {t} : row'[u] = row[u]
      BY <2>1, WroteMethod DEF Statuses
    <2>4. SafeRow(t)'
      BY <2>1, <2>2, <2>3 DEF Backed, SafeRow
    <2> QED BY <2>1, <2>2, <2>3, <2>4, RowWritten DEF Points
  <1>3. CASE ChargeCard(j, t)
    <2>1. Suspend(j, "charge", t) /\ UNCHANGED <<cli, row, stamps, events, orders>>
      BY <1>3 DEF ChargeCard, db
    <2>2. SafeRow(t)'
      BY <2>1, Monotone DEF Backed, SafeRow
    <2> QED BY <2>1, <2>2, RowWritten DEF Points
  <1>4. CASE CancelCheckout(j, t)
    <2>1. \/ SetStatus(t, "CANCELLED") /\ UNCHANGED job
          \/ Suspend(j, "cancel", t) /\ UNCHANGED row
      BY <1>4 DEF CancelCheckout
    <2>2. UNCHANGED <<cli, stamps, events, orders>>
      BY <1>4 DEF CancelCheckout
    <2>3. CASE SetStatus(t, "CANCELLED") /\ UNCHANGED job
      <3>1. /\ row'[t].status = "CANCELLED" /\ row'[t].so = row[t].so
            /\ \A u \in Txns \ {t} : row'[u] = row[u]
        BY <2>3, WroteStatus DEF Statuses, TERMINAL_STATUSES
      <3>2. \A u \in Txns : SafeRow(u)'
        BY <2>2, <3>1, PlainStatus, OtherRows
      <3>3. \A k \in Jobs : SafeJob(k)'
        BY <2>3, JobsKept
      <3>4. \A u \in CliSales' : (Paid(u) /\ Published(u))'
        BY <2>2, CliKept DEF CliSales
      <3> QED BY <3>2, <3>3, <3>4 DEF Backed
    <2>4. CASE Suspend(j, "cancel", t) /\ UNCHANGED row
      <3>1. SafeRow(t)'
        BY <2>2, <2>4, Monotone DEF Backed, SafeRow
      <3> QED BY <2>2, <2>4, <3>1, RowWritten DEF Points
    <2> QED BY <2>1, <2>3, <2>4
  <1>5. CASE RetrySentry(j, t)
    <2>1. Suspend(j, "resend", t) /\ UNCHANGED <<cli, row, stamps, events, orders>>
      BY <1>5 DEF RetrySentry, db
    <2>2. SafeRow(t)'
      BY <2>1, Monotone DEF Backed, SafeRow
    <2>3. Paid(t)' /\ Published(t)'
      BY <1>5, Monotone DEF RetrySentry, Backed, SafeRow
    <2> QED BY <2>1, <2>2, <2>3, RowWritten DEF Points
  <1> QED BY <1>1, <1>2, <1>3, <1>4, <1>5 DEF Request

LEMMA BackedResume ==
  ASSUME TypeOK, Backed, [Next]_vars, NEW j \in Jobs, Resume(j)
  PROVE  Backed'
  <1> USE DEF TypeOK
  <1>0. PICK t \in Txns : Txn(j) = t
    BY ResumedOnTxn
  <1>1. CASE CartValidated(j)
    <2>1. PICK s \in {"AWAITING_PAYMENT", "VALIDATION_FAILED"} : SetStatus(t, s)
      BY <1>0, <1>1 DEF CartValidated
    <2>2. Return(j) /\ UNCHANGED <<cli, stamps, events, orders>>
      BY <1>0, <1>1 DEF CartValidated
    <2> QED BY <1>0, <2>1, <2>2, PlainReturn DEF Statuses, TERMINAL_STATUSES
  <1>2. CASE ChargeCardFailed(j)
    <2>1. SetStatus(t, "PAYMENT_FAILED") /\ Return(j)
          /\ UNCHANGED <<cli, stamps, events, orders>>
      BY <1>0, <1>2 DEF ChargeCardFailed
    <2> QED BY <1>0, <2>1, PlainReturn DEF Statuses, TERMINAL_STATUSES
  <1>3. CASE ChargeCardPending(j)
    <2>1. row' = [row EXCEPT ![t].status = "PAYMENT_IN_FLIGHT", ![t].method = "card"]
          /\ Suspend(j, "poll", t) /\ UNCHANGED <<cli, stamps, events, orders>>
      BY <1>0, <1>3 DEF ChargeCardPending
    <2>2. /\ row'[t].status = "PAYMENT_IN_FLIGHT" /\ row'[t].so = row[t].so
          /\ \A u \in Txns \ {t} : row'[u] = row[u]
      BY <1>0, <2>1, WroteMethod DEF Statuses
    <2>3. SafeRow(t)'
      BY <1>0, <2>1, <2>2, PlainStatus
    <2> QED BY <1>0, <2>1, <2>2, <2>3, RowWritten DEF Points
  <1>4. CASE ChargeCardComplete(j)
    BY <1>0, <1>4, FinalizeBacked DEF ChargeCardComplete
  <1>5. CASE PollAgain(j)
    <2>1. UNCHANGED <<cli, row, stamps, events, terminal, orders, cash>>
      BY <1>0, <1>5 DEF PollAgain, db
    <2>2. \A k \in Jobs : job'[k] = job[k] \/ job'[k].at \notin {"sentry", "resend"}
      BY <1>0, <1>5 DEF PollAgain, JobOK, At
    <2>3. \A u \in Txns : SafeRow(u)'
      BY <2>1, Monotone DEF Backed, SafeRow
    <2>4. \A u \in CliSales' : (Paid(u) /\ Published(u))'
      BY <2>1, CliKept DEF CliSales
    <2> QED BY <2>2, <2>3, <2>4, JobsKept DEF Backed
  <1>6. CASE PollComplete(j)
    <2>1. UNCHANGED <<cli, stamps, events, terminal, orders>>
      BY <1>0, <1>6 DEF PollComplete
    <2>2. FinalizeCardCharge(j, t) \/ (Return(j) /\ UNCHANGED row)
      BY <1>0, <1>6 DEF PollComplete
    <2> QED
      BY <1>0, <2>1, <2>2, FinalizeBacked, PlainReturn DEF Statuses, TERMINAL_STATUSES
  <1>7. CASE PollTimeout(j)
    <2>1. SetStatus(t, "PAYMENT_FAILED") \/ UNCHANGED row
      BY <1>0, <1>7 DEF PollTimeout
    <2>2. Return(j) /\ UNCHANGED <<cli, stamps, events, orders>>
      BY <1>0, <1>7 DEF PollTimeout
    <2> QED BY <1>0, <2>1, <2>2, PlainReturn DEF Statuses, TERMINAL_STATUSES
  <1>8. CASE SentryAccepted(j)
    <2>1. orders[t] /\ Paid(t)
      BY <1>0, <1>8 DEF SentryAccepted, Backed, SafeJob, At
    <2>2. /\ row'[t].status = "COMPLETE" /\ row'[t].so
          /\ \A u \in Txns \ {t} : row'[u] = row[u]
      BY <1>0, <1>8, WroteOrder DEF SentryAccepted, Statuses, TERMINAL_STATUSES
    <2>3. /\ events'[t].booked = events[t].booked + 1
          /\ events'[t].unbooked = events[t].unbooked
          /\ stamps'[t] \in {stamps[t], stamps[t] + 1}
          /\ \A u \in Txns \ {t} : stamps'[u] = stamps[u] /\ events'[u] = events[u]
      BY <1>0, <1>8 DEF SentryAccepted, AttributeTransaction, RecordsOK
    <2>4. UNCHANGED <<cli, orders>> /\ Return(j)
      BY <1>0, <1>8 DEF SentryAccepted
    <2>5. SafeRow(t)'
      <3>1. stamps[t] <= events[t].booked /\ stamps[t] \in Nat /\ events[t].booked \in Nat
            /\ events[t].unbooked \in Nat
        BY <1>0 DEF Backed, SafeRow, RecordsOK
      <3>2. Paid(t)'
        BY <1>0, <2>1, Monotone
      <3>3. Published(t)'
        BY <2>3, <3>1 DEF Published
      <3>4. stamps'[t] <= events'[t].booked
        BY <2>3, <3>1
      <3> QED BY <2>1, <2>2, <2>4, <3>2, <3>3, <3>4 DEF SafeRow
    <2>6. \A u \in Txns : SafeRow(u)'
      BY <1>0, <2>2, <2>3, <2>4, <2>5, OtherRows
    <2>7. \A k \in Jobs : job'[k] = job[k] \/ job'[k].at \notin {"sentry", "resend"}
      BY <2>4 DEF Return, Idle, JobOK
    <2>8. \A u \in CliSales' : (Paid(u) /\ Published(u))'
      BY <2>4, CliKept DEF CliSales
    <2> QED BY <2>6, <2>7, <2>8, JobsKept DEF Backed
  <1>9. CASE SentryFailed(j)
    <2>1. Paid(t)'
      BY <1>0, <1>9, Monotone DEF SentryFailed, Backed, SafeJob, At
    <2>2. /\ row'[t].status = "INVENTORY_UPDATE_FAILED" /\ row'[t].so = row[t].so
          /\ \A u \in Txns \ {t} : row'[u] = row[u]
      BY <1>0, <1>9, WroteStatus DEF SentryFailed, Statuses, TERMINAL_STATUSES
    <2>3. /\ events'[t].booked = events[t].booked
          /\ events'[t].unbooked = events[t].unbooked + 1
          /\ \A u \in Txns \ {t} : events'[u] = events[u]
      BY <1>0, <1>9 DEF SentryFailed, RecordsOK
    <2>4. UNCHANGED <<cli, stamps, orders>> /\ Return(j)
      BY <1>0, <1>9 DEF SentryFailed
    <2>5. SafeRow(t)'
      <3>1. Published(t)'
        BY <1>0, <2>3 DEF Published, RecordsOK
      <3> QED BY <1>0, <2>1, <2>2, <2>3, <2>4, <3>1 DEF Backed, SafeRow
    <2>6. \A u \in Txns : SafeRow(u)'
      BY <1>0, <2>2, <2>3, <2>4, <2>5, OtherRows
    <2>7. \A k \in Jobs : job'[k] = job[k] \/ job'[k].at \notin {"sentry", "resend"}
      BY <2>4 DEF Return, Idle, JobOK
    <2>8. \A u \in CliSales' : (Paid(u) /\ Published(u))'
      BY <2>4, CliKept DEF CliSales
    <2> QED BY <2>6, <2>7, <2>8, JobsKept DEF Backed
  <1>10. CASE CancelAnswered(j)
    <2>1. SetStatus(t, "CANCELLED") /\ Return(j) /\ UNCHANGED <<cli, stamps, events, orders>>
      BY <1>0, <1>10 DEF CancelAnswered
    <2> QED BY <1>0, <2>1, PlainReturn DEF Statuses, TERMINAL_STATUSES
  <1>11. CASE RetryOneSale(j)
    <2>1. Return(j) /\ UNCHANGED <<cli, stamps, events, orders>>
      BY <1>0, <1>11 DEF RetryOneSale
    <2>2. CASE orders[t] /\ Completed(t)
      <3>1. Published(t)
        BY <1>0, <1>11 DEF RetryOneSale, Backed, SafeJob, At
      <3> QED BY <1>0, <2>1, <2>2, <3>1, CompletedBacked, RowWritten
    <2>3. CASE UNCHANGED row
      BY <1>0, <2>1, <2>3, PlainReturn DEF Statuses, TERMINAL_STATUSES
    <2> QED BY <1>0, <1>11, <2>2, <2>3 DEF RetryOneSale
  <1> QED
    BY <1>1, <1>2, <1>3, <1>4, <1>5, <1>6, <1>7, <1>8, <1>9, <1>10, <1>11 DEF Resume

\* The steps of the retry command, of a death and of the world outside.
LEMMA BackedRest ==
  ASSUME TypeOK, Backed, [Next]_vars,
         \/ RetryFailedSales \/ RetryNextSale \/ RetryCommandStops \/ ToggleTill
         \/ (\E j \in Jobs : JobDies(j))
         \/ (\E t \in Txns : World(t))
         \/ UNCHANGED vars
  PROVE  Backed'
  <1> USE DEF TypeOK
  <1>1. CASE RetryFailedSales
    <2>1. UNCHANGED <<row, stamps, events, orders, job>>
      BY <1>1 DEF RetryFailedSales, db
    <2>2. CliSales' \subseteq {t \in Txns : row[t].status = "INVENTORY_UPDATE_FAILED"}
      BY <1>1 DEF RetryFailedSales, CliNext, CliSales
    <2>3. \A t \in CliSales' : (Paid(t) /\ Published(t))'
      BY <2>2, Monotone DEF Backed, SafeRow
    <2>4. \A t \in Txns : SafeRow(t)'
      BY <2>1, Monotone DEF Backed, SafeRow
    <2> QED BY <2>1, <2>3, <2>4, JobsKept DEF Backed
  <1>2. CASE RetryNextSale
    <2>1. cli.now \in CliSales /\ cli.now \in Txns
      BY <1>2 DEF RetryNextSale, CliSales, CliOK
    <2>2. UNCHANGED <<stamps, events, orders, job>>
      BY <1>2 DEF RetryNextSale
    <2>3. CliSales' \subseteq CliSales
      BY <1>2 DEF RetryNextSale, CliNext, CliSales
    <2>4. \A t \in CliSales' : (Paid(t) /\ Published(t))'
      BY <2>3, CliKept
    <2>5. \A t \in Txns : SafeRow(t)'
      <3>1. CASE orders[cli.now] /\ Completed(cli.now)
        BY <2>1, <2>2, <3>1, CompletedBacked, OtherRows DEF Backed
      <3>2. CASE UNCHANGED row
        BY <2>2, <3>2, Monotone DEF Backed, SafeRow
      <3> QED BY <1>2, <3>1, <3>2 DEF RetryNextSale
    <2> QED BY <2>2, <2>4, <2>5, JobsKept DEF Backed
  <1>3. CASE RetryCommandStops
    <2>1. UNCHANGED <<row, stamps, events, orders, job>>
      BY <1>3 DEF RetryCommandStops, db
    <2>2. CliSales' = {}
      BY <1>3 DEF RetryCommandStops, CliSales
    <2>3. \A t \in Txns : SafeRow(t)'
      BY <2>1, Monotone DEF Backed, SafeRow
    <2> QED BY <2>1, <2>2, <2>3, JobsKept DEF Backed
  <1>4. ASSUME NEW j \in Jobs, JobDies(j) PROVE Backed'
    <2>1. UNCHANGED <<cli, row, stamps, events, orders>> /\ Return(j)
      BY <1>4 DEF JobDies, db
    <2>2. \A k \in Jobs : job'[k] = job[k] \/ job'[k].at \notin {"sentry", "resend"}
      BY <2>1 DEF Return, Idle, JobOK
    <2>3. \A t \in Txns : SafeRow(t)'
      BY <2>1, Monotone DEF Backed, SafeRow
    <2>4. \A t \in CliSales' : (Paid(t) /\ Published(t))'
      BY <2>1, CliKept DEF CliSales
    <2> QED BY <2>2, <2>3, <2>4, JobsKept DEF Backed
  <1>5. ASSUME NEW u \in Txns, World(u) PROVE Backed'
    <2>1. UNCHANGED <<cli, row, stamps, events, job, cash>>
      BY <1>5 DEF World, TerminalStarts, TerminalDecides, SentryOrders, db
    <2>2. ASSUME NEW t \in Txns, orders'[t] PROVE Paid(t)'
      <3>1. CASE orders[t]
        BY <3>1, Monotone DEF Backed, SafeRow
      <3>2. CASE ~ orders[t]
        <4>1. SentryOrders(u) /\ u = t
          BY <1>5, <2>2, <3>2
             DEF World, TerminalStarts, TerminalDecides, SentryOrders, RecordsOK
        <4>2. Paid(t)
          BY <4>1, TxnsAssumption DEF SentryOrders, Backed, SafeJob, CliSales, CliOK
        <4> QED BY <4>2, Monotone
      <3> QED BY <3>1, <3>2
    <2>3. \A t \in Txns : SafeRow(t)'
      BY <2>1, <2>2, Monotone DEF Backed, SafeRow
    <2>4. \A t \in CliSales' : (Paid(t) /\ Published(t))'
      BY <2>1, CliKept DEF CliSales
    <2> QED BY <2>1, <2>3, <2>4, JobsKept DEF Backed
  <1>6. CASE ToggleTill \/ UNCHANGED vars
    BY <1>6 DEF ToggleTill, vars, db, Backed, SafeRow, SafeJob, CliSales, Paid,
                Published, At, Txn
  <1> QED
    BY <1>1, <1>2, <1>3, <1>4, <1>5, <1>6

LEMMA BackedNext == TypeOK /\ Backed /\ [Next]_vars => Backed'
  BY BackedRequest, BackedResume, BackedRest DEF Next

THEOREM BackedAlways == Spec => []Backed
  BY BackedInit, BackedNext, TypeCorrect, PTL DEF Spec

\* Stock moves only for money, whatever requests, pollers, retries and deaths overlap.
THEOREM OrdersArePaid == Spec => []OrderOnlyAfterPayment
  <1>1. Backed => OrderOnlyAfterPayment
    BY DEF Backed, SafeRow, OrderOnlyAfterPayment
  <1> QED BY <1>1, BackedAlways, PTL

\* A COMPLETE row carries an order id that Sentry gave.
THEOREM CompleteSalesAreOrdered == Spec => []CompleteIsOrdered
  <1>1. Backed => CompleteIsOrdered
    BY DEF Backed, SafeRow, CompleteIsOrdered
  <1> QED BY <1>1, BackedAlways, PTL

\* Every COMPLETE sale has reached the outbox, retried ones included.
THEOREM CompleteSalesArePublished == Spec => []CompleteIsPublished
  <1>1. Backed => CompleteIsPublished
    BY DEF Backed, SafeRow, CompleteIsPublished
  <1> QED BY <1>1, BackedAlways, PTL

\* No till counts a sale more often than Fabric hears of its order.
THEOREM StampsComeWithEvents == Spec => []StampComesWithEvent
  <1>1. Backed => StampComesWithEvent
    BY DEF Backed, SafeRow, StampComesWithEvent
  <1> QED BY <1>1, BackedAlways, PTL

-----------------------------------------------------------------------------
(* Checkout implements SaleLedger: each step pays, orders or publishes, or   *)
(* is invisible there.                                                       *)

LEMMA LedgerInit == Init => Ledger!Init
  <1> SUFFICES ASSUME Init PROVE Ledger!Init
    OBVIOUS
  <1>1. \A t \in Txns : Paid(t) = FALSE
    BY DEF Init, Paid
  <1>2. [t \in Txns |-> Paid(t)] = [t \in Txns |-> FALSE]
    BY <1>1, Zenon
  <1> QED
    BY <1>2 DEF Init, Ledger!Init

\* Steps that touch neither money nor orders, events or stamps.
LEMMA LedgerStutter ==
  ASSUME UNCHANGED <<cash, terminal, orders, events, stamps>>
  PROVE  UNCHANGED Ledger!vars
  BY DEF Ledger!vars, Paid

\* A step by which sale t, and no other, becomes or stays paid.
LEMMA LedgerPays ==
  ASSUME TypeOK, NEW t \in Txns, Paid(t)', UNCHANGED <<orders, events, stamps>>,
         \A u \in Txns \ {t} : Paid(u)' <=> Paid(u)
  PROVE  Ledger!Pay(t)
  BY DEF Ledger!Pay, Paid

LEMMA LedgerStep ==
  ASSUME TypeOK, Backed, [Next]_vars
  PROVE  [Ledger!Next]_(Ledger!vars)
  <1> USE DEF TypeOK
  <1>1. ASSUME NEW j \in Jobs, NEW t \in Txns, ChargeCash(j, t)
        PROVE  Ledger!Next
    <2>1. Paid(t)' /\ UNCHANGED <<orders, events, stamps>>
      BY <1>1 DEF ChargeCash, Paid, RecordsOK
    <2>2. \A u \in Txns \ {t} : Paid(u)' <=> Paid(u)
      BY <1>1 DEF ChargeCash, Paid, RecordsOK
    <2> QED BY <2>1, <2>2, LedgerPays DEF Ledger!Next
  <1>2. ASSUME NEW t \in Txns, TerminalDecides(t)
        PROVE  [Ledger!Next]_(Ledger!vars)
    <2>1. UNCHANGED <<orders, events, stamps, cash>>
          /\ \A u \in Txns \ {t} : terminal'[u] = terminal[u]
      BY <1>2 DEF TerminalDecides, db, RecordsOK
    <2>2. \A u \in Txns \ {t} : Paid(u)' <=> Paid(u)
      BY <2>1 DEF Paid
    <2>3. CASE Paid(t)'
      BY <2>1, <2>2, <2>3, LedgerPays DEF Ledger!Next
    <2>4. CASE ~ Paid(t)'
      <3>1. ~ Paid(t)
        BY <1>2, <2>4, Monotone
      <3>2. \A u \in Txns : Paid(u)' = Paid(u)
        BY <2>2, <2>4, <3>1 DEF Paid
      <3> QED BY <2>1, <3>2 DEF Ledger!vars
    <2> QED BY <2>3, <2>4
  <1>3. ASSUME NEW t \in Txns, SentryOrders(t)
        PROVE  Ledger!Next
    <2>1. Paid(t)
      BY <1>3, TxnsAssumption DEF SentryOrders, Backed, SafeJob, CliSales, CliOK
    <2>2. orders' = [orders EXCEPT ![t] = TRUE] /\ UNCHANGED <<cash, terminal, events, stamps>>
      BY <1>3 DEF SentryOrders, db
    <2>3. Ledger!Order(t)
      BY <2>1, <2>2 DEF Ledger!Order, Paid
    <2> QED BY <2>3 DEF Ledger!Next
  <1>4. ASSUME NEW j \in Jobs, SentryAccepted(j)
        PROVE  Ledger!Next
    <2>1. PICK t \in Txns : Txn(j) = t
      BY <1>4, SuspendedOnTxn DEF SentryAccepted, At
    <2>2. /\ orders[t] /\ UNCHANGED <<cash, terminal, orders>>
          /\ events' = [events EXCEPT ![t].booked = @ + 1]
          /\ stamps' \in {stamps, [stamps EXCEPT ![t] = @ + 1]}
      BY <1>4, <2>1 DEF SentryAccepted, AttributeTransaction
    <2>3. Ledger!PublishBooked(t)
      BY <2>2 DEF Ledger!PublishBooked, Paid
    <2> QED BY <2>3 DEF Ledger!Next
  <1>5. ASSUME NEW j \in Jobs, SentryFailed(j)
        PROVE  Ledger!Next
    <2>1. PICK t \in Txns : Txn(j) = t
      BY <1>5, SuspendedOnTxn DEF SentryFailed, At
    <2>2. /\ Paid(t) /\ UNCHANGED <<cash, terminal, orders, stamps>>
          /\ events' = [events EXCEPT ![t].unbooked = @ + 1]
      BY <1>5, <2>1 DEF SentryFailed, Backed, SafeJob, At
    <2>3. Ledger!PublishUnbooked(t)
      BY <2>2 DEF Ledger!PublishUnbooked, Paid
    <2> QED BY <2>3 DEF Ledger!Next
  <1>6. ASSUME NEW t \in Txns, TerminalStarts(t)
        PROVE  UNCHANGED Ledger!vars
    <2>1. \A u \in Txns : Paid(u)' = Paid(u)
      BY <1>6 DEF TerminalStarts, Paid, RecordsOK
    <2>2. UNCHANGED <<orders, events, stamps>>
      BY <1>6 DEF TerminalStarts, db
    <2> QED BY <2>1, <2>2 DEF Ledger!vars
  <1>7. \/ \E j \in Jobs, t \in Txns : ChargeCash(j, t)
        \/ \E t \in Txns : TerminalDecides(t) \/ SentryOrders(t) \/ TerminalStarts(t)
        \/ \E j \in Jobs : SentryAccepted(j) \/ SentryFailed(j)
        \/ UNCHANGED <<cash, terminal, orders, events, stamps>>
    BY DEF Next, Request, Resume, World, vars, db, StartCheckout, ChargeCard,
           CancelCheckout, RetrySentry, CartValidated, ChargeCardFailed,
           ChargeCardPending, ChargeCardComplete, PollAgain, PollComplete, PollTimeout,
           CancelAnswered, RetryOneSale, JobDies, ToggleTill, RetryFailedSales,
           RetryNextSale, RetryCommandStops
  <1> QED
    BY <1>1, <1>2, <1>3, <1>4, <1>5, <1>6, <1>7, LedgerStutter

\* The sale path keeps the order of effects SaleLedger promises.
THEOREM CheckoutKeepsLedger == Spec => KeepsLedger
  <1>1. Init => Ledger!Init
    BY LedgerInit
  <1>2. TypeOK /\ Backed /\ [Next]_vars => [Ledger!Next]_(Ledger!vars)
    BY LedgerStep
  <1> QED
    BY <1>1, <1>2, TypeCorrect, BackedAlways, PTL DEF Spec, KeepsLedger, Ledger!Spec

-----------------------------------------------------------------------------
(* Cash is accepted once.  The guard of charge_cash is only as good as the   *)
(* promise that no step puts a paid row back into an unpaid status: the one  *)
(* blind write that could, the validation's, comes from the only job that    *)
(* works on the sale while it is under validation.                           *)

LEMMA CashInit == Init => CashGuarded
  BY TxnsAssumption DEF Init, CashGuarded, CliSales, Idle, At, Txn

\* A step that writes the row of t, none but its writer's job, and no cash.
LEMMA CashRowWritten ==
  ASSUME TypeOK, CashGuarded, NEW j \in Jobs, NEW t \in Txns,
         Txn(j) = t, ~ At(j, "idle"), ~ At(j, "validate"),
         \A u \in Txns \ {t} : row'[u] = row[u],
         row'[t] = row[t] \/ row'[t].status \notin Unpaid,
         \A k \in Jobs \ {j} : job'[k] = job[k],
         \/ job'[j] = Idle
         \/ job'[j].txn = t /\ job'[j].at \notin {"idle", "validate"},
         UNCHANGED <<cli, cash>>
  PROVE  CashGuarded'
  <1> USE DEF TypeOK
  <1>1. row[t].status # "none" /\ row[t].status # "PENDING_VALIDATION"
    BY DEF CashGuarded
  <1>2. row'[t].status # "none" /\ row'[t].status # "PENDING_VALIDATION"
    BY <1>1 DEF Unpaid
  <1>3. \A u \in Txns : cash'[u] <= 1 /\ (row'[u].status \in Unpaid => cash'[u] = 0)
    BY DEF CashGuarded
  <1>4. \A k \in Jobs : ~ At(k, "idle")' =>
          /\ row'[Txn(k)'].status # "none"
          /\ At(k, "validate")' <=> row'[Txn(k)'].status = "PENDING_VALIDATION"
    <2> SUFFICES ASSUME NEW k \in Jobs, ~ At(k, "idle")'
                 PROVE  /\ row'[Txn(k)'].status # "none"
                        /\ At(k, "validate")' <=> row'[Txn(k)'].status = "PENDING_VALIDATION"
      OBVIOUS
    <2>1. CASE k = j
      BY <1>2, <2>1 DEF Idle, At, Txn
    <2>2. CASE k # j
      <3>1. job'[k] = job[k] /\ Txn(k) \in Txns
        BY <2>2, SuspendedOnTxn DEF At
      <3>2. CASE Txn(k) = t
        BY <1>1, <1>2, <3>1, <3>2 DEF CashGuarded, At, Txn
      <3>3. CASE Txn(k) # t
        BY <3>1, <3>3 DEF CashGuarded, At, Txn
      <3> QED BY <3>2, <3>3
    <2> QED BY <2>1, <2>2
  <1>5. \A i, k \in Jobs : At(i, "validate")' /\ At(k, "validate")' /\ Txn(i)' = Txn(k)' => i = k
    <2>1. \A k \in Jobs : At(k, "validate")' => k # j /\ job'[k] = job[k]
      BY DEF Idle, At
    <2> QED BY <2>1 DEF CashGuarded, At, Txn
  <1>6. \A u \in CliSales' : row'[u].status \notin Unpaid
    BY DEF CashGuarded, CliSales, CliOK
  <1> QED BY <1>3, <1>4, <1>5, <1>6 DEF CashGuarded

\* What Suspend and Return leave in the slots.
LEMMA Suspended ==
  ASSUME JobOK, NEW j \in Jobs, NEW p \in Points, NEW t \in Txns, Suspend(j, p, t)
  PROVE  /\ job'[j].at = p /\ job'[j].txn = t
         /\ \A k \in Jobs \ {j} : job'[k] = job[k]
  BY DEF JobOK, Suspend

LEMMA Returned ==
  ASSUME JobOK, NEW j \in Jobs, Return(j)
  PROVE  job'[j] = Idle /\ \A k \in Jobs \ {j} : job'[k] = job[k]
  BY DEF JobOK, Return

LEMMA FinalizeWrites ==
  ASSUME TypeOK, NEW j \in Jobs, NEW t \in Txns, FinalizeCardCharge(j, t)
  PROVE  /\ \A u \in Txns \ {t} : row'[u] = row[u]
         /\ row'[t].status \in {"PAYMENT_SUCCESS", "PAYMENT_FAILED"}
         /\ \A k \in Jobs \ {j} : job'[k] = job[k]
         /\ \/ job'[j] = Idle /\ row'[t].status = "PAYMENT_FAILED"
            \/ job'[j].txn = t /\ job'[j].at = "sentry"
  <1> USE DEF TypeOK
  <1>1. CASE /\ row' = [row EXCEPT ![t].status = "PAYMENT_SUCCESS", ![t].method = "card"]
             /\ Suspend(j, "sentry", t)
    <2>1. row'[t].status = "PAYMENT_SUCCESS" /\ \A u \in Txns \ {t} : row'[u] = row[u]
      BY <1>1, WroteMethod DEF Statuses
    <2>2. /\ job'[j].at = "sentry" /\ job'[j].txn = t
          /\ \A k \in Jobs \ {j} : job'[k] = job[k]
      BY <1>1, Suspended DEF Points
    <2> QED BY <2>1, <2>2
  <1>2. CASE /\ row' = [row EXCEPT ![t].status = "PAYMENT_FAILED", ![t].method = "card"]
             /\ Return(j)
    <2>1. row'[t].status = "PAYMENT_FAILED" /\ \A u \in Txns \ {t} : row'[u] = row[u]
      BY <1>2, WroteMethod DEF Statuses, TERMINAL_STATUSES
    <2>2. job'[j] = Idle /\ \A k \in Jobs \ {j} : job'[k] = job[k]
      BY <1>2, Returned
    <2> QED BY <2>1, <2>2
  <1> QED BY <1>1, <1>2 DEF FinalizeCardCharge

LEMMA CashRequest ==
  ASSUME TypeOK, CashGuarded, NEW j \in Jobs, NEW t \in Txns, Request(j, t)
  PROVE  CashGuarded'
  <1> USE DEF TypeOK
  <1>0. \A k \in Jobs : ~ At(k, "idle") => Txn(k) \in Txns
    BY SuspendedOnTxn
  <1>1. CASE StartCheckout(j, t)
    <2>1. /\ row[t].status = "none" /\ At(j, "idle")
          /\ SetStatus(t, "PENDING_VALIDATION") /\ Suspend(j, "validate", t)
          /\ UNCHANGED <<cli, cash>>
      BY <1>1 DEF StartCheckout
    <2>2. /\ row'[t].status = "PENDING_VALIDATION"
          /\ \A u \in Txns \ {t} : row'[u] = row[u]
      BY <2>1, WroteStatus DEF Statuses
    <2>3. /\ job'[j].at = "validate" /\ job'[j].txn = t
          /\ \A k \in Jobs \ {j} : job'[k] = job[k]
      BY <2>1, Suspended DEF Points
    <2>4. \A k \in Jobs : ~ At(k, "idle") => Txn(k) # t
      BY <2>1 DEF CashGuarded
    <2>5. \A u \in CliSales : u # t
      BY <2>1 DEF CashGuarded, Unpaid
    <2>6. \A u \in Txns : cash'[u] <= 1 /\ (row'[u].status \in Unpaid => cash'[u] = 0)
      BY <2>1, <2>2 DEF CashGuarded, Unpaid
    <2>7. \A k \in Jobs : ~ At(k, "idle")' =>
            /\ row'[Txn(k)'].status # "none"
            /\ At(k, "validate")' <=> row'[Txn(k)'].status = "PENDING_VALIDATION"
      BY <1>0, <2>2, <2>3, <2>4, SMTT(30) DEF CashGuarded, At, Txn
    <2>8. \A i, k \in Jobs : At(i, "validate")' /\ At(k, "validate")' /\ Txn(i)' = Txn(k)'
            => i = k
      BY <2>3, <2>4 DEF CashGuarded, At, Txn
    <2>9. \A u \in CliSales' : row'[u].status \notin Unpaid
      BY <2>1, <2>2, <2>5 DEF CashGuarded, CliSales, CliOK
    <2> QED BY <2>6, <2>7, <2>8, <2>9 DEF CashGuarded
  <1>2. CASE ChargeCash(j, t)
    <2>1. /\ row[t].status = "AWAITING_PAYMENT" /\ At(j, "idle")
          /\ row' = [row EXCEPT ![t].status = "PAYMENT_SUCCESS", ![t].method = "cash"]
          /\ cash' = [cash EXCEPT ![t] = @ + 1] /\ Suspend(j, "sentry", t)
          /\ UNCHANGED cli
      BY <1>2 DEF ChargeCash
    <2>2. /\ row'[t].status = "PAYMENT_SUCCESS"
          /\ \A u \in Txns \ {t} : row'[u] = row[u]
      BY <2>1, WroteMethod DEF Statuses
    <2>3. /\ job'[j].at = "sentry" /\ job'[j].txn = t
          /\ \A k \in Jobs \ {j} : job'[k] = job[k]
      BY <2>1, Suspended DEF Points
    <2>4. \A k \in Jobs : ~ At(k, "idle") /\ Txn(k) = t => ~ At(k, "validate")
      BY <2>1 DEF CashGuarded
    <2>5. cash[t] = 0
      BY <2>1 DEF CashGuarded, Unpaid
    <2>6. \A u \in Txns : cash'[u] <= 1 /\ (row'[u].status \in Unpaid => cash'[u] = 0)
      <3>1. cash'[t] = 1 /\ \A u \in Txns \ {t} : cash'[u] = cash[u]
        BY <2>1, <2>5 DEF RecordsOK
      <3>2. cash'[t] <= 1 /\ row'[t].status \notin Unpaid
        BY <2>2, <3>1 DEF Unpaid
      <3>3. \A u \in Txns \ {t} :
              cash'[u] <= 1 /\ (row'[u].status \in Unpaid => cash'[u] = 0)
        BY <2>2, <3>1 DEF CashGuarded
      <3> QED BY <3>2, <3>3
    <2>7. \A k \in Jobs : ~ At(k, "idle")' =>
            /\ row'[Txn(k)'].status # "none"
            /\ At(k, "validate")' <=> row'[Txn(k)'].status = "PENDING_VALIDATION"
      BY <1>0, <2>2, <2>3, <2>4, SMTT(30) DEF CashGuarded, At, Txn
    <2>8. \A i, k \in Jobs : At(i, "validate")' /\ At(k, "validate")' /\ Txn(i)' = Txn(k)'
            => i = k
      BY <2>3 DEF CashGuarded, At, Txn
    <2>9. \A u \in CliSales' : row'[u].status \notin Unpaid
      <3>1. CliSales' = CliSales /\ CliSales \subseteq Txns
        BY <2>1 DEF CliSales, CliOK
      <3>2. \A u \in CliSales : row[u].status \notin Unpaid
        BY DEF CashGuarded
      <3>3. row'[t].status \notin Unpaid
        BY <2>2 DEF Unpaid
      <3> QED BY <2>2, <3>1, <3>2, <3>3
    <2> QED BY <2>6, <2>7, <2>8, <2>9 DEF CashGuarded
  <1>3. CASE ChargeCard(j, t) \/ RetrySentry(j, t) \/ CancelCheckout(j, t)
    <2>1. /\ At(j, "idle") /\ UNCHANGED <<cli, cash>>
          /\ row[t].status \in {"AWAITING_PAYMENT", "INVENTORY_UPDATE_FAILED",
                                "PAYMENT_IN_FLIGHT"}
          /\ UNCHANGED row \/ SetStatus(t, "CANCELLED")
          /\ UNCHANGED job \/ \E p \in {"charge", "resend", "cancel"} : Suspend(j, p, t)
      BY <1>3 DEF ChargeCard, RetrySentry, CancelCheckout, db
    <2>2. /\ \A u \in Txns \ {t} : row'[u] = row[u]
          /\ row'[t].status \notin {"none", "PENDING_VALIDATION"}
          /\ row'[t].status \in Unpaid => row'[t] = row[t]
      BY <2>1, WroteStatus DEF Statuses, TERMINAL_STATUSES, Unpaid
    <2>3. /\ \A k \in Jobs \ {j} : job'[k] = job[k]
          /\ job'[j] = job[j] \/ (job'[j].txn = t /\ job'[j].at \in {"charge", "resend", "cancel"})
      BY <2>1, Suspended DEF Points
    <2>4. \A k \in Jobs : ~ At(k, "idle") /\ Txn(k) = t => ~ At(k, "validate")
      BY <2>1 DEF CashGuarded
    <2>5. cash' = cash /\ \A u \in Txns : row'[u].status \in Unpaid => row'[u] = row[u]
      BY <2>1, <2>2
    <2>6. \A u \in Txns : cash'[u] <= 1 /\ (row'[u].status \in Unpaid => cash'[u] = 0)
      BY <2>5 DEF CashGuarded
    <2>7. \A k \in Jobs : ~ At(k, "idle")' =>
            /\ row'[Txn(k)'].status # "none"
            /\ At(k, "validate")' <=> row'[Txn(k)'].status = "PENDING_VALIDATION"
      BY <1>0, <2>1, <2>2, <2>3, <2>4 DEF CashGuarded, At, Txn
    <2>8. \A i, k \in Jobs : At(i, "validate")' /\ At(k, "validate")' /\ Txn(i)' = Txn(k)'
            => i = k
      BY <2>1, <2>3 DEF CashGuarded, At, Txn
    <2>9. \A u \in CliSales' : row'[u].status \notin Unpaid
      BY <2>1, <2>2 DEF CashGuarded, CliSales, CliOK, Unpaid
    <2> QED BY <2>6, <2>7, <2>8, <2>9 DEF CashGuarded
  <1> QED BY <1>1, <1>2, <1>3 DEF Request

LEMMA CashResume ==
  ASSUME TypeOK, CashGuarded, NEW j \in Jobs, Resume(j)
  PROVE  CashGuarded'
  <1> USE DEF TypeOK
  <1>0. PICK t \in Txns : Txn(j) = t
    BY ResumedOnTxn
  <1>1. CASE CartValidated(j)
    <2>1. PICK s \in {"AWAITING_PAYMENT", "VALIDATION_FAILED"} : SetStatus(t, s)
      BY <1>0, <1>1 DEF CartValidated
    <2>2. Return(j) /\ UNCHANGED <<cli, cash>> /\ At(j, "validate")
      BY <1>1 DEF CartValidated
    <2>3. row'[t].status = s /\ \A u \in Txns \ {t} : row'[u] = row[u]
      BY <2>1, WroteStatus DEF Statuses, TERMINAL_STATUSES
    <2>4. job'[j] = Idle /\ \A k \in Jobs \ {j} : job'[k] = job[k]
      BY <2>2, Returned
    <2>5. row[t].status = "PENDING_VALIDATION" /\ cash[t] = 0
      BY <1>0, <2>2 DEF CashGuarded, Unpaid, At
    <2>6. \A k \in Jobs \ {j} : ~ At(k, "idle") => Txn(k) # t
      BY <1>0, <2>2, <2>5 DEF CashGuarded
    <2>7. \A u \in Txns : cash'[u] <= 1 /\ (row'[u].status \in Unpaid => cash'[u] = 0)
      <3>1. cash' = cash
        BY <2>2
      <3> QED BY <2>3, <2>5, <3>1 DEF CashGuarded
    <2>8. \A k \in Jobs : ~ At(k, "idle")' =>
            /\ row'[Txn(k)'].status # "none"
            /\ At(k, "validate")' <=> row'[Txn(k)'].status = "PENDING_VALIDATION"
      <3> SUFFICES ASSUME NEW k \in Jobs, ~ At(k, "idle")'
                   PROVE  /\ row'[Txn(k)'].status # "none"
                          /\ At(k, "validate")' <=> row'[Txn(k)'].status = "PENDING_VALIDATION"
        OBVIOUS
      <3>1. k # j /\ job'[k] = job[k] /\ ~ At(k, "idle")
        BY <2>4 DEF Idle, At
      <3>2. Txn(k) # t /\ Txn(k) \in Txns /\ Txn(k)' = Txn(k)
        BY <2>6, <3>1, SuspendedOnTxn DEF Txn
      <3>3. row'[Txn(k)] = row[Txn(k)]
        BY <2>3, <3>2
      <3> QED BY <3>1, <3>2, <3>3 DEF CashGuarded, At
    <2>9. \A i, k \in Jobs : At(i, "validate")' /\ At(k, "validate")' /\ Txn(i)' = Txn(k)'
            => i = k
      BY <2>4 DEF CashGuarded, At, Txn, Idle
    <2>10. \A u \in CliSales' : row'[u].status \notin Unpaid
      <3>1. CliSales' = CliSales /\ CliSales \subseteq Txns
        BY <2>2 DEF CliSales, CliOK
      <3>2. t \notin CliSales
        BY <2>5 DEF CashGuarded, Unpaid
      <3> QED BY <2>3, <3>1, <3>2 DEF CashGuarded
    <2> QED BY <2>7, <2>8, <2>9, <2>10 DEF CashGuarded
  <1>2. CASE ~ CartValidated(j)
    <2>1. ~ At(j, "idle") /\ ~ At(j, "validate") /\ UNCHANGED <<cli, cash>>
      BY <1>2 DEF Resume, ChargeCardFailed, ChargeCardPending, ChargeCardComplete,
                  PollAgain, PollComplete, PollTimeout, SentryAccepted, SentryFailed,
                  CancelAnswered, RetryOneSale, At, db
    <2>2. CASE ChargeCardFailed(j) \/ SentryFailed(j) \/ CancelAnswered(j) \/ PollTimeout(j)
      <3>1. /\ Return(j)
            /\ UNCHANGED row \/ \E s \in TERMINAL_STATUSES : SetStatus(t, s)
        BY <1>0, <2>2 DEF ChargeCardFailed, SentryFailed, CancelAnswered, PollTimeout,
                          TERMINAL_STATUSES
      <3>2. /\ \A u \in Txns \ {t} : row'[u] = row[u]
            /\ row'[t] = row[t] \/ row'[t].status \notin Unpaid
        BY <3>1, WroteStatus DEF Statuses, TERMINAL_STATUSES, Unpaid
      <3> QED BY <1>0, <2>1, <3>1, <3>2, Returned, CashRowWritten
    <2>3. CASE SentryAccepted(j) \/ RetryOneSale(j)
      <3>1. /\ Return(j)
            /\ UNCHANGED row \/ row' = [row EXCEPT ![t].status = "COMPLETE", ![t].so = TRUE]
        BY <1>0, <2>3 DEF SentryAccepted, RetryOneSale, Completed
      <3>2. /\ \A u \in Txns \ {t} : row'[u] = row[u]
            /\ row'[t] = row[t] \/ row'[t].status = "COMPLETE"
        BY <3>1, WroteOrder DEF Statuses, TERMINAL_STATUSES
      <3>3. row'[t] = row[t] \/ row'[t].status \notin Unpaid
        BY <3>2 DEF Unpaid
      <3> QED BY <1>0, <2>1, <3>1, <3>2, <3>3, Returned, CashRowWritten
    <2>4. CASE ChargeCardPending(j)
      <3>1. /\ Suspend(j, "poll", t)
            /\ row' = [row EXCEPT ![t].status = "PAYMENT_IN_FLIGHT", ![t].method = "card"]
        BY <1>0, <2>4 DEF ChargeCardPending
      <3>2. /\ \A u \in Txns \ {t} : row'[u] = row[u]
            /\ row'[t].status = "PAYMENT_IN_FLIGHT"
        BY <3>1, WroteMethod DEF Statuses
      <3>3. row'[t].status \notin Unpaid
        BY <3>2 DEF Unpaid
      <3>4. /\ job'[j].at = "poll" /\ job'[j].txn = t
            /\ \A k \in Jobs \ {j} : job'[k] = job[k]
        BY <3>1, Suspended DEF Points
      <3> QED BY <1>0, <2>1, <3>2, <3>3, <3>4, CashRowWritten
    <2>5. CASE PollAgain(j)
      <3>1. /\ \A k \in Jobs \ {j} : job'[k] = job[k]
            /\ job'[j].txn = t /\ job'[j].at = "poll" /\ UNCHANGED row
        BY <1>0, <2>5 DEF PollAgain, JobOK, At, Txn, db
      <3> QED BY <1>0, <2>1, <3>1, CashRowWritten
    <2>6. CASE ChargeCardComplete(j) \/ PollComplete(j)
      <3>1. FinalizeCardCharge(j, t) \/ (Return(j) /\ UNCHANGED row)
        BY <1>0, <2>6 DEF ChargeCardComplete, PollComplete
      <3>2. CASE FinalizeCardCharge(j, t)
        <4>1. row'[t].status \notin Unpaid
          BY <3>2, FinalizeWrites DEF Unpaid
        <4>2. job'[j] = Idle \/ (job'[j].txn = t /\ job'[j].at \notin {"idle", "validate"})
          BY <3>2, FinalizeWrites
        <4> QED BY <1>0, <2>1, <3>2, <4>1, <4>2, FinalizeWrites, CashRowWritten
      <3>3. CASE Return(j) /\ UNCHANGED row
        BY <1>0, <2>1, <3>3, Returned, CashRowWritten
      <3> QED BY <3>1, <3>2, <3>3
    <2> QED BY <1>2, <2>2, <2>3, <2>4, <2>5, <2>6 DEF Resume
  <1> QED BY <1>1, <1>2

LEMMA CashNext == TypeOK /\ CashGuarded /\ [Next]_vars => CashGuarded'
  <1> SUFFICES ASSUME TypeOK, CashGuarded, [Next]_vars PROVE CashGuarded'
    OBVIOUS
  <1> USE DEF TypeOK
  <1>1. ASSUME NEW j \in Jobs, JobDies(j) PROVE CashGuarded'
    <2>1. job'[j] = Idle /\ \A k \in Jobs \ {j} : job'[k] = job[k]
      BY <1>1, Returned DEF JobDies
    <2>2. UNCHANGED <<row, cli, cash>>
      BY <1>1 DEF JobDies, db
    <2> QED BY <2>1, <2>2 DEF CashGuarded, CliSales, Idle, At, Txn
  <1>2. CASE RetryFailedSales
    <2>1. UNCHANGED <<row, job, cash>>
      BY <1>2 DEF RetryFailedSales, db
    <2>2. \A t \in CliSales' : row[t].status = "INVENTORY_UPDATE_FAILED"
      BY <1>2 DEF RetryFailedSales, CliNext, CliSales
    <2>3. \A t \in CliSales' : row'[t].status \notin Unpaid
      BY <2>1, <2>2 DEF Unpaid
    <2> QED BY <2>1, <2>3 DEF CashGuarded, At, Txn
  <1>3. CASE RetryNextSale
    <2>1. PICK t \in Txns : cli.now = t /\ t \in CliSales
      BY <1>3 DEF RetryNextSale, CliOK, CliSales
    <2>2. /\ UNCHANGED <<job, cash>> /\ CliSales' \subseteq CliSales
          /\ UNCHANGED row \/ row' = [row EXCEPT ![t].status = "COMPLETE", ![t].so = TRUE]
      BY <1>3, <2>1 DEF RetryNextSale, CliNext, CliSales, Completed
    <2>3. /\ \A u \in Txns \ {t} : row'[u] = row[u]
          /\ row'[t] = row[t] \/ row'[t].status = "COMPLETE"
      BY <2>2, WroteOrder DEF Statuses, TERMINAL_STATUSES
    <2>4. row[t].status \notin Unpaid /\ row'[t].status \notin Unpaid
      BY <2>1, <2>3 DEF CashGuarded, Unpaid
    <2>5. \A u \in Txns : cash'[u] <= 1 /\ (row'[u].status \in Unpaid => cash'[u] = 0)
      <3>1. cash' = cash
        BY <2>2
      <3> QED BY <2>3, <2>4, <3>1 DEF CashGuarded
    <2>6. \A k \in Jobs : ~ At(k, "idle")' =>
            /\ row'[Txn(k)'].status # "none"
            /\ At(k, "validate")' <=> row'[Txn(k)'].status = "PENDING_VALIDATION"
      <3> SUFFICES ASSUME NEW k \in Jobs, ~ At(k, "idle")
                   PROVE  /\ row'[Txn(k)].status # "none"
                          /\ At(k, "validate") <=> row'[Txn(k)].status = "PENDING_VALIDATION"
        BY <2>2 DEF At, Txn
      <3>1. Txn(k) \in Txns
        BY SuspendedOnTxn
      <3>2. CASE Txn(k) = t
        BY <2>4, <3>2 DEF CashGuarded, Unpaid
      <3>3. CASE Txn(k) # t
        BY <2>3, <3>1, <3>3 DEF CashGuarded
      <3> QED BY <3>2, <3>3
    <2>7. \A u \in CliSales' : row'[u].status \notin Unpaid
      <3>1. CliSales \subseteq Txns
        BY DEF CliSales, CliOK
      <3> QED BY <2>2, <2>3, <2>4, <3>1 DEF CashGuarded
    <2> QED BY <2>2, <2>5, <2>6, <2>7 DEF CashGuarded, At, Txn
  <1>4. CASE RetryCommandStops
    BY <1>4 DEF RetryCommandStops, db, CashGuarded, CliSales, At, Txn
  <1>5. ASSUME NEW t \in Txns, World(t) PROVE CashGuarded'
    BY <1>5 DEF World, TerminalStarts, TerminalDecides, SentryOrders, db, CashGuarded,
                CliSales, At, Txn
  <1>6. CASE ToggleTill \/ UNCHANGED vars
    BY <1>6 DEF ToggleTill, vars, db, CashGuarded, CliSales, At, Txn
  <1> QED
    BY <1>1, <1>2, <1>3, <1>4, <1>5, <1>6, CashRequest, CashResume DEF Next

\* Cash is accepted at most once for a sale, however requests overlap.
THEOREM CashAcceptedOnce == Spec => []CashOnce
  <1>1. CashGuarded => CashOnce
    BY DEF CashGuarded, CashOnce
  <1> QED BY <1>1, CashInit, CashNext, TypeCorrect, PTL DEF Spec

-----------------------------------------------------------------------------
(* No sale is left to nobody.  A job that goes on writes the row of its sale *)
(* so that the status fits what it waits for next; what other jobs of the    *)
(* sale wait for stays.                                                      *)

\* A wait of another job outlasts a step of job j, and so does one of j itself when
\* j waits for something else.
LEMMA HeldKept ==
  ASSUME NEW j \in Jobs, NEW p \in Points, NEW t \in Txns, Held(p, t),
         job[j].at # p \/ job[j].txn # t,
         \A k \in Jobs \ {j} : job'[k] = job[k]
  PROVE  Held(p, t)'
  BY DEF Held, At, Txn

\* One job, idle or working on sale t, takes a step: only t can lose its hold.
LEMMA HeldElsewhere ==
  ASSUME TypeOK, WorkIsHeld, [Next]_vars, NEW j \in Jobs, NEW t \in Txns,
         job[j].at = "idle" \/ job[j].txn = t,
         \A k \in Jobs \ {j} : job'[k] = job[k],
         \A u \in Txns \ {t} : row'[u] = row[u] /\ cash'[u] = cash[u],
         orphaned \subseteq orphaned',
         t \notin orphaned' => SaleIsHeld(t)'
  PROVE  WorkIsHeld'
  <1> SUFFICES ASSUME NEW u \in Txns \ orphaned', u # t PROVE SaleIsHeld(u)'
    BY DEF WorkIsHeld
  <1>1. SaleIsHeld(u)
    BY DEF WorkIsHeld
  <1>2. \A p \in {"validate", "poll", "sentry"} : Held(p, u) => Held(p, u)'
    <2> SUFFICES ASSUME NEW p \in {"validate", "poll", "sentry"}, Held(p, u)
                 PROVE  Held(p, u)'
      OBVIOUS
    <2> QED BY HeldKept DEF Points
  <1>3. Published(u) => Published(u)'
    BY Monotone
  <1>4. row'[u] = row[u] /\ cash'[u] = cash[u]
    OBVIOUS
  <1> QED BY <1>1, <1>2, <1>3, <1>4 DEF SaleIsHeld

\* A step that changes no job, no cash, and leaves a row or completes it.
LEMMA HeldByJobs ==
  ASSUME TypeOK, WorkIsHeld, [Next]_vars, UNCHANGED <<job, cash, orphaned>>,
         \A t \in Txns : \/ row'[t].status = row[t].status
                         \/ row'[t].status \notin
                              {"PENDING_VALIDATION", "PAYMENT_IN_FLIGHT", "PAYMENT_SUCCESS"}
  PROVE  WorkIsHeld'
  <1> SUFFICES ASSUME NEW t \in Txns \ orphaned PROVE SaleIsHeld(t)'
    BY DEF WorkIsHeld
  <1>1. SaleIsHeld(t) /\ (Published(t) => Published(t)')
    BY Monotone DEF WorkIsHeld
  <1>2. \A p \in Points : Held(p, t)' <=> Held(p, t)
    BY DEF Held, At, Txn
  <1>3. CASE row'[t].status = row[t].status
    BY <1>1, <1>2, <1>3 DEF SaleIsHeld, Points
  <1>4. CASE row'[t].status \notin {"PENDING_VALIDATION", "PAYMENT_IN_FLIGHT", "PAYMENT_SUCCESS"}
    BY <1>1, <1>2, <1>4 DEF SaleIsHeld, Points
  <1> QED BY <1>3, <1>4

\* What holds of a sale before its job goes on and is not the job's to end.
LEMMA CashStaysHeld ==
  ASSUME TypeOK, WorkIsHeld, [Next]_vars, NEW j \in Jobs, NEW t \in Txns \ orphaned,
         job[j].at # "sentry",
         \A k \in Jobs \ {j} : job'[k] = job[k],
         cash'[t] = cash[t]
  PROVE  cash'[t] > 0 => Published(t)' \/ Held("sentry", t)'
  <1>1. cash[t] > 0 => Published(t) \/ Held("sentry", t)
    BY DEF WorkIsHeld, SaleIsHeld
  <1> QED BY <1>1, HeldKept, Monotone DEF Points

LEMMA HeldRequest ==
  ASSUME TypeOK, WorkIsHeld, [Next]_vars, NEW j \in Jobs, NEW t \in Txns, Request(j, t)
  PROVE  WorkIsHeld'
  <1> USE DEF TypeOK
  <1>0. /\ job[j].at = "idle" /\ orphaned' = orphaned
        /\ job[j].at \notin {"validate", "poll", "sentry"}
    BY DEF Request, StartCheckout, ChargeCash, ChargeCard, CancelCheckout, RetrySentry, At
  <1>1. CASE StartCheckout(j, t)
    <2>1. /\ SetStatus(t, "PENDING_VALIDATION") /\ Suspend(j, "validate", t) /\ cash' = cash
      BY <1>1 DEF StartCheckout
    <2>2. /\ row'[t].status = "PENDING_VALIDATION"
          /\ \A u \in Txns \ {t} : row'[u] = row[u]
      BY <2>1, WroteStatus DEF Statuses
    <2>3. /\ job'[j].at = "validate" /\ job'[j].txn = t
          /\ \A k \in Jobs \ {j} : job'[k] = job[k]
      BY <2>1, Suspended DEF Points
    <2>4. Held("validate", t)'
      BY <2>3 DEF Held, At, Txn
    <2>5. t \notin orphaned' => SaleIsHeld(t)'
      BY <1>0, <2>1, <2>2, <2>3, <2>4, CashStaysHeld DEF SaleIsHeld
    <2> QED BY <1>0, <2>1, <2>2, <2>3, <2>5, HeldElsewhere
  <1>2. CASE ChargeCash(j, t)
    <2>1. /\ row' = [row EXCEPT ![t].status = "PAYMENT_SUCCESS", ![t].method = "cash"]
          /\ cash' = [cash EXCEPT ![t] = @ + 1] /\ Suspend(j, "sentry", t)
      BY <1>2 DEF ChargeCash
    <2>2. /\ row'[t].status = "PAYMENT_SUCCESS"
          /\ \A u \in Txns \ {t} : row'[u] = row[u] /\ cash'[u] = cash[u]
      BY <2>1, WroteMethod DEF Statuses, RecordsOK
    <2>3. /\ job'[j].at = "sentry" /\ job'[j].txn = t
          /\ \A k \in Jobs \ {j} : job'[k] = job[k]
      BY <2>1, Suspended DEF Points
    <2>4. Held("sentry", t)'
      BY <2>3 DEF Held, At, Txn
    <2>5. SaleIsHeld(t)'
      BY <2>2, <2>4 DEF SaleIsHeld
    <2> QED BY <1>0, <2>2, <2>3, <2>5, HeldElsewhere
  <1>3. CASE ChargeCard(j, t) \/ RetrySentry(j, t)
    <2>1. UNCHANGED <<row, cash>> /\ \E p \in {"charge", "resend"} : Suspend(j, p, t)
      BY <1>3 DEF ChargeCard, RetrySentry, db
    <2>2. \A k \in Jobs \ {j} : job'[k] = job[k]
      BY <2>1, Suspended DEF Points
    <2>3. t \notin orphaned' => SaleIsHeld(t)'
      BY <1>0, <2>1, <2>2, HeldKept, CashStaysHeld DEF WorkIsHeld, SaleIsHeld, Points
    <2> QED BY <1>0, <2>1, <2>2, <2>3, HeldElsewhere
  <1>4. CASE CancelCheckout(j, t)
    <2>1. CASE Suspend(j, "cancel", t) /\ UNCHANGED row
      <3>1. cash' = cash /\ \A k \in Jobs \ {j} : job'[k] = job[k]
        BY <1>4, <2>1, Suspended DEF CancelCheckout, Points
      <3>2. t \notin orphaned' => SaleIsHeld(t)'
        BY <1>0, <2>1, <3>1, HeldKept, CashStaysHeld DEF WorkIsHeld, SaleIsHeld, Points
      <3> QED BY <1>0, <2>1, <3>1, <3>2, HeldElsewhere
    <2>2. CASE SetStatus(t, "CANCELLED") /\ UNCHANGED job
      <3>1. /\ row'[t].status = "CANCELLED" /\ cash' = cash
            /\ \A u \in Txns \ {t} : row'[u] = row[u]
        BY <1>4, <2>2, WroteStatus DEF CancelCheckout, Statuses, TERMINAL_STATUSES
      <3> QED BY <1>0, <2>2, <3>1, HeldByJobs
    <2> QED BY <1>4, <2>1, <2>2 DEF CancelCheckout
  <1> QED BY <1>1, <1>2, <1>3, <1>4 DEF Request

LEMMA HeldResume ==
  ASSUME TypeOK, WorkIsHeld, [Next]_vars, NEW j \in Jobs, Resume(j)
  PROVE  WorkIsHeld'
  <1> USE DEF TypeOK
  <1>0. PICK t \in Txns : Txn(j) = t
    BY ResumedOnTxn
  <1>a. job[j].txn = t /\ orphaned' = orphaned /\ cash' = cash
    BY <1>0 DEF Txn, Resume, CartValidated, ChargeCardFailed, ChargeCardPending,
       ChargeCardComplete, PollAgain, PollComplete, PollTimeout, SentryAccepted,
       SentryFailed, CancelAnswered, RetryOneSale
  \* The job returns, and the sale needs it no longer.
  <1>b. ASSUME Return(j), \A u \in Txns \ {t} : row'[u] = row[u],
               \/ row'[t].status \notin
                    {"PENDING_VALIDATION", "PAYMENT_IN_FLIGHT", "PAYMENT_SUCCESS"}
               \/ /\ row'[t] = row[t] /\ job[j].at \notin {"validate", "sentry"}
                  /\ job[j].at = "poll" => row[t].status # "PAYMENT_IN_FLIGHT",
               job[j].at # "sentry" \/ Published(t)'
        PROVE  WorkIsHeld'
    <2>1. \A k \in Jobs \ {j} : job'[k] = job[k]
      BY <1>b, Returned
    <2>2. t \notin orphaned => (cash'[t] > 0 => Published(t)' \/ Held("sentry", t)')
      BY <1>a, <1>b, <2>1, CashStaysHeld
    <2>3. ASSUME NEW p \in {"validate", "poll", "sentry"}, Held(p, t), job[j].at # p
          PROVE  Held(p, t)'
      BY <2>1, <2>3, HeldKept DEF Points
    <2>4. t \notin orphaned => SaleIsHeld(t)'
      BY <1>b, <2>2, <2>3 DEF WorkIsHeld, SaleIsHeld
    <2> QED BY <1>a, <1>b, <2>1, <2>4, HeldElsewhere
  \* The job goes on to Sentry with a payment, or returns with none.
  <1>c. ASSUME FinalizeCardCharge(j, t), job[j].at \in {"charge", "poll"}
        PROVE  WorkIsHeld'
    <2>1. /\ \A u \in Txns \ {t} : row'[u] = row[u]
          /\ row'[t].status \in {"PAYMENT_SUCCESS", "PAYMENT_FAILED"}
          /\ \A k \in Jobs \ {j} : job'[k] = job[k]
          /\ \/ job'[j] = Idle /\ row'[t].status = "PAYMENT_FAILED"
             \/ job'[j].txn = t /\ job'[j].at = "sentry"
      BY <1>c, FinalizeWrites
    <2>2. t \notin orphaned => (cash'[t] > 0 => Published(t)' \/ Held("sentry", t)')
      BY <1>a, <1>c, <2>1, CashStaysHeld
    <2>3. row'[t].status = "PAYMENT_SUCCESS" => Held("sentry", t)'
      BY <2>1 DEF Held, At, Txn
    <2>4. t \notin orphaned => SaleIsHeld(t)'
      BY <2>1, <2>2, <2>3 DEF SaleIsHeld
    <2> QED BY <1>a, <2>1, <2>4, HeldElsewhere
  \* A booking or a failed one is published.
  <1>d. CASE SentryAccepted(j) \/ SentryFailed(j)
    <2>1. /\ events' = [events EXCEPT ![t].booked = @ + 1]
             \/ events' = [events EXCEPT ![t].unbooked = @ + 1]
          /\ Return(j)
      BY <1>0, <1>d DEF SentryAccepted, SentryFailed
    <2>2. Published(t)'
      BY <2>1 DEF Published, RecordsOK
    <2>3. /\ row'[t].status \in {"COMPLETE", "INVENTORY_UPDATE_FAILED"}
          /\ \A u \in Txns \ {t} : row'[u] = row[u]
      <3>1. CASE SentryAccepted(j)
        BY <1>0, <3>1, WroteOrder DEF SentryAccepted, Statuses, TERMINAL_STATUSES
      <3>2. CASE SentryFailed(j)
        BY <1>0, <3>2, WroteStatus DEF SentryFailed, Statuses, TERMINAL_STATUSES
      <3> QED BY <1>d, <3>1, <3>2
    <2> QED BY <1>b, <2>1, <2>2, <2>3
  <1>1. CASE CartValidated(j)
    <2>1. PICK s \in {"AWAITING_PAYMENT", "VALIDATION_FAILED"} : SetStatus(t, s)
      BY <1>0, <1>1 DEF CartValidated
    <2>2. row'[t].status = s /\ \A u \in Txns \ {t} : row'[u] = row[u]
      BY <2>1, WroteStatus DEF Statuses, TERMINAL_STATUSES
    <2> QED BY <1>b, <1>1, <2>2 DEF CartValidated, At
  <1>2. CASE ChargeCardFailed(j) \/ CancelAnswered(j)
    <2>1. PICK s \in {"PAYMENT_FAILED", "CANCELLED"} : SetStatus(t, s)
      BY <1>0, <1>2 DEF ChargeCardFailed, CancelAnswered
    <2>2. row'[t].status = s /\ \A u \in Txns \ {t} : row'[u] = row[u]
      BY <2>1, WroteStatus DEF Statuses, TERMINAL_STATUSES
    <2> QED BY <1>b, <1>2, <2>2 DEF ChargeCardFailed, CancelAnswered, At
  <1>3. CASE ChargeCardPending(j)
    <2>1. /\ row' = [row EXCEPT ![t].status = "PAYMENT_IN_FLIGHT", ![t].method = "card"]
          /\ Suspend(j, "poll", t) /\ job[j].at = "charge"
      BY <1>0, <1>3 DEF ChargeCardPending, At
    <2>2. /\ row'[t].status = "PAYMENT_IN_FLIGHT"
          /\ \A u \in Txns \ {t} : row'[u] = row[u]
      BY <2>1, WroteMethod DEF Statuses
    <2>3. /\ job'[j].at = "poll" /\ job'[j].txn = t
          /\ \A k \in Jobs \ {j} : job'[k] = job[k]
      BY <2>1, Suspended DEF Points
    <2>4. Held("poll", t)'
      BY <2>3 DEF Held, At, Txn
    <2>5. t \notin orphaned => (cash'[t] > 0 => Published(t)' \/ Held("sentry", t)')
      BY <1>a, <2>1, <2>3, CashStaysHeld
    <2>6. t \notin orphaned => SaleIsHeld(t)'
      BY <2>2, <2>4, <2>5 DEF SaleIsHeld
    <2> QED BY <1>a, <2>2, <2>3, <2>6, HeldElsewhere
  <1>4. CASE ChargeCardComplete(j)
    BY <1>0, <1>c, <1>4 DEF ChargeCardComplete, At
  <1>5. CASE PollAgain(j)
    <2>1. UNCHANGED row /\ \A k \in Jobs : job'[k].at = job[k].at /\ job'[k].txn = job[k].txn
      BY <1>5 DEF PollAgain, db, JobOK
    <2>2. \A u \in Txns, p \in Points : Held(p, u)' <=> Held(p, u)
      BY <2>1 DEF Held, At, Txn
    <2> QED BY <1>a, <2>1, <2>2, Monotone DEF WorkIsHeld, SaleIsHeld, Points
  <1>6. CASE PollComplete(j)
    <2>1. CASE row[t].status = "PAYMENT_IN_FLIGHT"
      BY <1>0, <1>c, <1>6, <2>1 DEF PollComplete, At
    <2>2. CASE row[t].status # "PAYMENT_IN_FLIGHT"
      <3>1. Return(j) /\ UNCHANGED row /\ job[j].at = "poll"
        BY <1>0, <1>6, <2>2 DEF PollComplete, At
      <3> QED BY <1>b, <2>2, <3>1
    <2> QED BY <2>1, <2>2
  <1>7. CASE PollTimeout(j)
    <2>1. Return(j) /\ job[j].at = "poll"
      BY <1>7 DEF PollTimeout, At
    <2>2. CASE row[t].status = "PAYMENT_IN_FLIGHT"
      <3>1. SetStatus(t, "PAYMENT_FAILED")
        BY <1>0, <1>7, <2>2 DEF PollTimeout
      <3>2. row'[t].status = "PAYMENT_FAILED" /\ \A u \in Txns \ {t} : row'[u] = row[u]
        BY <3>1, WroteStatus DEF Statuses, TERMINAL_STATUSES
      <3> QED BY <1>b, <2>1, <3>2
    <2>3. CASE row[t].status # "PAYMENT_IN_FLIGHT"
      <3>1. UNCHANGED row
        BY <1>0, <1>7, <2>3 DEF PollTimeout
      <3> QED BY <1>b, <2>1, <2>3, <3>1
    <2> QED BY <2>2, <2>3
  <1>8. CASE RetryOneSale(j)
    <2>1. Return(j) /\ job[j].at = "resend"
      BY <1>8 DEF RetryOneSale, At
    <2>2. CASE Completed(t)
      <3>1. row'[t].status = "COMPLETE" /\ \A u \in Txns \ {t} : row'[u] = row[u]
        BY <2>2, WroteOrder DEF Completed, Statuses, TERMINAL_STATUSES
      <3> QED BY <1>b, <2>1, <3>1
    <2>3. CASE UNCHANGED row
      BY <1>b, <2>1, <2>3
    <2> QED BY <1>0, <1>8, <2>2, <2>3 DEF RetryOneSale
  <1> QED
    BY <1>d, <1>1, <1>2, <1>3, <1>4, <1>5, <1>6, <1>7, <1>8 DEF Resume

LEMMA HeldNext ==
  ASSUME TypeOK, WorkIsHeld, [Next]_vars
  PROVE  WorkIsHeld'
  <1> USE DEF TypeOK
  <1>1. ASSUME NEW j \in Jobs, JobDies(j) PROVE WorkIsHeld'
    <2>0. PICK t \in Txns : Txn(j) = t
      BY <1>1, SuspendedOnTxn DEF JobDies
    <2>1. job[j].txn = t
      BY <2>0 DEF Txn
    <2>2. UNCHANGED <<row, cash>> /\ \A k \in Jobs \ {j} : job'[k] = job[k]
      BY <1>1, Returned DEF JobDies, db
    <2>3. /\ orphaned \subseteq orphaned'
          /\ job[j].at \in {"validate", "poll", "sentry"} => t \in orphaned'
      BY <1>1, <2>0 DEF JobDies
    <2>4. ASSUME t \notin orphaned' PROVE SaleIsHeld(t)'
      <3>1. job[j].at \notin {"validate", "poll", "sentry"} /\ t \in Txns \ orphaned
        BY <2>3, <2>4
      <3>2. cash'[t] > 0 => Published(t)' \/ Held("sentry", t)'
        BY <2>2, <3>1, CashStaysHeld
      <3> QED BY <2>2, <3>1, <3>2, HeldKept DEF WorkIsHeld, SaleIsHeld, Points
    <2> QED BY <2>1, <2>2, <2>3, <2>4, HeldElsewhere
  <1>2. CASE RetryFailedSales \/ RetryCommandStops \/ (\E t \in Txns : World(t)) \/ ToggleTill
             \/ UNCHANGED vars
    <2>1. UNCHANGED <<row, job, cash, orphaned>>
      BY <1>2 DEF RetryFailedSales, RetryCommandStops, World, TerminalStarts, TerminalDecides,
         SentryOrders, ToggleTill, vars, db
    <2> QED BY <2>1, HeldByJobs
  <1>3. CASE RetryNextSale
    <2>1. UNCHANGED <<job, cash, orphaned>> /\ cli.now \in Txns
      BY <1>3 DEF RetryNextSale, CliOK
    <2>2. CASE Completed(cli.now)
      <3>1. /\ row'[cli.now].status = "COMPLETE"
            /\ \A u \in Txns \ {cli.now} : row'[u] = row[u]
        BY <2>1, <2>2, WroteOrder DEF Completed, Statuses, TERMINAL_STATUSES
      <3> QED BY <2>1, <3>1, HeldByJobs
    <2>3. CASE UNCHANGED row
      BY <2>1, <2>3, HeldByJobs
    <2> QED BY <1>3, <2>2, <2>3 DEF RetryNextSale
  <1> QED
    BY <1>1, <1>2, <1>3, HeldRequest, HeldResume DEF Next

\* Whatever overlaps, a sale being worked on and cash not yet told to Fabric are in the
\* hands of a job, until one of the sale's jobs dies: with Fairness, the reason for
\* WorkEnds and CashReachesFabric.
THEOREM WorkHeldAlways == Spec => []WorkIsHeld
  <1>1. Init => WorkIsHeld
    BY DEF Init, WorkIsHeld, SaleIsHeld
  <1>2. TypeOK /\ WorkIsHeld /\ [Next]_vars => WorkIsHeld'
    BY HeldNext
  <1> QED BY <1>1, <1>2, TypeCorrect, PTL DEF Spec

-----------------------------------------------------------------------------
(* Who may write over a COMPLETE row.                                        *)

LEMMA UndoneByJob ==
  ASSUME TypeOK, CashGuarded, NEW t \in Txns, NEW j \in Jobs, Resume(j) \/ JobDies(j),
         row[t].status = "COMPLETE", row'[t].status # "COMPLETE"
  PROVE  job[j].at \in {"charge", "cancel", "sentry"} /\ Txn(j) = t /\ job'[j] # job[j]
  <1> USE DEF TypeOK
  <1>0. PICK u \in Txns : Txn(j) = u
    BY ResumedOnTxn, SuspendedOnTxn DEF JobDies
  <1>1. ASSUME NEW s \in Statuses, SetStatus(u, s) PROVE u = t
    BY <1>1, WroteStatus
  <1>2. ASSUME FinalizeCardCharge(j, u)
        PROVE  u = t /\ job'[j].at \in {"idle", "sentry"}
    BY <1>2, FinalizeWrites DEF Idle
  <1>3. CASE CartValidated(j)
    <2>1. row[u].status = "PENDING_VALIDATION"
      BY <1>0, <1>3 DEF CartValidated, CashGuarded, At
    <2>2. PICK s \in {"AWAITING_PAYMENT", "VALIDATION_FAILED"} : SetStatus(u, s)
      BY <1>0, <1>3 DEF CartValidated
    <2> QED BY <1>1, <2>1, <2>2 DEF Statuses, TERMINAL_STATUSES
  <1>4. CASE ChargeCardFailed(j) \/ SentryFailed(j) \/ CancelAnswered(j)
    <2>1. PICK s \in {"PAYMENT_FAILED", "INVENTORY_UPDATE_FAILED", "CANCELLED"} : SetStatus(u, s)
      BY <1>0, <1>4 DEF ChargeCardFailed, SentryFailed, CancelAnswered
    <2>2. job'[j] = Idle
      BY <1>4, Returned DEF ChargeCardFailed, SentryFailed, CancelAnswered
    <2>3. job[j].at \in {"charge", "cancel", "sentry"}
      BY <1>4 DEF ChargeCardFailed, SentryFailed, CancelAnswered, At
    <2> QED BY <1>0, <1>1, <2>1, <2>2, <2>3 DEF Statuses, TERMINAL_STATUSES, Idle
  <1>5. CASE ChargeCardPending(j)
    <2>1. /\ row' = [row EXCEPT ![u].status = "PAYMENT_IN_FLIGHT", ![u].method = "card"]
          /\ Suspend(j, "poll", u) /\ job[j].at = "charge"
      BY <1>0, <1>5 DEF ChargeCardPending, At
    <2>2. \A v \in Txns \ {u} : row'[v] = row[v]
      BY <2>1, WroteMethod DEF Statuses
    <2>3. job'[j].at = "poll"
      BY <2>1, Suspended DEF Points
    <2> QED BY <1>0, <2>1, <2>2, <2>3
  <1>6. CASE ChargeCardComplete(j)
    BY <1>0, <1>2, <1>6 DEF ChargeCardComplete, At
  <1>7. CASE PollComplete(j)
    BY <1>0, <1>2, <1>7 DEF PollComplete
  <1>8. CASE PollTimeout(j)
    BY <1>0, <1>1, <1>8 DEF PollTimeout, Statuses, TERMINAL_STATUSES
  <1>9. CASE SentryAccepted(j) \/ RetryOneSale(j)
    <2>1. \/ row' = row
          \/ row' = [row EXCEPT ![u].status = "COMPLETE", ![u].so = TRUE]
      BY <1>0, <1>9 DEF SentryAccepted, RetryOneSale, Completed
    <2> QED BY <2>1, WroteOrder DEF Statuses, TERMINAL_STATUSES
  <1>10. CASE PollAgain(j) \/ JobDies(j)
    BY <1>10 DEF PollAgain, JobDies, db
  <1> QED
    BY <1>3, <1>4, <1>5, <1>6, <1>7, <1>8, <1>9, <1>10 DEF Resume

\* A COMPLETE sale is undone by a late answer of Windcave or Sentry only.
THEOREM CompleteUndoneLate == Spec => OnlyLateAnswersUndo
  <1>1. TypeOK /\ CashGuarded /\ [Next]_vars =>
          [\A t \in Txns : row[t].status = "COMPLETE" /\ row'[t].status # "COMPLETE" =>
             \E j \in Jobs :
               job[j].at \in {"charge", "cancel", "sentry"} /\ Txn(j) = t /\ job'[j] # job[j]]_vars
    <2> SUFFICES ASSUME TypeOK, CashGuarded, [Next]_vars, NEW t \in Txns,
                        row[t].status = "COMPLETE", row'[t].status # "COMPLETE"
                 PROVE  \E j \in Jobs : job[j].at \in {"charge", "cancel", "sentry"}
                                        /\ Txn(j) = t /\ job'[j] # job[j]
      OBVIOUS
    <2> USE DEF TypeOK
    <2>1. CASE \E j \in Jobs : Resume(j) \/ JobDies(j)
      BY <2>1, UndoneByJob
    <2>2. ASSUME NEW j \in Jobs, NEW u \in Txns, Request(j, u) PROVE FALSE
      <3>1. row'[u].status # "COMPLETE" => row[u].status # "COMPLETE"
        BY <2>2 DEF Request, StartCheckout, ChargeCash, ChargeCard, CancelCheckout, RetrySentry,
           db
      <3>2. \A v \in Txns \ {u} : row'[v] = row[v]
        BY <2>2 DEF Request, StartCheckout, ChargeCash, ChargeCard, CancelCheckout, RetrySentry,
           SetStatus, db, RowOK
      <3> QED BY <3>1, <3>2
    <2>3. CASE RetryNextSale
      <3>1. cli.now \in Txns
        BY <2>3 DEF RetryNextSale, CliOK
      <3>2. \/ row' = row
            \/ row' = [row EXCEPT ![cli.now].status = "COMPLETE", ![cli.now].so = TRUE]
        BY <2>3 DEF RetryNextSale, Completed
      <3>3. row' = row \/ (/\ row'[cli.now].status = "COMPLETE"
                           /\ \A u \in Txns \ {cli.now} : row'[u] = row[u])
        BY <3>1, <3>2, WroteOrder DEF Statuses, TERMINAL_STATUSES
      <3> QED BY <3>1, <3>3
    <2>4. CASE \/ RetryFailedSales \/ RetryCommandStops \/ (\E u \in Txns : World(u))
               \/ ToggleTill \/ UNCHANGED vars
      BY <2>4 DEF RetryFailedSales, RetryCommandStops, World, TerminalStarts, TerminalDecides,
         SentryOrders, ToggleTill, vars, db
    <2> QED BY <2>1, <2>2, <2>3, <2>4 DEF Next
  <1> QED BY <1>1, CashInit, CashNext, TypeCorrect, PTL DEF Spec, OnlyLateAnswersUndo
=============================================================================
