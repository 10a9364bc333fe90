--------------------------- MODULE RefundProofs ---------------------------
(***************************************************************************)
(* Proofs about Refund.tla, for any sales, refunds and concurrent jobs.    *)
(* Type correctness first.  Then what a step may do, once for all          *)
(* invariants: to one refund's row, to the refunds in hand, and to the     *)
(* slots; the invariants follow from that.                                 *)
(***************************************************************************)
EXTENDS Refund, TLAPS

-----------------------------------------------------------------------------
(* What the helpers write                                                    *)

Points == {"idle", "charge", "poll", "sentry", "resend"}

\* A status write changes one status.
LEMMA StatusWritten ==
  ASSUME RowOK, NEW r \in Refunds, NEW s \in Statuses, SetStatus(r, s)
  PROVE  /\ RowOK'
         /\ refund'[r].status = s
         /\ \A q \in Refunds :
              /\ refund'[q].parent = refund[q].parent /\ refund'[q].so = refund[q].so
              /\ q # r => refund'[q].status = refund[q].status
  BY DEF RowOK, SetStatus

\* Booking completes one refund.
LEMMA BookingWritten ==
  ASSUME RowOK, NEW r \in Refunds, Booked(r)
  PROVE  /\ RowOK'
         /\ refund'[r].status = "COMPLETE" /\ refund'[r].so
         /\ refund'[r].parent = refund[r].parent
         /\ \A q \in Refunds \ {r} : refund'[q] = refund[q]
  BY DEF RowOK, Booked, Statuses, REFUND_TERMINAL_STATUSES

\* Starting fills one row.
LEMMA StartWritten ==
  ASSUME RowOK, NEW r \in Refunds, NEW s \in Sales, StartRefund(r, s)
  PROVE  /\ RowOK'
         /\ refund'[r].status = "REFUND_PENDING" /\ refund'[r].parent = s /\ ~ refund'[r].so
         /\ \A q \in Refunds \ {r} : refund'[q] = refund[q]
  BY DEF RowOK, StartRefund, Statuses, REFUND_BLOCKING_STATES

\* Suspending and returning write one slot.
LEMMA SuspendWritten ==
  ASSUME JobOK, NEW j \in Jobs, NEW p \in Points \ {"idle"}, NEW r \in Refunds, Suspend(j, p, r)
  PROVE  /\ JobOK'
         /\ job'[j].at = p /\ job'[j].refund = r
         /\ \A k \in Jobs \ {j} : job'[k] = job[k]
  BY RefundsAssumption, PollsAssumption DEF JobOK, Suspend, At, Row, Points

LEMMA ReturnWritten ==
  ASSUME JobOK, NEW j \in Jobs, Return(j)
  PROVE  /\ JobOK'
         /\ job'[j].at = "idle" /\ job'[j].refund = Nothing
         /\ \A k \in Jobs \ {j} : job'[k] = job[k]
  BY RefundsAssumption, PollsAssumption DEF JobOK, Return, Idle, At, Row

LEMMA PollWritten ==
  ASSUME JobOK, NEW j \in Jobs, PollAgain(j)
  PROVE  /\ JobOK'
         /\ \A k \in Jobs : job'[k].at = job[k].at /\ job'[k].refund = job[k].refund
  BY PollsAssumption DEF JobOK, PollAgain, At, Row

\* A suspended job works on a refund.
LEMMA SuspendedOnRefund ==
  ASSUME JobOK, NEW j \in Jobs, ~ At(j, "idle")
  PROVE  Row(j) \in Refunds
  BY DEF JobOK, At, Row

LEMMA ResumedOnRefund ==
  ASSUME JobOK, NEW j \in Jobs, Resume(j)
  PROVE  Row(j) \in Refunds
  BY SuspendedOnRefund
     DEF Resume, ChargeRefundFailed, ChargeRefundPending, ChargeRefundComplete, PollAgain,
         PollComplete, PollTimeout, SentryAccepted, SentryFailed, RetryOneRefund, At

-----------------------------------------------------------------------------
(* The shapes of a step                                                      *)

\* A job that waits for Windcave writes the outcome.
WindcaveWrite(j) ==
  /\ job[j].at \in {"charge", "poll"}
  /\ At(j, "poll") => refund[Row(j)].status = "REFUND_PAYMENT_IN_FLIGHT"
  /\ Return(j) \/ Suspend(j, "sentry", Row(j)) \/ (At(j, "charge") /\ Suspend(j, "poll", Row(j)))
  /\ Row(j) \in Refunds
  /\ \/ SetStatus(Row(j), "REFUND_PAYMENT_SUCCESS") /\ terminal[Row(j)] = "approved"
     \/ SetStatus(Row(j), "REFUND_PAYMENT_FAILED")
     \/ SetStatus(Row(j), "REFUND_PAYMENT_IN_FLIGHT")
  /\ UNCHANGED <<link, cashOut>>

SentryWrite(j) ==
  /\ At(j, "sentry")
  /\ Row(j) \in Refunds
  /\ SetStatus(Row(j), "REFUND_INVENTORY_UPDATE_FAILED")
  /\ Return(j)
  /\ UNCHANGED <<link, cashOut>>

BookingWrite(r) ==
  /\ r \in InHand /\ r \in returned
  /\ r \in Retried \/ \E j \in Jobs : At(j, "sentry") /\ Row(j) = r /\ Return(j)
  /\ Booked(r)
  /\ UNCHANGED cashOut

RowStep ==
  \/ UNCHANGED <<refund, link, cashOut>>
  \/ \E r \in Refunds, s \in Sales : StartRefund(r, s)
  \/ \E j \in Jobs, r \in Refunds : ChargeCashRefund(j, r)
  \/ \E r \in Refunds : CancelRefund(r)
  \/ \E j \in Jobs : WindcaveWrite(j) \/ SentryWrite(j)
  \/ \E r \in Refunds : BookingWrite(r)

LEMMA StepOfRows ==
  ASSUME TypeOK, [Next]_vars
  PROVE  RowStep
  <1> USE DEF TypeOK
  <1>1. ASSUME NEW j \in Jobs, Resume(j) PROVE RowStep
    <2>0. Row(j) \in Refunds
      BY <1>1, ResumedOnRefund
    <2>1. CASE ChargeRefundFailed(j) \/ ChargeRefundPending(j)
      BY <2>0, <2>1 DEF ChargeRefundFailed, ChargeRefundPending, RowStep, WindcaveWrite, At
    <2>2. CASE ChargeRefundComplete(j)
      BY <2>0, <2>2 DEF ChargeRefundComplete, FinalizeRefundCharge, RowStep, WindcaveWrite, At
    <2>3. CASE PollComplete(j)
      BY <2>0, <2>3 DEF PollComplete, FinalizeRefundCharge, RowStep, WindcaveWrite, At
    <2>4. CASE PollTimeout(j)
      BY <2>0, <2>4 DEF PollTimeout, RowStep, WindcaveWrite, At
    <2>5. CASE SentryAccepted(j) \/ RetryOneRefund(j)
      <3>1. /\ Row(j) \in InHand
            /\ Row(j) \in Retried \/ (At(j, "sentry") /\ Return(j))
        BY <2>5 DEF SentryAccepted, RetryOneRefund, InHand, Retried, At
      <3> QED BY <2>0, <2>5, <3>1 DEF SentryAccepted, RetryOneRefund, RowStep, BookingWrite
    <2>6. CASE SentryFailed(j)
      BY <2>0, <2>6 DEF SentryFailed, RowStep, SentryWrite
    <2>7. CASE PollAgain(j)
      BY <2>7 DEF PollAgain, db, RowStep
    <2> QED BY <1>1, <2>1, <2>2, <2>3, <2>4, <2>5, <2>6, <2>7 DEF Resume
  <1>2. CASE RetryNextRefund
    <2>1. cli.now \in Refunds /\ cli.now \in InHand /\ cli.now \in Retried
      BY <1>2 DEF RetryNextRefund, RecordsOK, InHand, Retried
    <2> QED BY <1>2, <2>1 DEF RetryNextRefund, RowStep, BookingWrite
  <1>3. CASE \E j \in Jobs, r \in Refunds : Request(j, r)
    BY <1>3 DEF Request, ChargeCardRefund, RetrySentry, db, RowStep
  <1>4. CASE \E r \in Refunds : World(r) \/ CancelRefund(r) \/ \E s \in Sales : StartRefund(r, s)
    BY <1>4 DEF World, TerminalStarts, TerminalDecides, SentryReturns, db, RowStep
  <1>5. CASE \/ \E j \in Jobs : JobDies(j)
             \/ RetryFailedRefunds \/ RetryCommandStops \/ UNCHANGED vars
    BY <1>5 DEF JobDies, RetryFailedRefunds, RetryCommandStops, vars, db, RowStep
  <1> QED
    BY <1>1, <1>2, <1>3, <1>4, <1>5 DEF Next

\* The slots: what a job that is suspended has ground to wait for.
NewWait(j, p, r) ==
  /\ Suspend(j, p, r)
  /\ \/ /\ p = "charge"
        /\ refund[r].status = "REFUND_PENDING" /\ refund[r].parent \in CardSales
        /\ UNCHANGED refund
     \/ p = "poll" /\ At(j, "charge") /\ Row(j) = r
     \/ /\ p = "sentry" /\ SetStatus(r, "REFUND_PAYMENT_SUCCESS")
        /\ \/ refund[r].status = "REFUND_PENDING"
           \/ job[j].at \in {"charge", "poll"} /\ Row(j) = r
     \/ /\ p = "resend"
        /\ refund[r].status = "REFUND_INVENTORY_UPDATE_FAILED"
        /\ UNCHANGED refund

JobStep ==
  \/ \A k \in Jobs : job'[k].at = job[k].at /\ job'[k].refund = job[k].refund
  \/ \E j \in Jobs : Return(j)
  \/ \E j \in Jobs, p \in Points \ {"idle"}, r \in Refunds : NewWait(j, p, r)

LEMMA StepOfJobs ==
  ASSUME TypeOK, [Next]_vars
  PROVE  JobOK' /\ JobStep
  <1> USE DEF TypeOK
  <1>0. CASE UNCHANGED job
    BY <1>0 DEF JobOK, JobStep, At, Row
  <1>1. ASSUME NEW j \in Jobs, Return(j) PROVE JobOK' /\ JobStep
    BY <1>1, ReturnWritten DEF JobStep
  <1>2. ASSUME NEW j \in Jobs, NEW p \in Points \ {"idle"}, NEW r \in Refunds, NewWait(j, p, r)
        PROVE  JobOK' /\ JobStep
    <2>1. JobOK'
      BY <1>2, SuspendWritten DEF NewWait
    <2> QED BY <1>2, <2>1 DEF JobStep
  <1>3. ASSUME NEW j \in Jobs, NEW r \in Refunds, Request(j, r) PROVE JobOK' /\ JobStep
    <2>1. CASE ChargeCashRefund(j, r)
      BY <1>2, <2>1 DEF ChargeCashRefund, NewWait, Points
    <2>2. CASE ChargeCardRefund(j, r)
      BY <1>2, <2>2 DEF ChargeCardRefund, NewWait, Points, db
    <2>3. CASE RetrySentry(j, r)
      BY <1>2, <2>3 DEF RetrySentry, NewWait, Points, db
    <2> QED BY <1>3, <2>1, <2>2, <2>3 DEF Request
  <1>4. ASSUME NEW j \in Jobs, Resume(j) PROVE JobOK' /\ JobStep
    <2>0. Row(j) \in Refunds
      BY <1>4, ResumedOnRefund
    <2>1. CASE ChargeRefundPending(j)
      BY <1>2, <2>0, <2>1 DEF ChargeRefundPending, NewWait, Points
    <2>2. ASSUME FinalizeRefundCharge(j, Row(j)), job[j].at \in {"charge", "poll"}
          PROVE  JobOK' /\ JobStep
      BY <1>1, <1>2, <2>0, <2>2 DEF FinalizeRefundCharge, NewWait, Points
    <2>3. CASE PollAgain(j)
      BY <2>3, PollWritten DEF JobStep
    <2>4. CASE ChargeRefundComplete(j) \/ PollComplete(j)
      BY <1>1, <2>2, <2>4 DEF ChargeRefundComplete, PollComplete, At
    <2>5. CASE \/ ChargeRefundFailed(j) \/ PollTimeout(j) \/ SentryAccepted(j)
               \/ SentryFailed(j) \/ RetryOneRefund(j)
      BY <1>1, <2>5 DEF ChargeRefundFailed, PollTimeout, SentryAccepted, SentryFailed,
                        RetryOneRefund
    <2> QED BY <1>4, <2>1, <2>3, <2>4, <2>5 DEF Resume
  <1>5. ASSUME NEW j \in Jobs, JobDies(j) PROVE JobOK' /\ JobStep
    BY <1>1, <1>5 DEF JobDies
  <1>6. CASE \E r \in Refunds : World(r) \/ CancelRefund(r) \/ \E s \in Sales : StartRefund(r, s)
    BY <1>0, <1>6 DEF World, TerminalStarts, TerminalDecides, SentryReturns, CancelRefund,
                      StartRefund
  <1>7. CASE RetryFailedRefunds \/ RetryNextRefund \/ RetryCommandStops \/ UNCHANGED vars
    BY <1>0, <1>7 DEF RetryFailedRefunds, RetryNextRefund, RetryCommandStops, vars
  <1> QED
    BY <1>3, <1>4, <1>5, <1>6, <1>7 DEF Next

\* The command's list: failed refunds, or what is left of them.
CliStep ==
  \/ UNCHANGED cli
  \/ /\ cli'.todo \subseteq cli.todo /\ cli'.now \in cli.todo \cup {Nothing}
  \/ /\ UNCHANGED refund
     /\ \A r \in cli'.todo \cup ({cli'.now} \ {Nothing}) :
          refund[r].status = "REFUND_INVENTORY_UPDATE_FAILED"

LEMMA StepOfCli ==
  ASSUME TypeOK, [Next]_vars
  PROVE  /\ cli' \in [now : Refunds \cup {Nothing}, todo : SUBSET Refunds]
         /\ CliStep
  <1> USE DEF TypeOK
  <1>1. CASE UNCHANGED cli
    BY <1>1 DEF RecordsOK, CliStep
  <1>2. CASE RetryFailedRefunds
    BY <1>2 DEF RetryFailedRefunds, CliNext, CliStep, db
  <1>3. CASE RetryNextRefund
    BY <1>3 DEF RetryNextRefund, CliNext, CliStep, RecordsOK
  <1>4. CASE RetryCommandStops
    BY <1>4 DEF RetryCommandStops, CliStep
  <1>5. RetryFailedRefunds \/ RetryNextRefund \/ RetryCommandStops \/ UNCHANGED cli
    BY DEF Next, Request, Resume, World, vars, StartRefund, ChargeCashRefund, ChargeCardRefund,
           ChargeRefundFailed, ChargeRefundPending, ChargeRefundComplete, PollAgain,
           PollComplete, PollTimeout, SentryAccepted, SentryFailed, CancelRefund, RetrySentry,
           RetryOneRefund, JobDies, TerminalStarts, TerminalDecides, SentryReturns
  <1> QED BY <1>1, <1>2, <1>3, <1>4, <1>5

-----------------------------------------------------------------------------
(* Type correctness                                                          *)

LEMMA TypeInit == Init => TypeOK
  <1> SUFFICES ASSUME Init PROVE TypeOK
    OBVIOUS
  <1>1. RowOK
    BY DEF Init, RowOK, Statuses
  <1>2. JobOK
    BY PollsAssumption DEF Init, JobOK, Idle, At, Row
  <1>3. RecordsOK
    BY DEF Init, RecordsOK
  <1> QED BY <1>1, <1>2, <1>3 DEF TypeOK

LEMMA TypeRow == ASSUME TypeOK, [Next]_vars PROVE RowOK'
  <1> USE DEF TypeOK
  <1>1. CASE UNCHANGED refund
    BY <1>1 DEF RowOK
  <1>2. ASSUME NEW r \in Refunds, NEW s \in Sales, StartRefund(r, s) PROVE RowOK'
    BY <1>2, StartWritten
  <1>3. ASSUME NEW r \in Refunds, NEW s \in Statuses, SetStatus(r, s) PROVE RowOK'
    BY <1>3, StatusWritten
  <1>4. ASSUME NEW r \in Refunds, Booked(r) PROVE RowOK'
    BY <1>4, BookingWritten
  <1>5. /\ "REFUND_PAYMENT_SUCCESS" \in Statuses /\ "REFUND_PAYMENT_FAILED" \in Statuses
        /\ "REFUND_PAYMENT_IN_FLIGHT" \in Statuses /\ "CANCELLED" \in Statuses
        /\ "REFUND_INVENTORY_UPDATE_FAILED" \in Statuses
    BY DEF Statuses, REFUND_TERMINAL_STATUSES, REFUND_BLOCKING_STATES
  <1> QED
    BY <1>1, <1>2, <1>3, <1>4, <1>5, StepOfRows
       DEF RowStep, ChargeCashRefund, CancelRefund, WindcaveWrite, SentryWrite, BookingWrite

LEMMA TypeRecords == ASSUME TypeOK, [Next]_vars PROVE RecordsOK'
  <1> USE DEF TypeOK
  <1>1. cli' \in [now : Refunds \cup {Nothing}, todo : SUBSET Refunds]
    BY StepOfCli
  <1>2. link' \in [Sales -> Refunds \cup {Nothing}]
    <2>1. ASSUME NEW r \in Refunds, BookingWrite(r) PROVE link' \in [Sales -> Refunds \cup {Nothing}]
      BY <2>1 DEF BookingWrite, Booked, RecordsOK
    <2> QED
      BY <2>1, StepOfRows
         DEF RowStep, StartRefund, ChargeCashRefund, CancelRefund, WindcaveWrite, SentryWrite,
             RecordsOK
  <1>3. cashOut' \in [Refunds -> Nat]
    BY StepOfRows
       DEF RowStep, StartRefund, ChargeCashRefund, CancelRefund, WindcaveWrite, SentryWrite,
           BookingWrite, RecordsOK
  <1>4. /\ stamped' \subseteq Refunds /\ events' \in [Refunds -> Nat]
    <2>1. CASE UNCHANGED <<stamped, events>>
      BY <2>1 DEF RecordsOK
    <2>2. ASSUME NEW j \in Jobs, SentryAccepted(j) \/ SentryFailed(j)
          PROVE  stamped' \subseteq Refunds /\ events' \in [Refunds -> Nat]
      <3>1. Row(j) \in Refunds
        BY <2>2, SuspendedOnRefund DEF SentryAccepted, SentryFailed, At
      <3> QED BY <2>2, <3>1 DEF SentryAccepted, SentryFailed, RecordsOK
    <2> QED
      BY <2>1, <2>2
         DEF Next, Request, Resume, World, vars, db, StartRefund, ChargeCashRefund,
             ChargeCardRefund, ChargeRefundFailed, ChargeRefundPending, ChargeRefundComplete,
             PollAgain, PollComplete, PollTimeout, CancelRefund, RetrySentry, RetryOneRefund,
             RetryFailedRefunds, RetryNextRefund, RetryCommandStops, JobDies, TerminalStarts,
             TerminalDecides, SentryReturns
  <1>5. /\ terminal' \in [Refunds -> {"none", "pending", "approved", "declined", "signature"}]
        /\ returned' \subseteq Refunds
    <2>1. CASE UNCHANGED <<terminal, returned>>
      BY <2>1 DEF RecordsOK
    <2>2. ASSUME NEW r \in Refunds, World(r)
          PROVE  /\ terminal' \in [Refunds -> {"none", "pending", "approved", "declined",
                                               "signature"}]
                 /\ returned' \subseteq Refunds
      BY <2>2 DEF World, TerminalStarts, TerminalDecides, SentryReturns, RecordsOK
    <2> QED
      BY <2>1, <2>2
         DEF Next, Request, Resume, vars, db, StartRefund, ChargeCashRefund,
             ChargeCardRefund, ChargeRefundFailed, ChargeRefundPending, ChargeRefundComplete,
             PollAgain, PollComplete, PollTimeout, SentryAccepted, SentryFailed, CancelRefund,
             RetrySentry, RetryOneRefund, RetryFailedRefunds, RetryNextRefund,
             RetryCommandStops, JobDies
  <1>6. orphaned' \subseteq Refunds
    <2>1. CASE UNCHANGED orphaned
      BY <2>1 DEF RecordsOK
    <2>2. ASSUME NEW j \in Jobs, JobDies(j) PROVE orphaned' \subseteq Refunds
      <3>1. Row(j) \in Refunds
        BY <2>2, SuspendedOnRefund DEF JobDies
      <3> QED BY <2>2, <3>1 DEF JobDies, RecordsOK
    <2> QED
      BY <2>1, <2>2
         DEF Next, Request, Resume, World, vars, StartRefund, ChargeCashRefund,
             ChargeCardRefund, ChargeRefundFailed, ChargeRefundPending, ChargeRefundComplete,
             PollAgain, PollComplete, PollTimeout, SentryAccepted, SentryFailed, CancelRefund,
             RetrySentry, RetryOneRefund, RetryFailedRefunds, RetryNextRefund,
             RetryCommandStops, TerminalStarts, TerminalDecides, SentryReturns
  <1> QED
    BY <1>1, <1>2, <1>3, <1>4, <1>5, <1>6 DEF RecordsOK

\* Rows, slots, the command's list and the records keep their shape.
THEOREM TypeCorrect == Spec => []TypeOK
  <1>1. TypeOK /\ [Next]_vars => TypeOK'
    BY TypeRow, StepOfJobs, TypeRecords DEF TypeOK
  <1> QED BY <1>1, TypeInit, PTL DEF Spec

-----------------------------------------------------------------------------
(* What a step may do to one refund                                          *)

Kept(q) == refund'[q].parent = refund[q].parent /\ refund'[q].so = refund[q].so

SameRow(q) == Kept(q) /\ refund'[q].status = refund[q].status /\ cashOut'[q] = cashOut[q]

Started(q) ==
  /\ refund[q].status = "none" /\ refund'[q].status = "REFUND_PENDING"
  /\ refund'[q].parent \in Sales /\ ~ refund'[q].so
  /\ Refundable(refund'[q].parent)
  /\ cashOut' = cashOut
  /\ \A r \in Refunds \ {q} : refund'[r] = refund[r]

PaidInCash(q) ==
  /\ Kept(q)
  /\ refund[q].status = "REFUND_PENDING" /\ refund'[q].status = "REFUND_PAYMENT_SUCCESS"
  /\ refund[q].parent \in CashSales
  /\ cashOut'[q] = cashOut[q] + 1

Cancelled(q) ==
  /\ Kept(q) /\ cashOut'[q] = cashOut[q]
  /\ refund[q].status \in {"REFUND_PENDING", "REFUND_PAYMENT_IN_FLIGHT"}
  /\ refund'[q].status = "CANCELLED"

Answered(q) ==
  /\ Kept(q) /\ cashOut'[q] = cashOut[q]
  /\ \E j \in Jobs : job[j].at \in {"charge", "poll"} /\ Row(j) = q
  /\ \/ refund'[q].status = "REFUND_PAYMENT_SUCCESS" /\ terminal[q] = "approved"
     \/ refund'[q].status \in {"REFUND_PAYMENT_FAILED", "REFUND_PAYMENT_IN_FLIGHT"}

Unbooked(q) ==
  /\ Kept(q) /\ cashOut'[q] = cashOut[q]
  /\ q \in InHand
  /\ refund'[q].status = "REFUND_INVENTORY_UPDATE_FAILED"

BookedRow(q) ==
  /\ refund'[q].parent = refund[q].parent /\ cashOut'[q] = cashOut[q]
  /\ q \in InHand /\ q \in returned
  /\ refund'[q].status = "COMPLETE" /\ refund'[q].so

Effect(q) ==
  \/ SameRow(q) \/ Started(q) \/ PaidInCash(q) \/ Cancelled(q) \/ Answered(q) \/ Unbooked(q)
  \/ BookedRow(q)

LEMMA EffectOfStep ==
  ASSUME TypeOK, [Next]_vars, NEW q \in Refunds
  PROVE  Effect(q)
  <1> USE DEF TypeOK
  <1>0. /\ "REFUND_PAYMENT_SUCCESS" \in Statuses /\ "REFUND_PAYMENT_FAILED" \in Statuses
        /\ "REFUND_PAYMENT_IN_FLIGHT" \in Statuses /\ "CANCELLED" \in Statuses
        /\ "REFUND_INVENTORY_UPDATE_FAILED" \in Statuses
    BY DEF Statuses, REFUND_TERMINAL_STATUSES, REFUND_BLOCKING_STATES
  <1>1. CASE UNCHANGED <<refund, link, cashOut>>
    BY <1>1 DEF Effect, SameRow, Kept
  <1>2. ASSUME NEW r \in Refunds, NEW s \in Sales, StartRefund(r, s) PROVE Effect(q)
    <2>1. /\ refund[r].status = "none" /\ Refundable(s) /\ cashOut' = cashOut
      BY <1>2 DEF StartRefund
    <2>2. /\ refund'[r].status = "REFUND_PENDING" /\ refund'[r].parent = s /\ ~ refund'[r].so
          /\ \A p \in Refunds \ {r} : refund'[p] = refund[p]
      BY <1>2, StartWritten
    <2> QED BY <2>1, <2>2 DEF Effect, SameRow, Kept, Started
  <1>3. ASSUME NEW j \in Jobs, NEW r \in Refunds, ChargeCashRefund(j, r) PROVE Effect(q)
    <2>1. /\ refund[r].status = "REFUND_PENDING" /\ refund[r].parent \in CashSales
          /\ SetStatus(r, "REFUND_PAYMENT_SUCCESS")
          /\ cashOut' = [cashOut EXCEPT ![r] = @ + 1]
      BY <1>3 DEF ChargeCashRefund
    <2>2. cashOut'[r] = cashOut[r] + 1 /\ \A p \in Refunds \ {r} : cashOut'[p] = cashOut[p]
      BY <2>1 DEF RecordsOK
    <2>3. /\ refund'[r].status = "REFUND_PAYMENT_SUCCESS"
          /\ \A p \in Refunds : Kept(p) /\ (p # r => refund'[p].status = refund[p].status)
      BY <1>0, <2>1, StatusWritten DEF Kept
    <2> QED BY <2>1, <2>2, <2>3 DEF Effect, SameRow, PaidInCash
  <1>4. ASSUME NEW r \in Refunds, CancelRefund(r) PROVE Effect(q)
    <2>1. /\ refund[r].status \in {"REFUND_PENDING", "REFUND_PAYMENT_IN_FLIGHT"}
          /\ SetStatus(r, "CANCELLED") /\ cashOut' = cashOut
      BY <1>4 DEF CancelRefund
    <2>2. /\ refund'[r].status = "CANCELLED"
          /\ \A p \in Refunds : Kept(p) /\ (p # r => refund'[p].status = refund[p].status)
      BY <1>0, <2>1, StatusWritten DEF Kept
    <2> QED BY <2>1, <2>2 DEF Effect, SameRow, Cancelled
  <1>5. ASSUME NEW j \in Jobs, WindcaveWrite(j) PROVE Effect(q)
    <2>1. PICK s \in {"REFUND_PAYMENT_SUCCESS", "REFUND_PAYMENT_FAILED",
                      "REFUND_PAYMENT_IN_FLIGHT"} :
            /\ SetStatus(Row(j), s)
            /\ s = "REFUND_PAYMENT_SUCCESS" => terminal[Row(j)] = "approved"
      BY <1>5 DEF WindcaveWrite
    <2>2. Row(j) \in Refunds /\ job[j].at \in {"charge", "poll"} /\ cashOut' = cashOut
      BY <1>5 DEF WindcaveWrite
    <2>3. /\ refund'[Row(j)].status = s
          /\ \A p \in Refunds : Kept(p) /\ (p # Row(j) => refund'[p].status = refund[p].status)
      BY <1>0, <2>1, <2>2, StatusWritten DEF Kept
    <2> QED BY <2>1, <2>2, <2>3 DEF Effect, SameRow, Answered
  <1>6. ASSUME NEW j \in Jobs, SentryWrite(j) PROVE Effect(q)
    <2>1. /\ Row(j) \in Refunds /\ cashOut' = cashOut
          /\ SetStatus(Row(j), "REFUND_INVENTORY_UPDATE_FAILED")
      BY <1>6 DEF SentryWrite
    <2>2. Row(j) \in InHand
      BY <1>6 DEF SentryWrite, InHand, At
    <2>3. /\ refund'[Row(j)].status = "REFUND_INVENTORY_UPDATE_FAILED"
          /\ \A p \in Refunds : Kept(p) /\ (p # Row(j) => refund'[p].status = refund[p].status)
      BY <1>0, <2>1, StatusWritten DEF Kept
    <2> QED BY <2>1, <2>2, <2>3 DEF Effect, SameRow, Unbooked
  <1>7. ASSUME NEW r \in Refunds, BookingWrite(r) PROVE Effect(q)
    <2>1. /\ refund'[r].status = "COMPLETE" /\ refund'[r].so
          /\ refund'[r].parent = refund[r].parent
          /\ \A p \in Refunds \ {r} : refund'[p] = refund[p]
      BY <1>7, BookingWritten DEF BookingWrite
    <2>2. r \in InHand /\ r \in returned /\ cashOut' = cashOut
      BY <1>7 DEF BookingWrite
    <2> QED BY <2>1, <2>2 DEF Effect, SameRow, Kept, BookedRow
  <1> QED
    BY <1>1, <1>2, <1>3, <1>4, <1>5, <1>6, <1>7, StepOfRows DEF RowStep

\* A job that waits after a step waited so before, or has ground to.
LEMMA WaitOfStep ==
  ASSUME TypeOK, [Next]_vars, NEW k \in Jobs, job'[k].at # "idle"
  PROVE  \/ job'[k].at = job[k].at /\ job'[k].refund = job[k].refund
         \/ job'[k].refund \in Refunds /\ NewWait(k, job'[k].at, job'[k].refund)
  <1> USE DEF TypeOK
  <1>1. CASE \A j \in Jobs : job'[j].at = job[j].at /\ job'[j].refund = job[j].refund
    BY <1>1
  <1>2. ASSUME NEW j \in Jobs, Return(j)
        PROVE  job'[k] = job[k]
    BY <1>2, ReturnWritten
  <1>3. ASSUME NEW j \in Jobs, NEW p \in Points \ {"idle"}, NEW r \in Refunds, NewWait(j, p, r)
        PROVE  \/ job'[k] = job[k]
               \/ job'[k].refund \in Refunds /\ NewWait(k, job'[k].at, job'[k].refund)
    <2>1. /\ job'[j].at = p /\ job'[j].refund = r
          /\ \A i \in Jobs \ {j} : job'[i] = job[i]
      BY <1>3, SuspendWritten DEF NewWait
    <2> QED BY <1>3, <2>1
  <1> QED BY <1>1, <1>2, <1>3, StepOfJobs DEF JobStep

\* What is in hand after a step was so before, or is settled by now.
LEMMA HandOfStep ==
  ASSUME TypeOK, Known, [Next]_vars, NEW q \in Refunds, q \in InHand'
  PROVE  q \in InHand \/ (refund'[q].status \in Settled /\ refund[q].status # "none")
  <1> USE DEF TypeOK
  <1>1. CASE q \in cli'.todo \cup ({cli'.now} \ {Nothing})
    BY <1>1, StepOfCli DEF CliStep, InHand, Settled
  <1>2. ASSUME NEW k \in Jobs, job'[k].at \in {"sentry", "resend"}, job'[k].refund = q
        PROVE  q \in InHand \/ (refund'[q].status \in Settled /\ refund[q].status # "none")
    <2>1. CASE job'[k].at = job[k].at /\ job'[k].refund = job[k].refund
      BY <1>2, <2>1 DEF InHand, Row
    <2>2. CASE NewWait(k, job'[k].at, q)
      <3>1. CASE job'[k].at = "sentry"
        <4>1. /\ SetStatus(q, "REFUND_PAYMENT_SUCCESS")
              /\ refund[q].status = "REFUND_PENDING" \/ Row(k) = q
          BY <2>2, <3>1 DEF NewWait
        <4>2. refund[q].status # "none"
          BY <4>1 DEF Known
        <4>3. refund'[q].status = "REFUND_PAYMENT_SUCCESS"
          BY <4>1, StatusWritten DEF Statuses, REFUND_BLOCKING_STATES
        <4> QED BY <4>2, <4>3 DEF Settled
      <3>2. CASE job'[k].at = "resend"
        BY <2>2, <3>2 DEF NewWait, Settled
      <3> QED BY <1>2, <3>1, <3>2
    <2> QED BY <1>2, <2>1, <2>2, WaitOfStep
  <1> QED BY <1>1, <1>2 DEF InHand, Row

\* Sentry gets only what is in hand, and money that went back stays there.
LEMMA WorldOfStep ==
  ASSUME TypeOK, [Next]_vars
  PROVE  /\ returned \subseteq returned' /\ returned' \subseteq returned \cup InHand
         /\ \A r \in Refunds : terminal[r] = "approved" => terminal'[r] = "approved"
  <1> USE DEF TypeOK
  <1>1. CASE UNCHANGED <<terminal, returned>>
    BY <1>1
  <1>2. ASSUME NEW r \in Refunds, TerminalStarts(r) \/ TerminalDecides(r)
        PROVE  /\ returned' = returned
               /\ \A q \in Refunds : terminal[q] = "approved" => terminal'[q] = "approved"
    BY <1>2 DEF TerminalStarts, TerminalDecides, RecordsOK
  <1>3. ASSUME NEW r \in Refunds, SentryReturns(r)
        PROVE  /\ terminal' = terminal
               /\ returned \subseteq returned' /\ returned' \subseteq returned \cup InHand
    <2>1. r \in InHand
      BY <1>3, RefundsAssumption DEF SentryReturns, InHand
    <2> QED BY <1>3, <2>1 DEF SentryReturns
  <1> QED
    BY <1>1, <1>2, <1>3
       DEF Next, Request, Resume, World, vars, db, StartRefund, ChargeCashRefund,
           ChargeCardRefund, ChargeRefundFailed, ChargeRefundPending, ChargeRefundComplete,
           PollAgain, PollComplete, PollTimeout, SentryAccepted, SentryFailed, CancelRefund,
           RetrySentry, RetryOneRefund, RetryFailedRefunds, RetryNextRefund,
           RetryCommandStops, JobDies

LEMMA CashOfStep ==
  ASSUME TypeOK, [Next]_vars, NEW q \in Refunds
  PROVE  cashOut[q] \in Nat /\ cashOut'[q] \in Nat /\ cashOut'[q] >= cashOut[q]
  <1>1. cashOut[q] \in Nat
    BY DEF TypeOK, RecordsOK
  <1>2. cashOut'[q] = cashOut[q] \/ cashOut'[q] = cashOut[q] + 1
    BY EffectOfStep
       DEF Effect, SameRow, Started, PaidInCash, Cancelled, Answered, Unbooked, BookedRow
  <1> QED BY <1>1, <1>2

LEMMA PaidStaysPaid ==
  ASSUME TypeOK, [Next]_vars, NEW q \in Refunds, PaidBack(q)
  PROVE  PaidBack(q)'
  BY CashOfStep, WorldOfStep DEF PaidBack

-----------------------------------------------------------------------------
(* The invariants                                                            *)

LEMMA KnownInit == Init => Known
  BY RefundsAssumption DEF Init, Known, InHand, Idle, Row

LEMMA KnownStep ==
  ASSUME TypeOK, Known, [Next]_vars
  PROVE  Known'
  <1> USE DEF TypeOK
  <1> SUFFICES ASSUME NEW r \in Refunds
               PROVE  /\ refund'[r].status = "none" <=> refund'[r].parent = Nothing
                      /\ refund'[r].status = "none" =>
                           /\ ~ refund'[r].so
                           /\ r \notin InHand' \cup returned'
                           /\ \A k \in Jobs : job'[k].refund # r
    BY DEF Known, Row
  <1>1. Nothing \notin Sales
    BY SalesAssumption
  <1>2. refund'[r].status = "none" => SameRow(r)
    BY EffectOfStep DEF Effect, Started, PaidInCash, Cancelled, Answered, Unbooked, BookedRow
  <1>3. refund'[r].status = "none" <=> refund'[r].parent = Nothing
    <2>1. CASE SameRow(r)
      BY <2>1 DEF SameRow, Kept, Known
    <2>2. CASE ~ SameRow(r)
      <3>1. \/ refund'[r].parent \in Sales
            \/ refund'[r].parent = refund[r].parent /\ refund[r].status # "none"
        BY <2>2, EffectOfStep
           DEF Effect, Started, PaidInCash, Cancelled, Answered, Unbooked, BookedRow, Kept, Known
      <3> QED BY <1>1, <1>2, <2>2, <3>1 DEF Known
    <2> QED BY <2>1, <2>2
  <1>4. ASSUME refund'[r].status = "none"
        PROVE  /\ ~ refund'[r].so
               /\ r \notin InHand' \cup returned'
               /\ \A k \in Jobs : job'[k].refund # r
    <2>1. /\ refund[r].status = "none" /\ refund'[r].so = refund[r].so
      BY <1>2, <1>4 DEF SameRow, Kept
    <2>2. /\ ~ refund[r].so /\ r \notin InHand \cup returned
          /\ \A k \in Jobs : job[k].refund # r
      BY <2>1 DEF Known, Row
    <2>3. r \notin InHand' \cup returned'
      BY <2>1, <2>2, HandOfStep, WorldOfStep
    <2>4. ASSUME NEW k \in Jobs, job'[k].refund = r PROVE FALSE
      <3>1. job'[k].at # "idle"
        BY <2>4, StepOfJobs, RefundsAssumption DEF JobOK, At, Row
      <3>2. NewWait(k, job'[k].at, r)
        BY <2>2, <2>4, <3>1, WaitOfStep
      <3>3. CASE job'[k].at = "sentry"
        <4>1. SetStatus(r, "REFUND_PAYMENT_SUCCESS")
          BY <3>2, <3>3 DEF NewWait
        <4> QED BY <1>4, <4>1, StatusWritten DEF Statuses, REFUND_BLOCKING_STATES
      <3> QED BY <2>1, <2>2, <3>2, <3>3 DEF NewWait, Row
    <2> QED BY <2>1, <2>2, <2>3, <2>4
  <1> QED BY <1>3, <1>4

LEMMA BackedInit == Init => Backed
  BY DEF Init, Backed, InHand, Settled, Idle

LEMMA BackedStep ==
  ASSUME TypeOK, Known, Backed, [Next]_vars
  PROVE  Backed'
  <1> USE DEF TypeOK
  <1> SUFFICES ASSUME NEW r \in Refunds,
                      refund'[r].status \in Settled \/ r \in InHand' \cup returned'
               PROVE  PaidBack(r)'
    BY DEF Backed
  <1>1. CASE refund[r].status \in Settled \/ r \in InHand \cup returned
    BY <1>1, PaidStaysPaid DEF Backed
  <1>2. CASE refund'[r].status \in Settled /\ refund[r].status \notin Settled /\ r \notin InHand
    <2>1. PaidInCash(r) \/ (Answered(r) /\ terminal[r] = "approved")
      BY <1>2, EffectOfStep
         DEF Effect, SameRow, Started, Cancelled, Answered, Unbooked, BookedRow, Settled
    <2>2. CASE PaidInCash(r)
      BY <2>2, CashOfStep DEF PaidInCash, PaidBack
    <2>3. CASE terminal[r] = "approved"
      BY <2>3, WorldOfStep DEF PaidBack
    <2> QED BY <2>1, <2>2, <2>3
  <1> QED BY <1>1, <1>2, HandOfStep, WorldOfStep

\* Every refund that is settled, in hand or at Sentry has been paid out.
THEOREM BackedAlways == Spec => [](Known /\ Backed)
  <1>1. Init => Known /\ Backed
    BY KnownInit, BackedInit
  <1>2. TypeOK /\ Known /\ Backed /\ [Next]_vars => (Known /\ Backed)'
    BY KnownStep, BackedStep
  <1> QED BY <1>1, <1>2, TypeCorrect, PTL DEF Spec

\* Sentry holds a refund order only for a refund that was paid out.
THEOREM OrdersArePaidOut == Spec => []OrderOnlyAfterPayout
  <1>1. TypeOK /\ Backed => OrderOnlyAfterPayout
    BY DEF TypeOK, RecordsOK, Backed, OrderOnlyAfterPayout
  <1> QED BY <1>1, TypeCorrect, BackedAlways, PTL

-----------------------------------------------------------------------------
(* Cash goes back once                                                       *)

LEMMA Kinds ==
  /\ Settled \subseteq REFUND_BLOCKING_STATES
  /\ "REFUND_PENDING" \in REFUND_BLOCKING_STATES
  /\ "REFUND_PENDING" \notin Settled /\ "none" \notin Settled
  /\ "REFUND_PAYMENT_IN_FLIGHT" \notin Settled
  /\ "none" \notin REFUND_BLOCKING_STATES /\ "CANCELLED" \notin REFUND_BLOCKING_STATES
  BY DEF Settled, REFUND_BLOCKING_STATES

\* The guard of a cash sale's refunds, once per part of CashGuarded.
LEMMA WaitsAreCard ==
  ASSUME TypeOK, Known, CashGuarded, [Next]_vars, NEW k \in Jobs,
         job'[k].at \in {"charge", "poll"}
  PROVE  refund'[job'[k].refund].parent \in CardSales
  <1> USE DEF TypeOK
  <1>1. job'[k].refund \in Refunds
    BY StepOfJobs DEF JobOK, At, Row
  <1>2. refund[job'[k].refund].parent \in CardSales
    <2>1. CASE job'[k].at = job[k].at /\ job'[k].refund = job[k].refund
      BY <2>1 DEF CashGuarded, Row
    <2>2. CASE NewWait(k, job'[k].at, job'[k].refund)
      BY <2>2 DEF NewWait, CashGuarded, At, Row
    <2> QED BY <2>1, <2>2, WaitOfStep
  <1>3. refund[job'[k].refund].status # "none"
    BY <1>1, <1>2, SalesAssumption DEF Known, Sales
  <1>4. refund'[job'[k].refund].parent = refund[job'[k].refund].parent
    BY <1>1, <1>3, EffectOfStep
       DEF Effect, SameRow, Started, PaidInCash, Cancelled, Answered, Unbooked, BookedRow, Kept
  <1> QED BY <1>2, <1>4

\* A refund of a cash sale does not go through Windcave.
LEMMA CashEffect ==
  ASSUME TypeOK, Known, CashGuarded, [Next]_vars, NEW r \in Refunds,
         refund'[r].parent \in CashSales
  PROVE  SameRow(r) \/ Started(r) \/ PaidInCash(r) \/ Cancelled(r) \/ Unbooked(r) \/ BookedRow(r)
  <1>1. CASE Answered(r)
    BY <1>1, SalesAssumption DEF Answered, Kept, CashGuarded
  <1> QED BY <1>1, EffectOfStep DEF Effect

\* What a cash sale's refund in hand, or one paid in cash, becomes.
LEMMA SettledStays ==
  ASSUME TypeOK, Known, CashGuarded, [Next]_vars, NEW r \in Refunds,
         refund'[r].parent \in CashSales,
         refund[r].status \in Settled
  PROVE  refund'[r].status \in Settled /\ cashOut'[r] = cashOut[r]
  BY CashEffect, Kinds
     DEF SameRow, Started, PaidInCash, Cancelled, Unbooked, BookedRow, Kept, Settled

LEMMA CashStep ==
  ASSUME TypeOK, Known, CashGuarded, [Next]_vars, NEW r \in Refunds
  PROVE  /\ cashOut'[r] <= 1
         /\ cashOut'[r] > 0 => refund'[r].parent \in CashSales /\ refund'[r].status \in Settled
         /\ refund'[r].parent \in CashSales /\ r \in InHand' => refund'[r].status \in Settled
  <1>0. cashOut[r] \in Nat /\ cashOut[r] <= 1
    BY CashOfStep DEF CashGuarded
  <1>1. cashOut[r] > 0 => refund[r].parent \in CashSales /\ refund[r].status \in Settled
    BY DEF CashGuarded
  <1>2. CASE PaidInCash(r)
    <2>1. cashOut[r] = 0
      BY <1>0, <1>1, <1>2, Kinds DEF PaidInCash
    <2> QED BY <1>2, <2>1 DEF PaidInCash, Kept, Settled
  <1>3. CASE ~ PaidInCash(r)
    <2>1. cashOut'[r] = cashOut[r]
      BY <1>3, EffectOfStep
         DEF Effect, SameRow, Started, Cancelled, Answered, Unbooked, BookedRow
    <2>2. ASSUME cashOut'[r] > 0
          PROVE  refund'[r].parent \in CashSales /\ refund'[r].status \in Settled
      <3>1. refund[r].parent \in CashSales /\ refund[r].status \in Settled
        BY <1>1, <2>1, <2>2
      <3>2. refund'[r].parent = refund[r].parent
        BY <3>1, Kinds, EffectOfStep
           DEF Effect, SameRow, Started, PaidInCash, Cancelled, Answered, Unbooked, BookedRow,
               Kept
      <3> QED BY <3>1, <3>2, SettledStays
    <2>3. ASSUME refund'[r].parent \in CashSales, r \in InHand'
          PROVE  refund'[r].status \in Settled
      <3>1. CASE r \in InHand
        <4>1. refund[r].status # "none"
          BY <3>1 DEF Known
        <4>2. refund'[r].parent = refund[r].parent
          BY <4>1, EffectOfStep
             DEF Effect, SameRow, Started, PaidInCash, Cancelled, Answered, Unbooked,
                 BookedRow, Kept
        <4>3. refund[r].status \in Settled
          BY <2>3, <3>1, <4>2 DEF CashGuarded
        <4> QED BY <2>3, <4>3, SettledStays
      <3> QED BY <2>3, <3>1, HandOfStep
    <2> QED BY <1>0, <2>1, <2>2, <2>3
  <1> QED BY <1>2, <1>3

\* A second refund of a cash sale starts only when none blocks, and none that
\* stopped blocking comes back.
LEMMA OneBlocks ==
  ASSUME TypeOK, Known, CashGuarded, [Next]_vars, NEW q \in Refunds, NEW r \in Refunds,
         refund'[q].parent \in CashSales, refund'[q].parent = refund'[r].parent,
         refund'[q].status \in REFUND_BLOCKING_STATES,
         refund'[r].status \in REFUND_BLOCKING_STATES
  PROVE  q = r
  <1>1. ASSUME NEW p \in Refunds, ~ Started(p), refund'[p].parent \in CashSales,
               refund'[p].status \in REFUND_BLOCKING_STATES
        PROVE  /\ refund[p].parent = refund'[p].parent
               /\ refund[p].status \in REFUND_BLOCKING_STATES
    <2>1. SameRow(p) \/ PaidInCash(p) \/ Cancelled(p) \/ Unbooked(p) \/ BookedRow(p)
      BY <1>1, CashEffect
    <2>2. refund[p].parent = refund'[p].parent
      BY <2>1 DEF SameRow, PaidInCash, Cancelled, Unbooked, BookedRow, Kept
    <2>3. p \in InHand => refund[p].status \in REFUND_BLOCKING_STATES
      BY <1>1, <2>2, Kinds DEF CashGuarded
    <2> QED
      BY <1>1, <2>1, <2>2, <2>3, Kinds
         DEF SameRow, PaidInCash, Cancelled, Unbooked, BookedRow
  <1>2. ASSUME NEW p \in Refunds, NEW o \in Refunds, Started(p), p # o,
               refund'[p].parent = refund'[o].parent,
               refund'[o].status \in REFUND_BLOCKING_STATES
        PROVE  FALSE
    <2>1. refund'[o] = refund[o] /\ Refundable(refund'[p].parent)
      BY <1>2 DEF Started
    <2> QED BY <1>2, <2>1 DEF Refundable, RefundsOf
  <1>3. CASE ~ Started(q) /\ ~ Started(r)
    <2>1. /\ refund[q].parent = refund'[q].parent /\ refund[r].parent = refund'[r].parent
          /\ refund[q].status \in REFUND_BLOCKING_STATES
          /\ refund[r].status \in REFUND_BLOCKING_STATES
      BY <1>1, <1>3
    <2> QED BY <2>1 DEF CashGuarded
  <1> QED BY <1>2, <1>3

LEMMA CashGuardedInit == Init => CashGuarded
  BY SalesAssumption DEF Init, CashGuarded, InHand, Idle, REFUND_BLOCKING_STATES, Sales

LEMMA CashGuardedStep ==
  ASSUME TypeOK, Known, CashGuarded, [Next]_vars
  PROVE  CashGuarded'
  BY WaitsAreCard, CashStep, OneBlocks DEF CashGuarded, Row

LEMMA CashGuardedAlways == Spec => []CashGuarded
  <1>1. TypeOK /\ Known /\ CashGuarded /\ [Next]_vars => CashGuarded'
    BY CashGuardedStep
  <1> QED BY <1>1, CashGuardedInit, TypeCorrect, BackedAlways, PTL DEF Spec

\* The drawer pays a cash sale back at most once, over all its refunds.
THEOREM CashGoesBackOnce == Spec => []CashRefundedOnce
  <1>1. TypeOK /\ CashGuarded => CashRefundedOnce
    <2> SUFFICES ASSUME TypeOK, CashGuarded, NEW s \in CashSales, NEW q \in Refunds,
                        NEW r \in Refunds, cashOut[q] > 0, refund[q].parent = s,
                        cashOut[r] > 0, refund[r].parent = s
                 PROVE  q = r /\ cashOut[r] = 1
      BY DEF CashRefundedOnce
    <2>1. /\ refund[q].status \in REFUND_BLOCKING_STATES
          /\ refund[r].status \in REFUND_BLOCKING_STATES
      BY Kinds DEF CashGuarded
    <2>2. q = r
      BY <2>1 DEF CashGuarded
    <2>3. cashOut[r] \in Nat /\ cashOut[r] <= 1
      BY DEF TypeOK, RecordsOK, CashGuarded
    <2> QED BY <2>2, <2>3
  <1> QED BY <1>1, TypeCorrect, CashGuardedAlways, PTL

-----------------------------------------------------------------------------
(* A sale and its refund agree                                               *)

\* A step leaves a sale's link alone or points it at the refund it books.
LEMMA LinkOfStep ==
  ASSUME TypeOK, [Next]_vars, NEW s \in Sales
  PROVE  \/ link'[s] = link[s]
         \/ /\ link'[s] \in Refunds
            /\ refund[link'[s]].parent = s /\ BookedRow(link'[s])
  <1> USE DEF TypeOK
  <1>1. ASSUME NEW r \in Refunds, BookingWrite(r)
        PROVE  link'[s] = link[s] \/ (link'[s] = r /\ refund[r].parent = s /\ BookedRow(r))
    <2>1. /\ link' = [link EXCEPT ![refund[r].parent] = r]
          /\ refund'[r].status = "COMPLETE" /\ refund'[r].so
          /\ refund'[r].parent = refund[r].parent
      BY <1>1, BookingWritten DEF BookingWrite, Booked
    <2>2. r \in InHand /\ r \in returned /\ cashOut' = cashOut
      BY <1>1 DEF BookingWrite
    <2> QED BY <2>1, <2>2 DEF BookedRow, RecordsOK
  <1>2. CASE link' = link
    BY <1>2
  <1> QED
    BY <1>1, <1>2, StepOfRows
       DEF RowStep, StartRefund, ChargeCashRefund, CancelRefund, WindcaveWrite, SentryWrite

\* A booking is told to the sale.
LEMMA BookingLinks ==
  ASSUME TypeOK, Known, [Next]_vars, NEW r \in Refunds,
         refund'[r].status = "COMPLETE", refund[r].status # "COMPLETE"
  PROVE  link'[refund'[r].parent] = r
  <1> USE DEF TypeOK
  <1>1. PICK q \in Refunds : BookingWrite(q)
    <2>1. CASE \E q \in Refunds, s \in Sales : StartRefund(q, s)
      BY <2>1, StartWritten
    <2>2. ASSUME NEW q \in Refunds, NEW s \in Statuses \ {"COMPLETE"}, SetStatus(q, s)
          PROVE  FALSE
      BY <2>2, StatusWritten
    <2>3. /\ "REFUND_PAYMENT_SUCCESS" \in Statuses \ {"COMPLETE"}
          /\ "REFUND_PAYMENT_FAILED" \in Statuses \ {"COMPLETE"}
          /\ "REFUND_PAYMENT_IN_FLIGHT" \in Statuses \ {"COMPLETE"}
          /\ "CANCELLED" \in Statuses \ {"COMPLETE"}
          /\ "REFUND_INVENTORY_UPDATE_FAILED" \in Statuses \ {"COMPLETE"}
      BY DEF Statuses, REFUND_TERMINAL_STATUSES, REFUND_BLOCKING_STATES
    <2> QED
      BY <2>1, <2>2, <2>3, StepOfRows
         DEF RowStep, ChargeCashRefund, CancelRefund, WindcaveWrite, SentryWrite
  <1>2. /\ refund'[q].parent = refund[q].parent
        /\ \A p \in Refunds \ {q} : refund'[p] = refund[p]
        /\ link' = [link EXCEPT ![refund[q].parent] = q]
    BY <1>1, BookingWritten DEF BookingWrite, Booked
  <1>3. q = r
    BY <1>2
  <1>4. refund[r].parent \in Sales
    <2>1. r \in InHand
      BY <1>1, <1>3 DEF BookingWrite
    <2> QED BY <2>1 DEF Known, RowOK
  <1> QED BY <1>2, <1>3, <1>4 DEF RecordsOK

LEMMA NamesStep ==
  ASSUME TypeOK, Known, SaleNamesItsRefund, [Next]_vars
  PROVE  SaleNamesItsRefund'
  <1> USE DEF TypeOK
  <1>1. ASSUME NEW s \in Sales, link'[s] # Nothing
        PROVE  /\ refund'[link'[s]].parent = s
               /\ refund'[link'[s]].so
               /\ link'[s] \in returned'
    <2>1. CASE link'[s] = link[s]
      <3>1. /\ link[s] \in Refunds /\ refund[link[s]].parent = s
            /\ refund[link[s]].so /\ link[s] \in returned
        BY <1>1, <2>1 DEF SaleNamesItsRefund, RecordsOK
      <3>2. refund[link[s]].status # "none"
        BY <3>1 DEF Known
      <3>3. refund'[link[s]].parent = s /\ refund'[link[s]].so
        BY <3>1, <3>2, EffectOfStep
           DEF Effect, SameRow, Started, PaidInCash, Cancelled, Answered, Unbooked, BookedRow,
               Kept
      <3> QED BY <2>1, <3>1, <3>3, WorldOfStep
    <2>2. CASE /\ link'[s] \in Refunds
               /\ refund[link'[s]].parent = s /\ BookedRow(link'[s])
      BY <2>2, WorldOfStep DEF BookedRow
    <2> QED BY <2>1, <2>2, LinkOfStep
  <1>2. ASSUME NEW r \in Refunds, refund'[r].status = "COMPLETE"
        PROVE  link'[refund'[r].parent] # Nothing
    <2>1. CASE refund[r].status = "COMPLETE"
      <3>1. link[refund[r].parent] # Nothing /\ refund[r].parent \in Sales
        BY <2>1 DEF SaleNamesItsRefund, Known, RowOK
      <3>2. refund'[r].parent = refund[r].parent
        BY <2>1, EffectOfStep
           DEF Effect, SameRow, Started, PaidInCash, Cancelled, Answered, Unbooked, BookedRow,
               Kept
      <3> QED BY <3>1, <3>2, LinkOfStep, RefundsAssumption
    <2>2. CASE refund[r].status # "COMPLETE"
      BY <1>2, <2>2, BookingLinks, RefundsAssumption
    <2> QED BY <2>1, <2>2
  <1> QED BY <1>1, <1>2 DEF SaleNamesItsRefund

\* The refund a sale names is its own and booked, and a COMPLETE refund is named.
THEOREM SalesNameTheirRefunds == Spec => []SaleNamesItsRefund
  <1>1. Init => SaleNamesItsRefund
    BY DEF Init, SaleNamesItsRefund
  <1>2. TypeOK /\ Known /\ SaleNamesItsRefund /\ [Next]_vars => SaleNamesItsRefund'
    BY NamesStep
  <1> QED BY <1>1, <1>2, TypeCorrect, BackedAlways, PTL DEF Spec

-----------------------------------------------------------------------------
(* What is booked or failed at Sentry is in the outbox                       *)

LEMMA EventsOfStep ==
  ASSUME TypeOK, [Next]_vars, NEW q \in Refunds
  PROVE  events[q] \in Nat /\ events'[q] \in Nat /\ events'[q] >= events[q]
  <1>1. events \in [Refunds -> Nat]
    BY DEF TypeOK, RecordsOK
  <1>2. ASSUME NEW j \in Jobs, SentryAccepted(j) \/ SentryFailed(j)
        PROVE  events' = [events EXCEPT ![Row(j)] = @ + 1]
    BY <1>2 DEF SentryAccepted, SentryFailed
  <1>3. UNCHANGED events \/ \E j \in Jobs : SentryAccepted(j) \/ SentryFailed(j)
    BY DEF Next, Request, Resume, World, vars, db, StartRefund, ChargeCashRefund,
           ChargeCardRefund, ChargeRefundFailed, ChargeRefundPending, ChargeRefundComplete,
           PollAgain, PollComplete, PollTimeout, CancelRefund, RetrySentry, RetryOneRefund,
           RetryFailedRefunds, RetryNextRefund, RetryCommandStops, JobDies, TerminalStarts,
           TerminalDecides, SentryReturns
  <1>4. CASE UNCHANGED events
    BY <1>1, <1>4
  <1>5. ASSUME NEW j \in Jobs, events' = [events EXCEPT ![Row(j)] = @ + 1]
        PROVE  events[q] \in Nat /\ events'[q] \in Nat /\ events'[q] >= events[q]
    <2>1. CASE Row(j) = q
      BY <1>1, <1>5, <2>1
    <2>2. CASE Row(j) # q
      BY <1>1, <1>5, <2>2
    <2> QED BY <2>1, <2>2
  <1> QED BY <1>2, <1>3, <1>4, <1>5

\* A retry takes up only what failed at Sentry.
LEMMA RetriedOfStep ==
  ASSUME TypeOK, [Next]_vars, NEW q \in Refunds, q \in Retried'
  PROVE  q \in Retried \/ refund[q].status = "REFUND_INVENTORY_UPDATE_FAILED"
  <1>1. CASE q \in cli'.todo \cup ({cli'.now} \ {Nothing})
    BY <1>1, StepOfCli DEF CliStep, Retried
  <1>2. ASSUME NEW k \in Jobs, job'[k].at = "resend", job'[k].refund = q
        PROVE  q \in Retried \/ refund[q].status = "REFUND_INVENTORY_UPDATE_FAILED"
    <2>1. CASE job'[k].at = job[k].at /\ job'[k].refund = job[k].refund
      BY <1>2, <2>1 DEF Retried, Row
    <2>2. CASE NewWait(k, job'[k].at, q)
      BY <1>2, <2>2 DEF NewWait
    <2> QED BY <1>2, <2>1, <2>2, WaitOfStep
  <1> QED BY <1>1, <1>2 DEF Retried, Row

\* A status that says Sentry was asked is written with an outbox row, or over a
\* refund that has one.
LEMMA AnsweredOfStep ==
  ASSUME TypeOK, [Next]_vars, NEW q \in Refunds,
         refund'[q].status \in {"REFUND_INVENTORY_UPDATE_FAILED", "COMPLETE"}
  PROVE  refund[q].status = refund'[q].status \/ q \in Retried \/ events'[q] > 0
  <1> USE DEF TypeOK
  <1> DEFINE Goal == refund[q].status = refund'[q].status \/ q \in Retried \/ events'[q] > 0
  <1>1. CASE UNCHANGED refund
    BY <1>1
  <1>2. ASSUME NEW r \in Refunds,
               NEW s \in Statuses \ {"REFUND_INVENTORY_UPDATE_FAILED", "COMPLETE"},
               SetStatus(r, s)
        PROVE  Goal
    BY <1>2, StatusWritten
  <1>3. /\ "REFUND_PAYMENT_SUCCESS" \in Statuses /\ "REFUND_PAYMENT_FAILED" \in Statuses
        /\ "REFUND_PAYMENT_IN_FLIGHT" \in Statuses /\ "CANCELLED" \in Statuses
    BY DEF Statuses, REFUND_TERMINAL_STATUSES, REFUND_BLOCKING_STATES
  <1>4. ASSUME NEW r \in Refunds, NEW s \in Sales, StartRefund(r, s) PROVE Goal
    BY <1>4, StartWritten
  <1>5. ASSUME NEW r \in Refunds, Booked(r), r \in Retried \/ events'[r] > 0 PROVE Goal
    BY <1>5, BookingWritten
  <1>6. ASSUME NEW j \in Jobs, Row(j) \in Refunds, events' = [events EXCEPT ![Row(j)] = @ + 1]
        PROVE  events'[Row(j)] > 0
    <2>1. events[Row(j)] \in Nat /\ events'[Row(j)] = events[Row(j)] + 1
      BY <1>6 DEF RecordsOK
    <2> QED BY <2>1
  <1>7. ASSUME NEW j \in Jobs, Resume(j) PROVE Goal
    <2>0. Row(j) \in Refunds
      BY <1>7, ResumedOnRefund
    <2>1. CASE ChargeRefundFailed(j) \/ ChargeRefundPending(j) \/ PollTimeout(j)
      BY <1>1, <1>2, <1>3, <2>0, <2>1 DEF ChargeRefundFailed, ChargeRefundPending, PollTimeout
    <2>2. CASE ChargeRefundComplete(j) \/ PollComplete(j)
      BY <1>1, <1>2, <1>3, <2>0, <2>2
         DEF ChargeRefundComplete, PollComplete, FinalizeRefundCharge
    <2>3. CASE SentryAccepted(j)
      BY <1>5, <1>6, <2>0, <2>3 DEF SentryAccepted
    <2>4. CASE SentryFailed(j)
      <3>1. events'[Row(j)] > 0
        BY <1>6, <2>0, <2>4 DEF SentryFailed
      <3>2. Row(j) # q => refund'[q].status = refund[q].status
        BY <2>0, <2>4, StatusWritten DEF SentryFailed, Statuses, REFUND_TERMINAL_STATUSES
      <3> QED BY <3>1, <3>2
    <2>5. CASE RetryOneRefund(j)
      <3>1. Row(j) \in Retried
        BY <2>5 DEF RetryOneRefund, Retried, At
      <3> QED BY <1>1, <1>5, <2>0, <2>5, <3>1 DEF RetryOneRefund
    <2>6. CASE PollAgain(j)
      BY <1>1, <2>6 DEF PollAgain, db
    <2> QED BY <1>7, <2>1, <2>2, <2>3, <2>4, <2>5, <2>6 DEF Resume
  <1>8. CASE RetryNextRefund
    <2>1. cli.now \in Refunds /\ cli.now \in Retried
      BY <1>8 DEF RetryNextRefund, RecordsOK, Retried
    <2> QED BY <1>1, <1>5, <1>8, <2>1 DEF RetryNextRefund
  <1>9. CASE \E j \in Jobs, r \in Refunds : Request(j, r)
    BY <1>1, <1>2, <1>3, <1>9 DEF Request, ChargeCashRefund, ChargeCardRefund, RetrySentry, db
  <1>10. CASE \E r \in Refunds : World(r) \/ CancelRefund(r) \/ \E s \in Sales : StartRefund(r, s)
    BY <1>1, <1>2, <1>3, <1>4, <1>10
       DEF World, TerminalStarts, TerminalDecides, SentryReturns, CancelRefund, db
  <1>11. CASE \/ \E j \in Jobs : JobDies(j)
              \/ RetryFailedRefunds \/ RetryCommandStops \/ UNCHANGED vars
    BY <1>1, <1>11 DEF JobDies, RetryFailedRefunds, RetryCommandStops, vars, db
  <1> QED BY <1>7, <1>8, <1>9, <1>10, <1>11 DEF Next

LEMMA PublishedNext == TypeOK /\ Published /\ [Next]_vars => Published'
  <1> SUFFICES ASSUME TypeOK, Published, [Next]_vars, NEW q \in Refunds,
                      \/ refund'[q].status \in {"REFUND_INVENTORY_UPDATE_FAILED", "COMPLETE"}
                      \/ q \in Retried'
               PROVE  events'[q] > 0
    BY DEF Published
  <1>1. events[q] > 0 => events'[q] > 0
    BY EventsOfStep
  <1>2. CASE refund'[q].status \in {"REFUND_INVENTORY_UPDATE_FAILED", "COMPLETE"}
    BY <1>1, <1>2, AnsweredOfStep DEF Published
  <1>3. CASE q \in Retried'
    BY <1>1, <1>3, RetriedOfStep DEF Published
  <1> QED BY <1>2, <1>3

LEMMA PublishedAlways == Spec => []Published
  <1>1. Init => Published
    BY DEF Init, Published, Retried, Idle
  <1> QED BY <1>1, PublishedNext, TypeCorrect, PTL DEF Spec

\* A COMPLETE refund has reached the outbox, whoever completed it.
THEOREM CompleteRefundsArePublished == Spec => []CompleteIsPublished
  <1>1. Published => CompleteIsPublished
    BY DEF Published, CompleteIsPublished
  <1> QED BY <1>1, PublishedAlways, PTL

-----------------------------------------------------------------------------
(* Refund implements RefundLedger: each step starts, pays, returns, completes *)
(* or publishes one refund, or is invisible there.                           *)

\* A refund keeps its sale.
LEMMA SaleKept ==
  ASSUME TypeOK, Known, [Next]_vars, NEW r \in Refunds, refund[r].parent # Nothing
  PROVE  refund'[r].parent = refund[r].parent
  BY EffectOfStep
     DEF Known, Effect, SameRow, Started, PaidInCash, Cancelled, Answered, Unbooked,
         BookedRow, Kept

LEMMA TerminalStep ==
  ASSUME TypeOK, Known, CashGuarded, TerminalIsCard, [Next]_vars
  PROVE  TerminalIsCard'
  <1> SUFFICES ASSUME NEW r \in Refunds, terminal'[r] # "none"
               PROVE  refund'[r].parent \in CardSales
    BY DEF TerminalIsCard
  <1>1. CASE terminal[r] # "none"
    <2>1. refund[r].parent \in CardSales
      BY <1>1 DEF TerminalIsCard
    <2>2. refund[r].parent # Nothing
      BY <2>1, SalesAssumption DEF Sales
    <2> QED BY <2>1, <2>2, SaleKept
  <1>2. CASE terminal[r] = "none"
    <2>1. ASSUME NEW q \in Refunds, TerminalStarts(q)
          PROVE  refund'[r].parent \in CardSales
      <3>1. q = r /\ refund' = refund
        BY <1>2, <2>1 DEF TerminalStarts, TypeOK, RecordsOK, db
      <3>2. PICK j \in Jobs : job[j].at = "charge" /\ Row(j) = r
        BY <2>1, <3>1 DEF TerminalStarts, At
      <3> QED BY <3>1, <3>2 DEF CashGuarded
    <2>2. ASSUME NEW q \in Refunds, TerminalDecides(q)
          PROVE  FALSE
      BY <1>2, <2>2 DEF TerminalDecides, TypeOK, RecordsOK
    <2>3. \/ UNCHANGED terminal
          \/ \E q \in Refunds : TerminalStarts(q) \/ TerminalDecides(q)
      BY DEF Next, Request, Resume, World, vars, db, StartRefund, ChargeCashRefund,
             ChargeCardRefund, ChargeRefundFailed, ChargeRefundPending, ChargeRefundComplete,
             PollAgain, PollComplete, PollTimeout, SentryAccepted, SentryFailed, CancelRefund,
             RetrySentry, RetryOneRefund, RetryFailedRefunds, RetryNextRefund,
             RetryCommandStops, JobDies, SentryReturns
    <2> QED BY <1>2, <2>1, <2>2, <2>3
  <1> QED BY <1>1, <1>2

LEMMA LedgerInit == Init => Ledger!Init
  BY DEF Init, Ledger!Init, Sales

\* Steps that touch the rows' statuses only.
LEMMA LedgerStutter ==
  ASSUME \A r \in Refunds : refund'[r].parent = refund[r].parent,
         UNCHANGED <<terminal, returned, cashOut, events, stamped, link>>
  PROVE  UNCHANGED Ledger!vars
  BY DEF Ledger!vars

\* A booking names the refund in its sale, with or without event and stamp.
LEMMA BookedLedger ==
  ASSUME TypeOK, NEW r \in Refunds, Booked(r)
  PROVE  /\ [q \in Refunds |-> refund'[q].parent] = [q \in Refunds |-> refund[q].parent]
         /\ link' = [link EXCEPT ![[q \in Refunds |-> refund[q].parent][r]] = r]
  <1>1. \A q \in Refunds : refund'[q].parent = refund[q].parent
    BY BookingWritten DEF TypeOK
  <1>2. link' = [link EXCEPT ![refund[r].parent] = r]
    BY DEF Booked
  <1> QED BY <1>1, <1>2

LEMMA LedgerStep ==
  ASSUME TypeOK, Known, Backed, CashGuarded, Published, TerminalIsCard, [Next]_vars
  PROVE  [Ledger!Next]_(Ledger!vars)
  <1> USE DEF TypeOK
  <1>1. ASSUME NEW r \in Refunds, NEW s \in Sales, StartRefund(r, s)
        PROVE  Ledger!Next
    <2>1. refund[r].parent = Nothing
      BY <1>1 DEF StartRefund, Known
    <2>2. refund'[r].parent = s /\ \A q \in Refunds \ {r} : refund'[q] = refund[q]
      BY <1>1, StartWritten
    <2>3. UNCHANGED <<link, stamped, events, terminal, returned, cashOut>>
      BY <1>1 DEF StartRefund
    <2>4. Ledger!Start(r, s)
      BY <2>1, <2>2, <2>3 DEF Ledger!Start
    <2> QED BY <2>4 DEF Ledger!Next, Sales
  <1>2. ASSUME NEW j \in Jobs, NEW r \in Refunds, ChargeCashRefund(j, r)
        PROVE  Ledger!Next
    <2>1. /\ refund[r].status = "REFUND_PENDING" /\ refund[r].parent \in CashSales
          /\ cashOut' = [cashOut EXCEPT ![r] = @ + 1]
          /\ UNCHANGED <<link, stamped, events, terminal, returned>>
      BY <1>2 DEF ChargeCashRefund
    <2>2. ASSUME NEW q \in Refunds, refund[q].parent = refund[r].parent
          PROVE  cashOut[q] = 0
      <3>1. cashOut[q] \in Nat
        BY DEF RecordsOK
      <3>2. ASSUME cashOut[q] > 0 PROVE FALSE
        <4>1. refund[q].status \in Settled
          BY <3>2 DEF CashGuarded
        <4>2. q = r
          BY <2>1, <2>2, <4>1, Kinds DEF CashGuarded
        <4> QED BY <2>1, <4>1, <4>2, Kinds
      <3> QED BY <3>1, <3>2
    <2>3. cashOut' = [cashOut EXCEPT ![r] = 1]
      <3>1. cashOut[r] + 1 = 1
        BY <2>2
      <3> QED BY <2>1, <3>1
    <2>4. \A q \in Refunds : refund'[q].parent = refund[q].parent
      BY <1>2, StatusWritten DEF ChargeCashRefund, Statuses, REFUND_BLOCKING_STATES
    <2>5. Ledger!PayCash(r)
      BY <2>1, <2>2, <2>3, <2>4 DEF Ledger!PayCash
    <2> QED BY <2>5 DEF Ledger!Next
  <1>3. ASSUME NEW r \in Refunds, TerminalDecides(r)
        PROVE  [Ledger!Next]_(Ledger!vars)
    <2>1. /\ UNCHANGED <<refund, link, stamped, events, returned, cashOut>>
          /\ terminal[r] = "pending"
          /\ \A q \in Refunds \ {r} : terminal'[q] = terminal[q]
      BY <1>3 DEF TerminalDecides, db, RecordsOK
    <2>2. CASE terminal'[r] = "approved"
      <3>1. refund[r].parent \in CardSales
        BY <2>1 DEF TerminalIsCard
      <3>2. {q \in Refunds : terminal'[q] = "approved"}
              = {q \in Refunds : terminal[q] = "approved"} \cup {r}
        BY <2>1, <2>2
      <3>3. Ledger!PayCard(r)
        BY <2>1, <3>1, <3>2 DEF Ledger!PayCard
      <3> QED BY <3>3 DEF Ledger!Next
    <2>3. CASE terminal'[r] # "approved"
      <3>1. {q \in Refunds : terminal'[q] = "approved"}
              = {q \in Refunds : terminal[q] = "approved"}
        BY <2>1, <2>3
      <3> QED BY <2>1, <3>1 DEF Ledger!vars
    <2> QED BY <2>2, <2>3
  <1>4. ASSUME NEW r \in Refunds, TerminalStarts(r)
        PROVE  UNCHANGED Ledger!vars
    <2>1. /\ UNCHANGED <<refund, link, stamped, events, returned, cashOut>>
          /\ \A q \in Refunds : terminal'[q] = "approved" <=> terminal[q] = "approved"
      BY <1>4 DEF TerminalStarts, db, RecordsOK
    <2>2. {q \in Refunds : terminal'[q] = "approved"} = {q \in Refunds : terminal[q] = "approved"}
      BY <2>1
    <2> QED BY <2>1, <2>2 DEF Ledger!vars
  <1>5. \A r \in Refunds : r \in InHand => Ledger!PaidBack(r)
    BY DEF Backed, PaidBack, Ledger!PaidBack
  <1>6. ASSUME NEW r \in Refunds, SentryReturns(r)
        PROVE  Ledger!Next
    <2>1. r \in InHand
      BY <1>6, RefundsAssumption DEF SentryReturns, InHand
    <2>2. /\ returned' = returned \cup {r}
          /\ UNCHANGED <<refund, link, stamped, events, terminal, cashOut>>
      BY <1>6 DEF SentryReturns, db
    <2>3. Ledger!Return(r)
      BY <1>5, <2>1, <2>2 DEF Ledger!Return
    <2> QED BY <2>3 DEF Ledger!Next
  <1>7. ASSUME NEW j \in Jobs, SentryAccepted(j)
        PROVE  Ledger!Next
    <2>1. PICK r \in Refunds : Row(j) = r
      BY <1>7, SuspendedOnRefund DEF SentryAccepted, At
    <2>2. /\ r \in returned /\ Booked(r)
          /\ stamped' = stamped \cup {r} /\ events' = [events EXCEPT ![r] = @ + 1]
          /\ UNCHANGED <<terminal, returned, cashOut>>
      BY <1>7, <2>1 DEF SentryAccepted
    <2>3. Ledger!Complete(r)
      BY <2>2, BookedLedger DEF Ledger!Complete
    <2> QED BY <2>3 DEF Ledger!Next
  <1>8. ASSUME NEW j \in Jobs, SentryFailed(j)
        PROVE  Ledger!Next
    <2>1. PICK r \in Refunds : Row(j) = r
      BY <1>8, SuspendedOnRefund DEF SentryFailed, At
    <2>2. r \in InHand
      BY <1>8, <2>1 DEF SentryFailed, InHand, At
    <2>3. /\ events' = [events EXCEPT ![r] = @ + 1]
          /\ UNCHANGED <<link, stamped, terminal, returned, cashOut>>
      BY <1>8, <2>1 DEF SentryFailed
    <2>4. \A q \in Refunds : refund'[q].parent = refund[q].parent
      BY <1>8, <2>1, StatusWritten DEF SentryFailed, Statuses, REFUND_BLOCKING_STATES
    <2>5. Ledger!PublishUnbooked(r)
      BY <1>5, <2>2, <2>3, <2>4 DEF Ledger!PublishUnbooked
    <2> QED BY <2>5 DEF Ledger!Next
  <1>9. ASSUME NEW r \in Refunds, r \in Retried, r \in returned /\ Booked(r),
               UNCHANGED <<stamped, events, terminal, returned, cashOut>>
        PROVE  Ledger!Next
    <2>1. events[r] > 0
      BY <1>9 DEF Published
    <2>2. Ledger!CompleteLater(r)
      BY <1>9, <2>1, BookedLedger DEF Ledger!CompleteLater
    <2> QED BY <2>2 DEF Ledger!Next
  <1>10. ASSUME NEW j \in Jobs, RetryOneRefund(j)
         PROVE  [Ledger!Next]_(Ledger!vars)
    <2>1. Row(j) \in Refunds /\ Row(j) \in Retried
      BY <1>10, SuspendedOnRefund DEF RetryOneRefund, Retried, At
    <2>2. /\ UNCHANGED <<stamped, events, terminal, returned, cashOut>>
          /\ (Row(j) \in returned /\ Booked(Row(j))) \/ UNCHANGED <<refund, link>>
      BY <1>10 DEF RetryOneRefund
    <2> QED BY <1>9, <2>1, <2>2, LedgerStutter
  <1>11. CASE RetryNextRefund
    <2>1. cli.now \in Refunds /\ cli.now \in Retried
      BY <1>11 DEF RetryNextRefund, RecordsOK, Retried
    <2>2. /\ UNCHANGED <<stamped, events, terminal, returned, cashOut>>
          /\ (cli.now \in returned /\ Booked(cli.now)) \/ UNCHANGED <<refund, link>>
      BY <1>11 DEF RetryNextRefund
    <2> QED BY <1>9, <2>1, <2>2, LedgerStutter
  <1>12. ASSUME NEW r \in Refunds, NEW s \in Statuses, SetStatus(r, s),
                UNCHANGED <<link, stamped, events, terminal, returned, cashOut>>
         PROVE  UNCHANGED Ledger!vars
    BY <1>12, StatusWritten, LedgerStutter
  <1>13. /\ "REFUND_PAYMENT_SUCCESS" \in Statuses /\ "REFUND_PAYMENT_FAILED" \in Statuses
         /\ "REFUND_PAYMENT_IN_FLIGHT" \in Statuses /\ "CANCELLED" \in Statuses
    BY DEF Statuses, REFUND_TERMINAL_STATUSES, REFUND_BLOCKING_STATES
  <1>14. ASSUME UNCHANGED db, UNCHANGED <<terminal, returned, cashOut>>
         PROVE  UNCHANGED Ledger!vars
    BY <1>14, LedgerStutter DEF db
  <1>15. ASSUME NEW r \in Refunds, CancelRefund(r)
         PROVE  UNCHANGED Ledger!vars
    BY <1>12, <1>13, <1>15 DEF CancelRefund
  <1>16. ASSUME NEW j \in Jobs,
                \/ ChargeRefundFailed(j) \/ ChargeRefundPending(j) \/ ChargeRefundComplete(j)
                \/ PollComplete(j) \/ PollTimeout(j)
         PROVE  UNCHANGED Ledger!vars
    <2>0. Row(j) \in Refunds
      BY <1>16, ResumedOnRefund DEF Resume
    <2>1. UNCHANGED <<link, stamped, events, terminal, returned, cashOut>>
      BY <1>16 DEF ChargeRefundFailed, ChargeRefundPending, ChargeRefundComplete, PollComplete,
                   PollTimeout
    <2>2. \/ UNCHANGED refund
          \/ \E s \in {"REFUND_PAYMENT_SUCCESS", "REFUND_PAYMENT_FAILED",
                       "REFUND_PAYMENT_IN_FLIGHT"} : SetStatus(Row(j), s)
      BY <1>16 DEF ChargeRefundFailed, ChargeRefundPending, ChargeRefundComplete, PollComplete,
                   PollTimeout, FinalizeRefundCharge
    <2> QED BY <1>12, <1>13, <2>0, <2>1, <2>2, LedgerStutter
  <1>17. \/ \E r \in Refunds : TerminalStarts(r) \/ TerminalDecides(r) \/ SentryReturns(r)
                                 \/ CancelRefund(r) \/ \E s \in Sales : StartRefund(r, s)
         \/ \E j \in Jobs, r \in Refunds : ChargeCashRefund(j, r)
         \/ \E j \in Jobs :
              \/ ChargeRefundFailed(j) \/ ChargeRefundPending(j) \/ ChargeRefundComplete(j)
              \/ PollComplete(j) \/ PollTimeout(j)
              \/ SentryAccepted(j) \/ SentryFailed(j) \/ RetryOneRefund(j)
         \/ RetryNextRefund
         \/ UNCHANGED <<db, terminal, returned, cashOut>>
    BY DEF Next, Request, Resume, World, vars, db, ChargeCardRefund, PollAgain, RetrySentry,
           JobDies, RetryFailedRefunds, RetryCommandStops
  <1> QED
    BY <1>1, <1>2, <1>3, <1>4, <1>6, <1>7, <1>8, <1>10, <1>11, <1>14, <1>15, <1>16, <1>17

\* The refund path keeps the order of effects RefundLedger promises.
THEOREM RefundKeepsLedger == Spec => KeepsLedger
  <1>1. Init => TerminalIsCard
    BY DEF Init, TerminalIsCard
  <1>2. TypeOK /\ Known /\ CashGuarded /\ TerminalIsCard /\ [Next]_vars => TerminalIsCard'
    BY TerminalStep
  <1>3. TypeOK /\ Known /\ Backed /\ CashGuarded /\ Published /\ TerminalIsCard /\ [Next]_vars
          => [Ledger!Next]_(Ledger!vars)
    BY LedgerStep
  <1> QED
    BY <1>1, <1>2, <1>3, LedgerInit, TypeCorrect, BackedAlways, CashGuardedAlways,
       PublishedAlways, PTL
       DEF Spec, KeepsLedger, Ledger!Spec
-----------------------------------------------------------------------------
(* No refund is left to nobody; see CheckoutProofs.                          *)

\* A wait of another job outlasts a step of job j, and so does one of j itself when
\* j waits for something else.
LEMMA HeldKept ==
  ASSUME NEW j \in Jobs, NEW p \in Points, NEW r \in Refunds, Held(p, r),
         job[j].at # p \/ job[j].refund # r,
         \A k \in Jobs \ {j} : job'[k] = job[k]
  PROVE  Held(p, r)'
  BY DEF Held, At, Row

\* One job, idle or working on refund r, takes a step: only r can lose its hold.
LEMMA HeldElsewhere ==
  ASSUME TypeOK, WorkIsHeld, [Next]_vars, NEW j \in Jobs, NEW r \in Refunds,
         job[j].at = "idle" \/ job[j].refund = r,
         \A k \in Jobs \ {j} : job'[k] = job[k],
         \A q \in Refunds \ {r} : refund'[q].status = refund[q].status /\ cashOut'[q] = cashOut[q],
         orphaned \subseteq orphaned',
         r \notin orphaned' => RefundIsHeld(r)'
  PROVE  WorkIsHeld'
  <1> SUFFICES ASSUME NEW q \in Refunds \ orphaned', q # r PROVE RefundIsHeld(q)'
    BY DEF WorkIsHeld
  <1>1. RefundIsHeld(q)
    BY DEF WorkIsHeld
  <1>2. \A p \in {"poll", "sentry"} : Held(p, q) => Held(p, q)'
    <2> SUFFICES ASSUME NEW p \in {"poll", "sentry"}, Held(p, q)
                 PROVE  Held(p, q)'
      OBVIOUS
    <2> QED BY HeldKept DEF Points
  <1>3. events[q] > 0 => events'[q] > 0
    BY EventsOfStep
  <1>4. refund'[q].status = refund[q].status /\ cashOut'[q] = cashOut[q]
    OBVIOUS
  <1> QED BY <1>1, <1>2, <1>3, <1>4 DEF RefundIsHeld

\* A step that suspends and resumes no job, pays no cash, and leaves a status or writes
\* one that needs no job.
LEMMA HeldByJobs ==
  ASSUME TypeOK, WorkIsHeld, [Next]_vars, UNCHANGED <<cashOut, orphaned>>,
         \A k \in Jobs : job'[k].at = job[k].at /\ job'[k].refund = job[k].refund,
         \A r \in Refunds : \/ refund'[r].status = refund[r].status
                            \/ refund'[r].status \notin
                                 {"REFUND_PAYMENT_IN_FLIGHT", "REFUND_PAYMENT_SUCCESS"}
  PROVE  WorkIsHeld'
  <1> SUFFICES ASSUME NEW r \in Refunds \ orphaned PROVE RefundIsHeld(r)'
    BY DEF WorkIsHeld
  <1>1. RefundIsHeld(r) /\ (events[r] > 0 => events'[r] > 0)
    BY EventsOfStep DEF WorkIsHeld
  <1>2. \A p \in Points : Held(p, r)' <=> Held(p, r)
    BY DEF Held, At, Row
  <1>3. \/ refund'[r].status = refund[r].status
        \/ refund'[r].status \notin {"REFUND_PAYMENT_IN_FLIGHT", "REFUND_PAYMENT_SUCCESS"}
    OBVIOUS
  <1> QED BY <1>1, <1>2, <1>3 DEF RefundIsHeld, Points

\* Cash paid back stays told or held when a job that is not at Sentry takes a step.
LEMMA CashStaysHeld ==
  ASSUME TypeOK, WorkIsHeld, [Next]_vars, NEW j \in Jobs, NEW r \in Refunds \ orphaned,
         job[j].at # "sentry",
         \A k \in Jobs \ {j} : job'[k] = job[k],
         cashOut'[r] = cashOut[r]
  PROVE  cashOut'[r] > 0 => events'[r] > 0 \/ Held("sentry", r)'
  <1>1. cashOut[r] > 0 => events[r] > 0 \/ Held("sentry", r)
    BY DEF WorkIsHeld, RefundIsHeld
  <1> QED BY <1>1, HeldKept, EventsOfStep DEF Points

LEMMA HeldRequest ==
  ASSUME TypeOK, WorkIsHeld, [Next]_vars, NEW j \in Jobs, NEW r \in Refunds, Request(j, r)
  PROVE  WorkIsHeld'
  <1> USE DEF TypeOK
  <1>0. job[j].at = "idle" /\ orphaned' = orphaned
    BY DEF Request, ChargeCashRefund, ChargeCardRefund, RetrySentry, At
  <1>1. CASE ChargeCashRefund(j, r)
    <2>1. /\ SetStatus(r, "REFUND_PAYMENT_SUCCESS")
          /\ cashOut' = [cashOut EXCEPT ![r] = @ + 1] /\ Suspend(j, "sentry", r)
      BY <1>1 DEF ChargeCashRefund
    <2>2. /\ refund'[r].status = "REFUND_PAYMENT_SUCCESS"
          /\ \A q \in Refunds \ {r} :
               refund'[q].status = refund[q].status /\ cashOut'[q] = cashOut[q]
      BY <2>1, StatusWritten DEF Statuses, REFUND_BLOCKING_STATES, RecordsOK
    <2>3. /\ job'[j].at = "sentry" /\ job'[j].refund = r
          /\ \A k \in Jobs \ {j} : job'[k] = job[k]
      BY <2>1, SuspendWritten DEF Points
    <2>4. Held("sentry", r)'
      BY <2>3 DEF Held, At, Row
    <2>5. RefundIsHeld(r)'
      BY <2>2, <2>4 DEF RefundIsHeld
    <2> QED BY <1>0, <2>2, <2>3, <2>5, HeldElsewhere
  <1>2. CASE ChargeCardRefund(j, r) \/ RetrySentry(j, r)
    <2>1. UNCHANGED <<refund, cashOut>> /\ \E p \in {"charge", "resend"} : Suspend(j, p, r)
      BY <1>2 DEF ChargeCardRefund, RetrySentry, db
    <2>2. \A k \in Jobs \ {j} : job'[k] = job[k]
      BY <2>1, SuspendWritten DEF Points
    <2>3. r \notin orphaned' => RefundIsHeld(r)'
      BY <1>0, <2>1, <2>2, HeldKept, CashStaysHeld DEF WorkIsHeld, RefundIsHeld, Points
    <2> QED BY <1>0, <2>1, <2>2, <2>3, HeldElsewhere
  <1> QED BY <1>1, <1>2 DEF Request

LEMMA HeldResume ==
  ASSUME TypeOK, WorkIsHeld, [Next]_vars, NEW j \in Jobs, Resume(j)
  PROVE  WorkIsHeld'
  <1> USE DEF TypeOK
  <1>0. PICK r \in Refunds : Row(j) = r
    BY ResumedOnRefund
  <1>a. job[j].refund = r /\ orphaned' = orphaned /\ cashOut' = cashOut
    BY <1>0 DEF Row, Resume, ChargeRefundFailed, ChargeRefundPending, ChargeRefundComplete,
       PollAgain, PollComplete, PollTimeout, SentryAccepted, SentryFailed, RetryOneRefund
  \* The job returns, and the refund needs it no longer.
  <1>b. ASSUME Return(j), \A q \in Refunds \ {r} : refund'[q].status = refund[q].status,
               \/ refund'[r].status \notin {"REFUND_PAYMENT_IN_FLIGHT", "REFUND_PAYMENT_SUCCESS"}
               \/ /\ refund'[r].status = refund[r].status /\ job[j].at # "sentry"
                  /\ job[j].at = "poll" => refund[r].status # "REFUND_PAYMENT_IN_FLIGHT",
               job[j].at # "sentry" \/ events'[r] > 0
        PROVE  WorkIsHeld'
    <2>1. \A k \in Jobs \ {j} : job'[k] = job[k]
      BY <1>b, ReturnWritten
    <2>2. r \notin orphaned => (cashOut'[r] > 0 => events'[r] > 0 \/ Held("sentry", r)')
      BY <1>a, <1>b, <2>1, CashStaysHeld
    <2>3. ASSUME NEW p \in {"poll", "sentry"}, Held(p, r), job[j].at # p
          PROVE  Held(p, r)'
      BY <2>1, <2>3, HeldKept DEF Points
    <2>4. r \notin orphaned => RefundIsHeld(r)'
      BY <1>b, <2>2, <2>3 DEF WorkIsHeld, RefundIsHeld
    <2> QED BY <1>a, <1>b, <2>1, <2>4, HeldElsewhere
  \* The job goes on to wait at p, and the status it writes fits that.
  <1>c. ASSUME NEW p \in {"poll", "sentry"}, NEW s \in Statuses, Suspend(j, p, r), SetStatus(r, s),
               job[j].at \in {"charge", "poll"},
               <<p, s>> \in {<<"poll", "REFUND_PAYMENT_IN_FLIGHT">>,
                             <<"sentry", "REFUND_PAYMENT_SUCCESS">>}
        PROVE  WorkIsHeld'
    <2>1. /\ job'[j].at = p /\ job'[j].refund = r
          /\ \A k \in Jobs \ {j} : job'[k] = job[k]
      BY <1>c, SuspendWritten DEF Points
    <2>2. /\ refund'[r].status = s
          /\ \A q \in Refunds \ {r} : refund'[q].status = refund[q].status
      BY <1>c, StatusWritten
    <2>3. Held(p, r)'
      BY <2>1 DEF Held, At, Row
    <2>4. r \notin orphaned => (cashOut'[r] > 0 => events'[r] > 0 \/ Held("sentry", r)')
      BY <1>a, <1>c, <2>1, CashStaysHeld
    <2>5. r \notin orphaned => RefundIsHeld(r)'
      BY <1>c, <2>2, <2>3, <2>4 DEF RefundIsHeld
    <2> QED BY <1>a, <2>1, <2>2, <2>5, HeldElsewhere
  <1>d. /\ "REFUND_PAYMENT_SUCCESS" \in Statuses /\ "REFUND_PAYMENT_FAILED" \in Statuses
        /\ "REFUND_PAYMENT_IN_FLIGHT" \in Statuses
        /\ "REFUND_INVENTORY_UPDATE_FAILED" \in Statuses
    BY DEF Statuses, REFUND_TERMINAL_STATUSES, REFUND_BLOCKING_STATES
  \* The job returns after a failed payment.
  <1>e. ASSUME SetStatus(r, "REFUND_PAYMENT_FAILED"), Return(j), job[j].at # "sentry"
        PROVE  WorkIsHeld'
    <2>1. /\ refund'[r].status = "REFUND_PAYMENT_FAILED"
          /\ \A q \in Refunds \ {r} : refund'[q].status = refund[q].status
      BY <1>d, <1>e, StatusWritten
    <2> QED BY <1>b, <1>e, <2>1
  <1>f. ASSUME FinalizeRefundCharge(j, r), job[j].at \in {"charge", "poll"}
        PROVE  WorkIsHeld'
    BY <1>c, <1>d, <1>e, <1>f DEF FinalizeRefundCharge
  <1>1. CASE ChargeRefundFailed(j)
    BY <1>0, <1>1, <1>e DEF ChargeRefundFailed, At
  <1>2. CASE ChargeRefundPending(j)
    BY <1>0, <1>2, <1>c, <1>d DEF ChargeRefundPending, At
  <1>3. CASE ChargeRefundComplete(j)
    BY <1>0, <1>3, <1>f DEF ChargeRefundComplete, At
  <1>4. CASE PollAgain(j)
    <2>1. /\ UNCHANGED refund
          /\ \A k \in Jobs : job'[k].at = job[k].at /\ job'[k].refund = job[k].refund
      BY <1>4, PollWritten DEF PollAgain, db
    <2> QED BY <1>a, <2>1, HeldByJobs
  <1>5. CASE PollComplete(j) \/ PollTimeout(j)
    <2>1. CASE refund[r].status = "REFUND_PAYMENT_IN_FLIGHT"
      BY <1>0, <1>5, <1>e, <1>f, <2>1 DEF PollComplete, PollTimeout, At
    <2>2. CASE refund[r].status # "REFUND_PAYMENT_IN_FLIGHT"
      <3>1. Return(j) /\ UNCHANGED refund /\ job[j].at = "poll"
        BY <1>0, <1>5, <2>2 DEF PollComplete, PollTimeout, At
      <3> QED BY <1>b, <2>2, <3>1
    <2> QED BY <2>1, <2>2
  <1>6. CASE SentryAccepted(j) \/ SentryFailed(j)
    <2>1. events' = [events EXCEPT ![r] = @ + 1] /\ Return(j)
      BY <1>0, <1>6 DEF SentryAccepted, SentryFailed
    <2>2. events'[r] > 0
      <3>1. events[r] \in Nat /\ events'[r] = events[r] + 1
        BY <2>1 DEF RecordsOK
      <3> QED BY <3>1
    <2>3. /\ refund'[r].status \in {"COMPLETE", "REFUND_INVENTORY_UPDATE_FAILED"}
          /\ \A q \in Refunds \ {r} : refund'[q].status = refund[q].status
      <3>1. CASE SentryAccepted(j)
        BY <1>0, <3>1, BookingWritten DEF SentryAccepted
      <3>2. CASE SentryFailed(j)
        BY <1>0, <1>d, <3>2, StatusWritten DEF SentryFailed
      <3> QED BY <1>6, <3>1, <3>2
    <2> QED BY <1>b, <2>1, <2>2, <2>3
  <1>7. CASE RetryOneRefund(j)
    <2>1. Return(j) /\ job[j].at = "resend"
      BY <1>7 DEF RetryOneRefund, At
    <2>2. CASE Booked(r)
      <3>1. /\ refund'[r].status = "COMPLETE"
            /\ \A q \in Refunds \ {r} : refund'[q].status = refund[q].status
        BY <2>2, BookingWritten
      <3> QED BY <1>b, <2>1, <3>1
    <2>3. CASE UNCHANGED refund
      BY <1>b, <2>1, <2>3
    <2> QED BY <1>0, <1>7, <2>2, <2>3 DEF RetryOneRefund
  <1> QED
    BY <1>1, <1>2, <1>3, <1>4, <1>5, <1>6, <1>7 DEF Resume

LEMMA HeldNext ==
  ASSUME TypeOK, WorkIsHeld, [Next]_vars
  PROVE  WorkIsHeld'
  <1> USE DEF TypeOK
  <1>1. ASSUME NEW j \in Jobs, JobDies(j) PROVE WorkIsHeld'
    <2>0. PICK r \in Refunds : Row(j) = r
      BY <1>1, SuspendedOnRefund DEF JobDies
    <2>1. job[j].refund = r
      BY <2>0 DEF Row
    <2>2. UNCHANGED <<refund, cashOut>> /\ \A k \in Jobs \ {j} : job'[k] = job[k]
      BY <1>1, ReturnWritten DEF JobDies, db
    <2>3. /\ orphaned \subseteq orphaned'
          /\ job[j].at \in {"poll", "sentry"} => r \in orphaned'
      BY <1>1, <2>0 DEF JobDies
    <2>4. ASSUME r \notin orphaned' PROVE RefundIsHeld(r)'
      <3>1. job[j].at \notin {"poll", "sentry"} /\ r \in Refunds \ orphaned
        BY <2>3, <2>4
      <3>2. cashOut'[r] > 0 => events'[r] > 0 \/ Held("sentry", r)'
        BY <2>2, <3>1, CashStaysHeld
      <3> QED BY <2>2, <3>1, <3>2, HeldKept DEF WorkIsHeld, RefundIsHeld, Points
    <2> QED BY <2>1, <2>2, <2>3, <2>4, HeldElsewhere
  <1>2. CASE RetryFailedRefunds \/ RetryCommandStops \/ (\E r \in Refunds : World(r))
             \/ UNCHANGED vars
    <2>1. UNCHANGED <<refund, job, cashOut, orphaned>>
      BY <1>2 DEF RetryFailedRefunds, RetryCommandStops, World, TerminalStarts, TerminalDecides,
         SentryReturns, vars, db
    <2> QED BY <2>1, HeldByJobs
  <1>3. ASSUME NEW r \in Refunds, CancelRefund(r) PROVE WorkIsHeld'
    <2>1. SetStatus(r, "CANCELLED") /\ UNCHANGED <<job, cashOut, orphaned>>
      BY <1>3 DEF CancelRefund
    <2>2. /\ refund'[r].status = "CANCELLED"
          /\ \A q \in Refunds \ {r} : refund'[q].status = refund[q].status
      BY <2>1, StatusWritten DEF Statuses, REFUND_TERMINAL_STATUSES
    <2> QED BY <2>1, <2>2, HeldByJobs
  <1>4. ASSUME NEW r \in Refunds, NEW s \in Sales, StartRefund(r, s) PROVE WorkIsHeld'
    <2>1. UNCHANGED <<job, cashOut, orphaned>>
      BY <1>4 DEF StartRefund
    <2>2. /\ refund'[r].status = "REFUND_PENDING"
          /\ \A q \in Refunds \ {r} : refund'[q] = refund[q]
      BY <1>4, StartWritten
    <2> QED BY <2>1, <2>2, HeldByJobs
  <1>5. CASE RetryNextRefund
    <2>1. UNCHANGED <<job, cashOut, orphaned>> /\ cli.now \in Refunds
      BY <1>5 DEF RetryNextRefund, RecordsOK
    <2>2. CASE Booked(cli.now)
      <3>1. /\ refund'[cli.now].status = "COMPLETE"
            /\ \A q \in Refunds \ {cli.now} : refund'[q] = refund[q]
        BY <2>1, <2>2, BookingWritten
      <3> QED BY <2>1, <3>1, HeldByJobs
    <2>3. CASE UNCHANGED refund
      BY <2>1, <2>3, HeldByJobs
    <2> QED BY <1>5, <2>2, <2>3 DEF RetryNextRefund
  <1> QED
    BY <1>1, <1>2, <1>3, <1>4, <1>5, HeldRequest, HeldResume DEF Next

\* Whatever overlaps, a refund being paid and cash paid back that Fabric does not know of
\* are in the hands of a job, until one of the refund's jobs dies: with Fairness, the
\* reason for WorkEnds.
THEOREM WorkHeldAlways == Spec => []WorkIsHeld
  <1>1. Init => WorkIsHeld
    BY DEF Init, WorkIsHeld, RefundIsHeld
  <1>2. TypeOK /\ WorkIsHeld /\ [Next]_vars => WorkIsHeld'
    BY HeldNext
  <1> QED BY <1>1, <1>2, TypeCorrect, PTL DEF Spec

-----------------------------------------------------------------------------
(* Who may write over a COMPLETE row.                                        *)

\* A refund that was started keeps its sale.
LEMMA StartedKept ==
  ASSUME TypeOK, Known, [Next]_vars, NEW r \in Refunds, refund[r].status # "none"
  PROVE  refund'[r].parent = refund[r].parent
  BY SaleKept DEF Known

\* A job that is at Sentry for a cash sale's refund after a step was there before, or
\* has just paid the pending refund back.
LEMMA ArrivesAtSentry ==
  ASSUME TypeOK, Known, CashGuarded, [Next]_vars, NEW k \in Jobs,
         job'[k].at = "sentry", refund'[job'[k].refund].parent \in CashSales
  PROVE  LET r == job'[k].refund
         IN  /\ r \in Refunds /\ refund[r].parent = refund'[r].parent
             /\ \/ At(k, "sentry") /\ Row(k) = r
                \/ /\ refund[r].status = "REFUND_PENDING"
                   /\ refund'[r].status = "REFUND_PAYMENT_SUCCESS"
                   /\ \A l \in Jobs \ {k} : job'[l] = job[l]
  <1> USE DEF TypeOK
  <1> DEFINE r == job'[k].refund
  <1>1. r \in Refunds
    BY StepOfJobs DEF JobOK, At, Row
  <1>2. CASE job[k].at = "sentry" /\ job[k].refund = r
    <2>1. refund[r].status # "none"
      BY <1>1, <1>2 DEF Known, Row
    <2> QED BY <1>1, <1>2, <2>1, StartedKept DEF At, Row
  <1>3. CASE NewWait(k, "sentry", r)
    <2>1. SetStatus(r, "REFUND_PAYMENT_SUCCESS") /\ Suspend(k, "sentry", r)
      BY <1>3 DEF NewWait
    <2>2. /\ refund'[r].parent = refund[r].parent
          /\ refund'[r].status = "REFUND_PAYMENT_SUCCESS"
      BY <1>1, <2>1, StatusWritten DEF Statuses, REFUND_BLOCKING_STATES
    <2>3. refund[r].status = "REFUND_PENDING"
      <3>1. CASE job[k].at \in {"charge", "poll"} /\ Row(k) = r
        BY <2>2, <3>1, SalesAssumption DEF CashGuarded
      <3> QED BY <1>3, <3>1 DEF NewWait
    <2>4. \A l \in Jobs \ {k} : job'[l] = job[l]
      BY <1>1, <2>1, SuspendWritten DEF Points
    <2> QED BY <1>1, <2>2, <2>3, <2>4
  <1> QED BY <1>2, <1>3, WaitOfStep

\* A cash refund at Sentry is written by the job that is there, which leaves.
LEMMA LeavesSentry ==
  ASSUME TypeOK, Known, CashGuarded, CashBooking, [Next]_vars, NEW r \in Refunds,
         refund[r].parent \in CashSales, refund[r].status = "REFUND_PAYMENT_SUCCESS",
         refund'[r].status # "REFUND_PAYMENT_SUCCESS"
  PROVE  \E j \in Jobs : At(j, "sentry") /\ Row(j) = r /\ Return(j)
  <1> USE DEF TypeOK
  <1>1. ASSUME NEW q \in Refunds, NEW s \in Statuses, SetStatus(q, s)
        PROVE  q = r
    BY <1>1, StatusWritten
  <1>2. /\ "REFUND_PAYMENT_SUCCESS" \in Statuses /\ "REFUND_PAYMENT_FAILED" \in Statuses
        /\ "REFUND_PAYMENT_IN_FLIGHT" \in Statuses /\ "CANCELLED" \in Statuses
        /\ "REFUND_INVENTORY_UPDATE_FAILED" \in Statuses
    BY DEF Statuses, REFUND_TERMINAL_STATUSES, REFUND_BLOCKING_STATES
  <1>3. ASSUME NEW q \in Refunds, NEW s \in Sales, StartRefund(q, s) PROVE FALSE
    <2>1. q # r
      BY <1>3 DEF StartRefund
    <2> QED BY <1>3, <2>1, StartWritten
  <1>4. ASSUME NEW j \in Jobs, NEW q \in Refunds, ChargeCashRefund(j, q) PROVE FALSE
    BY <1>1, <1>2, <1>4 DEF ChargeCashRefund
  <1>5. ASSUME NEW q \in Refunds, CancelRefund(q) PROVE FALSE
    BY <1>1, <1>2, <1>5 DEF CancelRefund
  <1>6. ASSUME NEW j \in Jobs, WindcaveWrite(j) PROVE FALSE
    <2>1. Row(j) = r
      BY <1>1, <1>2, <1>6 DEF WindcaveWrite
    <2> QED BY <1>6, <2>1, SalesAssumption DEF WindcaveWrite, CashGuarded
  <1>7. ASSUME NEW j \in Jobs, SentryWrite(j)
        PROVE  At(j, "sentry") /\ Row(j) = r /\ Return(j)
    BY <1>1, <1>2, <1>7 DEF SentryWrite
  <1>8. ASSUME NEW q \in Refunds, BookingWrite(q)
        PROVE  \E j \in Jobs : At(j, "sentry") /\ Row(j) = r /\ Return(j)
    <2>1. q = r
      BY <1>8, BookingWritten DEF BookingWrite
    <2>2. r \notin Retried
      BY DEF CashBooking
    <2> QED BY <1>8, <2>1, <2>2 DEF BookingWrite
  <1> QED BY <1>3, <1>4, <1>5, <1>6, <1>7, <1>8, StepOfRows DEF RowStep

LEMMA CashBookingNext ==
  ASSUME TypeOK, Known, CashGuarded, CashBooking, [Next]_vars
  PROVE  CashBooking'
  <1> USE DEF TypeOK
  <1>1. ASSUME NEW k \in Jobs, job'[k].at = "sentry",
               refund'[job'[k].refund].parent \in CashSales
        PROVE  refund'[job'[k].refund].status = "REFUND_PAYMENT_SUCCESS"
    <2> DEFINE r == job'[k].refund
    <2>1. CASE refund'[r].status # "REFUND_PAYMENT_SUCCESS"
      <3>1. /\ r \in Refunds /\ refund[r].parent \in CashSales
            /\ At(k, "sentry") /\ Row(k) = r
        BY <1>1, <2>1, ArrivesAtSentry
      <3>2. refund[r].status = "REFUND_PAYMENT_SUCCESS"
        BY <3>1 DEF CashBooking
      <3>3. PICK j \in Jobs : At(j, "sentry") /\ Row(j) = r /\ Return(j)
        BY <2>1, <3>1, <3>2, LeavesSentry
      <3>4. j = k
        BY <3>1, <3>3 DEF CashBooking
      <3> QED BY <1>1, <3>3, <3>4, ReturnWritten
    <2> QED BY <2>1
  <1>2. ASSUME NEW k \in Jobs, NEW l \in Jobs, job'[k].at = "sentry", job'[l].at = "sentry",
               job'[l].refund = job'[k].refund,
               refund'[job'[k].refund].parent \in CashSales
        PROVE  l = k
    <2> DEFINE r == job'[k].refund
    <2>1. /\ r \in Refunds /\ refund[r].parent \in CashSales
          /\ \/ At(k, "sentry") /\ Row(k) = r
             \/ /\ refund[r].status = "REFUND_PENDING"
                /\ \A i \in Jobs \ {k} : job'[i] = job[i]
      BY <1>2, ArrivesAtSentry
    <2>2. \/ At(l, "sentry") /\ Row(l) = r
          \/ /\ refund[r].status = "REFUND_PENDING"
             /\ \A i \in Jobs \ {l} : job'[i] = job[i]
      BY <1>2, ArrivesAtSentry
    <2>3. refund[r].status = "REFUND_PENDING" =>
            \A i \in Jobs : ~ (At(i, "sentry") /\ Row(i) = r)
      BY <2>1 DEF CashBooking
    <2>4. CASE refund[r].status = "REFUND_PENDING"
      BY <1>2, <2>1, <2>3, <2>4 DEF At, Row
    <2>5. CASE refund[r].status # "REFUND_PENDING"
      BY <2>1, <2>2, <2>5 DEF CashBooking
    <2> QED BY <2>4, <2>5
  <1>3. ASSUME NEW r \in Retried', refund'[r].parent \in CashSales
        PROVE  refund'[r].status \in {"REFUND_INVENTORY_UPDATE_FAILED", "COMPLETE"}
    <2>0. r \in Refunds
      <3>1. cli' \in [now : Refunds \cup {Nothing}, todo : SUBSET Refunds] /\ JobOK'
        BY StepOfCli, StepOfJobs
      <3> QED BY <1>3, <3>1 DEF Retried, JobOK, At, Row
    <2>1. r \in Retried \/ refund[r].status = "REFUND_INVENTORY_UPDATE_FAILED"
      BY <1>3, <2>0, RetriedOfStep
    <2>2. refund[r].status # "none"
      BY <2>0, <2>1 DEF Known, Retried, InHand
    <2>3. refund[r].parent \in CashSales
      BY <1>3, <2>0, <2>2, StartedKept
    <2>4. refund[r].status \in {"REFUND_INVENTORY_UPDATE_FAILED", "COMPLETE"}
      BY <2>1, <2>3 DEF CashBooking
    <2> QED
      BY <1>3, <2>0, <2>4, CashEffect
         DEF SameRow, Started, PaidInCash, Cancelled, Unbooked, BookedRow
  <1> QED BY <1>1, <1>2, <1>3 DEF CashBooking, At, Row

\* A step that takes a refund out of COMPLETE.
LEMMA UndoneByJob ==
  ASSUME TypeOK, CashGuarded, CashBooking, [Next]_vars, NEW r \in Refunds,
         refund[r].status = "COMPLETE", refund'[r].status # "COMPLETE",
         refund[r].parent \in Sales
  PROVE  /\ refund[r].parent \in CardSales
         /\ \E j \in Jobs :
              job[j].at \in {"charge", "sentry"} /\ Row(j) = r /\ job'[j] # job[j]
  <1> USE DEF TypeOK
  <1>1. ASSUME NEW q \in Refunds, NEW s \in Statuses, SetStatus(q, s)
        PROVE  q = r
    BY <1>1, StatusWritten
  <1>2. /\ "REFUND_PAYMENT_SUCCESS" \in Statuses /\ "REFUND_PAYMENT_FAILED" \in Statuses
        /\ "REFUND_PAYMENT_IN_FLIGHT" \in Statuses /\ "CANCELLED" \in Statuses
        /\ "REFUND_INVENTORY_UPDATE_FAILED" \in Statuses
    BY DEF Statuses, REFUND_TERMINAL_STATUSES, REFUND_BLOCKING_STATES
  <1>3. ASSUME NEW q \in Refunds, NEW s \in Sales, StartRefund(q, s) PROVE FALSE
    <2>1. q # r
      BY <1>3 DEF StartRefund
    <2> QED BY <1>3, <2>1, StartWritten
  <1>4. ASSUME NEW j \in Jobs, NEW q \in Refunds, ChargeCashRefund(j, q) PROVE FALSE
    BY <1>1, <1>2, <1>4 DEF ChargeCashRefund
  <1>5. ASSUME NEW q \in Refunds, CancelRefund(q) PROVE FALSE
    BY <1>1, <1>2, <1>5 DEF CancelRefund
  <1>6. ASSUME NEW j \in Jobs, WindcaveWrite(j)
        PROVE  /\ refund[r].parent \in CardSales
               /\ job[j].at \in {"charge", "sentry"} /\ Row(j) = r /\ job'[j] # job[j]
    <2>1. Row(j) = r
      BY <1>1, <1>2, <1>6 DEF WindcaveWrite
    <2>2. job[j].at = "charge"
      BY <1>6, <2>1 DEF WindcaveWrite, At
    <2>3. refund[r].parent \in CardSales
      BY <2>1, <2>2 DEF CashGuarded
    <2>4. job'[j].at # "charge"
      BY <1>6, <2>1, SuspendWritten, ReturnWritten DEF WindcaveWrite, Points
    <2> QED BY <2>1, <2>2, <2>3, <2>4
  <1>7. ASSUME NEW j \in Jobs, SentryWrite(j)
        PROVE  /\ refund[r].parent \in CardSales
               /\ job[j].at \in {"charge", "sentry"} /\ Row(j) = r /\ job'[j] # job[j]
    <2>1. At(j, "sentry") /\ Row(j) = r /\ Return(j)
      BY <1>1, <1>2, <1>7 DEF SentryWrite
    <2>2. refund[r].parent \notin CashSales
      BY <2>1 DEF CashBooking
    <2>3. job'[j].at = "idle"
      BY <2>1, ReturnWritten
    <2> QED BY <2>1, <2>2, <2>3 DEF Sales, At
  <1>8. ASSUME NEW q \in Refunds, BookingWrite(q) PROVE FALSE
    BY <1>8, BookingWritten DEF BookingWrite
  <1> QED BY <1>3, <1>4, <1>5, <1>6, <1>7, <1>8, StepOfRows DEF RowStep

\* A COMPLETE refund is undone by a late answer of Windcave or Sentry about a card sale
\* only.
THEOREM CompleteUndoneLate == Spec => OnlyLateAnswersUndo
  <1>1. Init => CashBooking
    BY RefundsAssumption DEF Init, CashBooking, Retried, Idle, At
  <1>2. TypeOK /\ Known /\ CashGuarded /\ CashBooking /\ [Next]_vars => CashBooking'
    BY CashBookingNext
  <1>3. TypeOK /\ Known /\ CashGuarded /\ CashBooking /\ [Next]_vars =>
          [\A r \in Refunds : refund[r].status = "COMPLETE" /\ refund'[r].status # "COMPLETE" =>
             /\ refund[r].parent \in CardSales
             /\ \E j \in Jobs :
                  job[j].at \in {"charge", "sentry"} /\ Row(j) = r /\ job'[j] # job[j]]_vars
    <2> SUFFICES ASSUME TypeOK, Known, CashGuarded, CashBooking, [Next]_vars, NEW r \in Refunds,
                        refund[r].status = "COMPLETE", refund'[r].status # "COMPLETE"
                 PROVE  /\ refund[r].parent \in CardSales
                        /\ \E j \in Jobs : job[j].at \in {"charge", "sentry"} /\ Row(j) = r
                                           /\ job'[j] # job[j]
      OBVIOUS
    <2>1. refund[r].parent \in Sales
      BY DEF TypeOK, RowOK, Known
    <2> QED BY <2>1, UndoneByJob
  <1> QED
    BY <1>1, <1>2, <1>3, TypeCorrect, BackedAlways, CashGuardedAlways, PTL
       DEF Spec, OnlyLateAnswersUndo
=============================================================================
