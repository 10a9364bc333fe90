\* A cash and a card sale, two refund rows for them, two concurrent jobs.
SPECIFICATION FairSpec
CONSTANTS
  CashSales = {s1}
  CardSales = {s2}
  Refunds = {r1, r2}
  Nothing = Nothing
  Jobs = {j1, j2}
  MaxPolls = 1
INVARIANTS
  OrderOnlyAfterPayout
  CashRefundedOnce
  CompleteIsPublished
PROPERTIES
  WorkEnds
  KeepsLedger
CHECK_DEADLOCK FALSE
