\* A refund in cash at one till.
SPECIFICATION ReportSpec
CONSTANTS
  mike = mike
  Cashiers = {mike}
  Txns <- OneRefund
  Sessions = {s1}
  NoSession = NoSession
  Floats = {100}
  Counts = {600}
  Workers = {w1}
  MaxTimes = 1
  MaxLosses = 0
PROPERTY RefundLowersExpected
CHECK_DEADLOCK FALSE
