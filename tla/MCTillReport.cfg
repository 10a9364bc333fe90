\* One cashier, two tills, two pool threads beside the event loop, one lost file.
SPECIFICATION ReportSpec
CONSTANTS
  mike = mike
  Cashiers = {mike}
  Txns <- OneRefund
  Sessions = {s1, s2}
  NoSession = NoSession
  Floats = {100}
  Counts = {600, 700}
  Workers = {w1, w2}
  MaxTimes = 1
  MaxLosses = 1
SYMMETRY Symmetry
INVARIANTS
  OneOpenTill
  TalliesAreComplete
  CloseReportAddsUp
  ReportIsCurrent
  ReportIsWhole
CHECK_DEADLOCK FALSE
