\* One sale, three concurrent jobs: every overlap of charge, poll, cancel and retry.
SPECIFICATION FairSpec
CONSTANTS
  Txns = {t1}
  NoTxn = NoTxn
  Jobs = {j1, j2, j3}
  MaxPolls = 2
INVARIANTS
  CompleteIsOrdered
  CompleteIsPublished
  CashOnce
PROPERTIES
  WorkEnds
  CashReachesFabric
  KeepsLedger
CHECK_DEADLOCK FALSE
