\* Three entries in batches of two, two admin retries at a time.
SPECIFICATION FairSpec
CONSTANTS
  e1 = e1
  e2 = e2
  e3 = e3
  Entries = {e1, e2, e3}
  NoEntry = NoEntry
  Created <- CreatedAt
  BatchSize = 2
  MaxAttempts = 2
  Threads = {k1, k2}
  MaxRetries = 2
INVARIANTS
  ResendsAreBounded
  GivenUpAfterSchedule
  InFlightIsOwned
PROPERTY EntrySettles
CHECK_DEADLOCK FALSE
