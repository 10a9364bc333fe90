\* One item in two sales that two presses of a pay button can start.
SPECIFICATION RegisterFairSpec
CONSTANTS
  Items = {i1}
  Sales = {s1, s2}
  Presses = {h1, h2}
  Tenders = {d1}
  NoSale = NoSale
INVARIANTS
  SuccessIsPaid
  PrintedOnce
  OnePaymentPerItem
PROPERTY InFlightFollows
\* Both sales may be used up and the screen idle.
CHECK_DEADLOCK FALSE
